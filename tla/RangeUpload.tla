---------------------------- MODULE RangeUpload ----------------------------
(***************************************************************************)
(* The parallel pipeline of one transfer: upload_multipart_range of        *)
(* server/src/transfer/upload.rs with the bookkeeping of transfer/range.rs. *)
(* The first part is already in memory; the others are downloaded by range *)
(* requests, hashed in order as soon as all earlier parts are hashed, and  *)
(* uploaded as parts of one multipart upload.                              *)
(*                                                                         *)
(* The pipeline is one async task, so its steps are what happens between   *)
(* two awaits.  At "head" the loop starts downloads and tests for its end; *)
(* at "select" it waits in tokio::select! for a download or an upload.     *)
(***************************************************************************)
EXTENDS Integers, FiniteSets, Sequences

CONSTANTS
  NumParts,            \* parts the source has, the first one included
  PartLimit,           \* 10000: the part numbers S3 accepts
  DownloadParallelism, \* transfer.download_parallelism
  UploadParallelism,   \* transfer.upload_parallelism
  MaxInFlightParts     \* transfer.max_in_flight_parts

(* The source is longer than the first buffer, or one PutObject would have *)
(* sent it; TransferOptions::from_section raises the three limits to 1.    *)
ASSUME RangeAssumption ==
  /\ NumParts \in Nat /\ NumParts >= 2
  /\ PartLimit \in Nat \ {0}
  /\ DownloadParallelism \in Nat \ {0}
  /\ UploadParallelism \in Nat \ {0}
  /\ MaxInFlightParts \in Nat \ {0}

Parts == 1..NumParts

VARIABLES
  pc,         \* where the task is suspended
  launched,   \* the last part whose range left pending_ranges
  downloads,  \* parts in the downloads FuturesUnordered
  uploads,    \* parts in the uploads FuturesUnordered
  sending,    \* those of them that hold a permit of upload_semaphore
  active,     \* keys of part_states
  held,       \* those whose state still has its bytes (not hashed)
  uploaded,   \* those whose state has upload_done
  nextHash,   \* next_hash_part
  digest,     \* the parts given to the hasher, in order
  completed,  \* completed_parts
  upload,     \* the multipart upload in storage
  expired     \* TRUE once options.deadline has passed

pipeline == <<launched, downloads, uploads, sending, active, held, uploaded,
              nextHash, digest, completed>>
vars == <<pc, pipeline, upload, expired>>

Init ==
  /\ pc = "create"
  /\ launched = 1
  /\ downloads = {} /\ uploads = {} /\ sending = {}
  /\ active = {} /\ held = {} /\ uploaded = {}
  /\ nextHash = 1 /\ digest = <<>>
  /\ completed = {}
  /\ upload = "none"
  /\ expired = FALSE

(* pending_ranges, in order: the ranges not yet popped. *)
Pending == (launched + 1)..NumParts

-----------------------------------------------------------------------------
(* create_multipart_upload; then build_range_specs refuses a part number   *)
(* above the limit, or the first part starts uploading and is hashed.      *)
Create ==
  /\ pc = "create"
  /\ upload' = "open"
  /\ IF NumParts > PartLimit
     THEN pc' = "abort" /\ UNCHANGED pipeline
     ELSE /\ pc' = "head"
          /\ active' = {1} /\ uploads' = {1}
          /\ nextHash' = 2 /\ digest' = <<1>>
          /\ UNCHANGED <<launched, downloads, sending, held, uploaded, completed>>
  /\ UNCHANGED expired

(* The answer is an error or late; storage may have opened the upload. *)
CreateFails ==
  /\ pc = "create"
  /\ upload' \in {upload, "open"}
  /\ pc' = "failed"
  /\ UNCHANGED <<pipeline, expired>>

ActivePartCountKept == Cardinality(downloads) + Cardinality(active \cup completed)

ActivePartCount == Cardinality(downloads) + Cardinality(active)

CanLaunchPastLimit ==
  /\ Cardinality(downloads) < DownloadParallelism
  /\ ActivePartCount <= MaxInFlightParts
  /\ Pending # {}

CanLaunch ==
  /\ Cardinality(downloads) < DownloadParallelism
  /\ ActivePartCount < MaxInFlightParts
  /\ Pending # {}

Launch ==
  /\ pc = "head" /\ CanLaunch
  /\ launched' = launched + 1
  /\ downloads' = downloads \cup {launched + 1}
  /\ UNCHANGED <<pc, uploads, sending, active, held, uploaded, nextHash, digest,
                 completed, upload, expired>>

DrainedOfDownloads == Pending = {} /\ downloads = {} /\ nextHash = NumParts + 1

Drained == Pending = {} /\ downloads = {} /\ uploads = {} /\ active = {}

(* The loop waits, or it breaks and the hashed length is compared with     *)
(* Content-Length (every part has the length its range asked for).         *)
EndHead ==
  /\ pc = "head" /\ ~CanLaunch
  /\ pc' = IF ~Drained THEN "select"
           ELSE IF nextHash = NumParts + 1 THEN "complete" ELSE "abort"
  /\ UNCHANGED <<pipeline, upload, expired>>

(* The hashed parts that leave the table: those whose upload is done. *)
LeavingNever(run, done) == {}

Leaving(run, done) == run \cap done

HashOnArrival(acts, bytes, done) ==
  \E n \in bytes :
    /\ nextHash' = nextHash + 1
    /\ digest' = Append(digest, n)
    /\ held' = bytes \ {n}
    /\ active' = acts \ Leaving({n}, done)
    /\ uploaded' = done \ {n}

(* hash_ready_range_parts on the part states acts, bytes and done: parts   *)
(* are hashed while the next one has its bytes; a hashed part leaves the   *)
(* table if its upload is done.                                            *)
HashReady(acts, bytes, done) ==
  \E n \in nextHash..(NumParts + 1) :
    LET run == nextHash..(n - 1) IN
    /\ run \subseteq bytes /\ n \notin bytes
    /\ nextHash' = n
    /\ digest' = digest \o [i \in 1..(n - nextHash) |-> nextHash + i - 1]
    /\ held' = bytes \ run
    /\ active' = acts \ Leaving(run, done)
    /\ uploaded' = done \ run

(* A finished download is queued for upload and hashed if it is its turn. *)
Downloaded(p) ==
  /\ pc = "select" /\ p \in downloads
  /\ downloads' = downloads \ {p}
  /\ uploads' = uploads \cup {p}
  /\ HashReady(active \cup {p}, held \cup {p}, uploaded \ {p})
  /\ pc' = "head"
  /\ UNCHANGED <<launched, sending, completed, upload, expired>>

AcquirePermit(p) ==
  /\ pc = "select" /\ p \in uploads \ sending
  /\ Cardinality(sending) < UploadParallelism
  /\ sending' = sending \cup {p}
  /\ UNCHANGED <<pc, launched, downloads, uploads, active, held, uploaded, nextHash,
                 digest, completed, upload, expired>>

(* mark_range_part_uploaded: the state goes if the part is hashed, else it *)
(* stays, with upload_done, until its turn to be hashed.                   *)
MarkUploaded(p) ==
  /\ IF p \in held
     THEN uploaded' = uploaded \cup {p} /\ UNCHANGED active
     ELSE active' = active \ {p} /\ UNCHANGED uploaded
  /\ UNCHANGED held

Uploaded(p) ==
  /\ pc = "select" /\ p \in sending
  /\ uploads' = uploads \ {p}
  /\ sending' = sending \ {p}
  /\ completed' = completed \cup {p}
  /\ MarkUploaded(p)
  /\ pc' = "head"
  /\ UNCHANGED <<launched, downloads, nextHash, digest, upload, expired>>

(* The first error ends the loop: the futures still running are dropped.   *)
PartFails ==
  /\ pc = "select"
  /\ downloads # {} \/ sending # {}
  /\ pc' = "abort"
  /\ downloads' = {} /\ uploads' = {} /\ sending' = {}
  /\ UNCHANGED <<launched, active, held, uploaded, nextHash, digest, completed,
                 upload, expired>>

DeadlinePasses ==
  /\ ~expired /\ expired' = TRUE
  /\ pc \notin {"completed", "failed"}
  /\ UNCHANGED <<pc, pipeline, upload>>

(* complete_multipart_with_hash, under the deadline. *)
Complete ==
  /\ pc = "complete"
  /\ upload' = "complete" /\ pc' = "completed"
  /\ UNCHANGED <<pipeline, expired>>

(* The answer is an error or late; storage may have assembled the object.  *)
CompleteFails ==
  /\ pc = "complete"
  /\ upload' \in {upload, "complete"}
  /\ pc' = "abort"
  /\ UNCHANGED <<pipeline, expired>>

(* finish_or_abort_multipart: the abort runs under the same deadline, so   *)
(* after it has passed the request is given up before it is sent.  An      *)
(* error of the abort is only logged.                                      *)
Abort ==
  /\ pc = "abort"
  /\ pc' = "failed"
  /\ \/ UNCHANGED upload
     \/ ~expired /\ upload = "open" /\ upload' = "aborted"
  /\ UNCHANGED <<pipeline, expired>>

Next ==
  \/ Create \/ CreateFails \/ Launch \/ EndHead
  \/ \E p \in Parts : Downloaded(p) \/ AcquirePermit(p) \/ Uploaded(p)
  \/ PartFails \/ DeadlinePasses
  \/ Complete \/ CompleteFails \/ Abort

Spec == Init /\ [][Next]_vars

(* The task is polled while something it waits for is ready, and every     *)
(* request is answered or fails.                                           *)
FairSpec == Spec /\ WF_vars(Next)

-----------------------------------------------------------------------------
TypeOK ==
  /\ pc \in {"create", "head", "select", "complete", "abort", "completed", "failed"}
  /\ launched \in Parts
  /\ downloads \in SUBSET Parts
  /\ uploads \in SUBSET Parts
  /\ sending \in SUBSET uploads
  /\ active \in SUBSET Parts
  /\ held \in SUBSET active
  /\ uploaded \in SUBSET active
  /\ nextHash \in 1..(NumParts + 1)
  /\ digest \in Seq(Parts)
  /\ completed \in SUBSET Parts
  /\ upload \in {"none", "open", "complete", "aborted"}
  /\ expired \in BOOLEAN

(* tokio::select! panics when every branch is disabled, and a panic ends   *)
(* the worker loop for good.  The pipeline never waits with nothing        *)
(* downloading and nothing uploading: parts that are uploaded but wait to  *)
(* be hashed cannot fill the window and starve the part they wait for.     *)
SelectHasBranch == pc = "select" => downloads # {} \/ uploads # {}

(* max_in_flight_parts bounds the parts held in memory, those being        *)
(* downloaded and those kept for their hash or their upload.               *)
InFlightBound == ActivePartCount <= MaxInFlightParts

(* The digest is that of the parts in order, whatever the order of the     *)
(* downloads and uploads.                                                  *)
HashedInOrder == digest = [i \in 1..(nextHash - 1) |-> i]

(* A multipart upload is completed only with every part uploaded and       *)
(* hashed: the recorded digest and length are those of the object.         *)
CompleteIsWhole ==
  pc = "complete" \/ upload = "complete" =>
    completed = Parts /\ digest = [i \in Parts |-> i]

(* No part is uploaded twice, none is dropped: a part that left the        *)
(* pipeline's tables was both hashed and uploaded.                         *)
NoPartLost ==
  pc \in {"head", "select"} =>
    \A p \in Parts :
      /\ p <= launched /\ p \notin downloads \cup active => p \in completed /\ p < nextHash
      /\ p \in completed => p \notin downloads \cup uploads

(* Every transfer ends, completed or failed. *)
Finishes == <>(pc \in {"completed", "failed"})

(* The inductive invariant: what the tables hold before the pipeline runs  *)
(* and, between two of its steps, how each table follows from the others.  *)
PipelineInv ==
  /\ pc = "create" =>
       /\ launched = 1 /\ upload = "none"
       /\ downloads = {} /\ uploads = {} /\ sending = {}
       /\ active = {} /\ held = {} /\ uploaded = {} /\ completed = {}
  /\ pc \in {"head", "select"} =>
       /\ held = {p \in active : p >= nextHash}
       /\ uploads = active \ uploaded
       /\ uploaded \subseteq held
       /\ \A p \in downloads : nextHash <= p /\ p <= launched
       /\ \A p \in active : p <= launched
       /\ downloads \cap active = {}
       /\ nextHash \notin held
       /\ \A p \in 1..launched : p \in downloads \cup active \/ p < nextHash
       /\ completed = (1..launched) \ (downloads \cup uploads)
       /\ nextHash <= launched + 1
       /\ upload = "open"

=============================================================================
