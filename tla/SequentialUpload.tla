-------------------------- MODULE SequentialUpload --------------------------
(***************************************************************************)
(* One transfer up to the choice of its path, and the sequential path:     *)
(* transfer_source_to_storage and upload_multipart_sequential of           *)
(* server/src/transfer/upload.rs.  (The parallel path is RangeUpload.)     *)
(*                                                                         *)
(* The response body is cut into buffers of chunk_size_bytes; "parts" is   *)
(* how many there are, the last one full or not.  Uploads are polled only  *)
(* while the task waits for one, never while it reads the body.            *)
(***************************************************************************)
EXTENDS UploadLimits, FiniteSets

CONSTANTS
  MaxParts,            \* bound: buffers of a body
  DownloadParallelism, \* transfer.download_parallelism
  UploadParallelism,   \* transfer.upload_parallelism
  MaxInFlightParts     \* transfer.max_in_flight_parts

ASSUME SequentialAssumption ==
  /\ MaxParts \in Nat
  /\ {DownloadParallelism, UploadParallelism, MaxInFlightParts} \subseteq Nat \ {0}

VARIABLES
  parts,     \* the body: its number of buffers,
  lastFull,  \* whether its last buffer is full,
  known,     \* whether Content-Length announces it,
  ranges,    \* whether the response accepts range requests
  pc,        \* where the task is suspended
  read,      \* buffers read so far
  inHand,    \* buffers read and not yet queued for upload
  uploads,   \* parts in the uploads FuturesUnordered
  sending,   \* those of them that hold a permit of upload_semaphore
  hashed,    \* the last part given to the hasher
  completed, \* completed_parts
  object     \* what is stored: "none", "open" (an upload), "single", "whole"

body == <<parts, lastFull, known, ranges>>
vars == <<body, pc, read, inHand, uploads, sending, hashed, completed, object>>

Init ==
  /\ parts \in 0..MaxParts
  /\ lastFull \in BOOLEAN /\ known \in BOOLEAN /\ ranges \in BOOLEAN
  /\ parts = 0 => ~lastFull
  /\ pc = "first"
  /\ read = 0 /\ inHand = {} /\ uploads = {} /\ sending = {}
  /\ hashed = 0 /\ completed = {}
  /\ object = "none"

ReadBufferAlways == read' = read + 1 /\ inHand' = inHand \cup {read + 1}

(* read_next_buffer; at the end of the body it returns None. *)
ReadBuffer ==
  IF read < parts
  THEN read' = read + 1 /\ inHand' = inHand \cup {read + 1}
  ELSE UNCHANGED <<read, inHand>>

FirstIsFull == parts > 1 \/ lastFull

(* The first buffer is known to be the whole body. *)
Fits == parts = 0 \/ (known /\ parts = 1) \/ ~FirstIsFull

(* The first buffer, and the choice it allows. *)
ReadFirst ==
  /\ pc = "first"
  /\ ReadBuffer
  /\ pc' = IF Fits THEN "putSingle"
           ELSE IF ranges /\ DownloadParallelism > 1 /\ known THEN "range"
           ELSE IF ~known THEN "second" ELSE "create"
  /\ UNCHANGED <<body, uploads, sending, hashed, completed, object>>

(* With no Content-Length a second buffer tells a body of exactly one. *)
ReadSecond ==
  /\ pc = "second"
  /\ ReadBuffer
  /\ pc' = IF read < parts THEN "create" ELSE "putSingle"
  /\ UNCHANGED <<body, uploads, sending, hashed, completed, object>>

PutSingle ==
  /\ pc = "putSingle"
  /\ object' = "single" /\ inHand' = {} /\ pc' = "stored"
  /\ UNCHANGED <<body, read, uploads, sending, hashed, completed>>

Create ==
  /\ pc = "create"
  /\ object' = "open" /\ pc' = "queue"
  /\ UNCHANGED <<body, read, inHand, uploads, sending, hashed, completed>>

-----------------------------------------------------------------------------
(* The function returns: its buffers and futures are dropped. *)
Drop == inHand' = {} /\ uploads' = {} /\ sending' = {}

RoomForOneMore == Cardinality(uploads) <= MaxInFlightParts

Room == Cardinality(uploads) < MaxInFlightParts

(* enqueue_sequential_part, for the buffers in hand, in order, and once    *)
(* wait_for_sequential_capacity has found room (the first part needs none: *)
(* the window is empty).                                                   *)
Queue ==
  /\ pc = "queue" /\ inHand # {} /\ Room
  /\ IF hashed + 1 > PartLimit
     THEN pc' = "abort" /\ Drop /\ UNCHANGED hashed
     ELSE /\ hashed' = hashed + 1
          /\ inHand' = inHand \ {hashed + 1}
          /\ uploads' = uploads \cup {hashed + 1}
          /\ UNCHANGED <<pc, sending>>
  /\ UNCHANGED <<body, read, completed, object>>

(* The next buffer of the body; after the last one the uploads drain. *)
ReadNext ==
  /\ pc = "queue" /\ inHand = {}
  /\ ReadBuffer
  /\ pc' = IF read < parts THEN "queue" ELSE "drain"
  /\ UNCHANGED <<body, uploads, sending, hashed, completed, object>>

PolledAtEnd == pc = "drain"

(* The task is in uploads.next(): waiting for room, or draining. *)
Polled == (pc = "queue" /\ inHand # {} /\ ~Room) \/ pc = "drain"

AcquirePermit(p) ==
  /\ Polled /\ p \in uploads \ sending
  /\ Cardinality(sending) < UploadParallelism
  /\ sending' = sending \cup {p}
  /\ UNCHANGED <<body, pc, read, inHand, uploads, hashed, completed, object>>

Uploaded(p) ==
  /\ Polled /\ p \in sending
  /\ uploads' = uploads \ {p}
  /\ sending' = sending \ {p}
  /\ completed' = completed \cup {p}
  /\ UNCHANGED <<body, pc, read, inHand, hashed, object>>

CompleteAtEnd ==
  /\ pc = "drain"
  /\ object' = "whole" /\ pc' = "stored"
  /\ UNCHANGED <<body, read, inHand, uploads, sending, hashed, completed>>

Complete ==
  /\ pc = "drain" /\ uploads = {}
  /\ object' = "whole" /\ pc' = "stored"
  /\ UNCHANGED <<body, read, inHand, uploads, sending, hashed, completed>>

-----------------------------------------------------------------------------
(* What the task waits for is a request or its body: it may fail, or come  *)
(* after its deadline.                                                     *)
Waiting ==
  \/ pc \in {"first", "second", "putSingle", "create"}
  \/ pc = "queue" /\ inHand = {}
  \/ Polled /\ sending # {}
  \/ pc = "drain" /\ uploads = {}

(* What is in flight is dropped.  Storage may have done what the request   *)
(* asked.  After the creation of the multipart upload it is aborted.       *)
Fails ==
  /\ Waiting
  /\ \/ UNCHANGED object
     \/ pc = "putSingle" /\ object' = "single"
     \/ pc = "create" /\ object' = "open"
     \/ pc = "drain" /\ uploads = {} /\ object' = "whole"
  /\ pc' = IF pc \in {"queue", "drain"} THEN "abort" ELSE "failed"
  /\ Drop
  /\ UNCHANGED <<body, read, hashed, completed>>

(* finish_or_abort_multipart; an abort that fails is only logged. *)
Abort ==
  /\ pc = "abort"
  /\ pc' = "failed"
  /\ object' \in IF object = "open" THEN {"none", "open"} ELSE {object}
  /\ UNCHANGED <<body, read, inHand, uploads, sending, hashed, completed>>

Next ==
  \/ ReadFirst \/ ReadSecond \/ PutSingle
  \/ Create \/ Queue \/ ReadNext
  \/ \E p \in 1..MaxParts : AcquirePermit(p) \/ Uploaded(p)
  \/ Complete \/ Fails \/ Abort

Spec == Init /\ [][Next]_vars

(* The task is polled while something it waits for is ready, and every     *)
(* request is answered or fails.                                           *)
FairSpec == Spec /\ WF_vars(Next)

-----------------------------------------------------------------------------
TypeOK ==
  /\ parts \in 0..MaxParts /\ {lastFull, known, ranges} \subseteq BOOLEAN
  /\ pc \in {"first", "second", "putSingle", "range", "create", "queue", "drain",
             "abort", "stored", "failed"}
  /\ read \in 0..parts
  /\ inHand \in SUBSET (1..parts)
  /\ uploads \in SUBSET (1..parts) /\ sending \in SUBSET uploads
  /\ hashed \in 0..parts
  /\ completed \in SUBSET (1..parts)
  /\ object \in {"none", "open", "single", "whole"}

(* No path truncates a body: one PutObject only for a body that its first  *)
(* buffer holds whole, whatever was announced; a multipart object only     *)
(* with every part of the body, each one hashed and none left behind when  *)
(* the body ends; the parallel path only for a body of known length that   *)
(* has more.                                                               *)
WholeObject ==
  /\ object = "single" => parts <= 1
  /\ object = "whole" => completed = 1..parts /\ hashed = parts
  /\ pc = "range" => known /\ parts >= 2

Held == Cardinality(uploads) + Cardinality(inHand)

(* The buffers a transfer holds are at most those in the window and one    *)
(* more, which was read before the window had room for it.                 *)
HeldBound == Held <= MaxInFlightParts + 1

=============================================================================
