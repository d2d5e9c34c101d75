---------------------------- MODULE UploadPaths ----------------------------
(***************************************************************************)
(* A transfer from its first buffer on: the choice of its path and the     *)
(* sequential path (SequentialUpload), and on the parallel path the ranges *)
(* of the rest of the body (RangeSpecs), whose parts RangeUpload uploads.  *)
(* The loop of build_range_specs starts where the path was chosen, behind  *)
(* the first buffer, which is a whole chunk.                               *)
(***************************************************************************)
EXTENDS SequentialUpload, Sequences

CONSTANT MaxChunk  \* bound: chunk_size_bytes

VARIABLES
  chunk,  \* chunk_size_bytes
  tail,   \* the length of the body's last buffer
  cursor, partNumber, specs, result  \* those of build_range_specs

rangeVars == <<cursor, partNumber, specs, result>>
allVars == <<vars, chunk, tail, rangeVars>>

\* The length of the body.
Length == IF parts = 0 THEN 0 ELSE (parts - 1) * chunk + tail

Build == INSTANCE RangeSpecs
           WITH startOffset <- chunk, contentLength <- Length, chunkSize <- chunk

InitPaths ==
  /\ Init
  /\ chunk \in 1..MaxChunk /\ tail \in 1..chunk
  /\ lastFull = (parts > 0 /\ tail = chunk)
  /\ Length <= MaxUint
  /\ cursor = chunk /\ partNumber = 2 /\ specs = <<>> /\ result = "looping"

\* Up to the stored object, or to the choice of the parallel path.
TakePath == Next /\ UNCHANGED <<chunk, tail, rangeVars>>

\* What build_range_specs does once that path is chosen.
BuildRanges ==
  /\ pc = "range"
  /\ UNCHANGED <<vars, chunk, tail>>
  /\ Build!Next

NextPaths == TakePath \/ BuildRanges

\* The task is polled while something it waits for is ready, and every request
\* is answered or fails.
SpecPaths == InitPaths /\ [][NextPaths]_allVars /\ WF_allVars(NextPaths)

-----------------------------------------------------------------------------
\* A body is refused exactly when it does not fit in the part numbers that
\* storage accepts (see RangeSpecs).
RefusedIffTooLong == Build!RefusedIffTooLong

\* The two paths cut one body alike: the parallel path requests one range per
\* buffer that the sequential path would have read after the first, each as
\* long as that buffer, so an object has the same parts whichever way it came.
PathsCutAlike ==
  pc = "range" /\ result = "ok" =>
    /\ Len(specs) = parts - 1
    /\ \A i \in 1..Len(specs) :
         specs[i].endInclusive + 1 - specs[i].start = IF i = Len(specs) THEN tail ELSE chunk

\* Every transfer ends, though its uploads wait while it reads, and so does
\* the loop that cuts the ranges.
Finishes == <>(pc \in {"stored", "failed"} \/ result # "looping")
=============================================================================
