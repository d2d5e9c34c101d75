----------------------------- MODULE RangeSpecs -----------------------------
(***************************************************************************)
(* build_range_specs of server/src/transfer/range.rs: the ranges that the  *)
(* parallel path requests after the first buffer, one loop iteration a     *)
(* step.  Offsets are unsigned integers of a fixed width (u64 in the code).*)
(***************************************************************************)
EXTENDS UploadLimits, Sequences

VARIABLES
  startOffset, contentLength, chunkSize, \* the arguments
  cursor, partNumber, specs,             \* the loop's variables
  result                                 \* "looping", then "ok" or "error"

args == <<startOffset, contentLength, chunkSize>>
vars == <<args, cursor, partNumber, specs, result>>

Uint == 0..MaxUint

Init ==
  /\ startOffset \in Uint /\ contentLength \in Uint /\ chunkSize \in Uint \ {0}
  /\ cursor = startOffset
  /\ partNumber = 2
  /\ specs = <<>>
  /\ result = "looping"

Least(a, b) == IF a < b THEN a ELSE b

SaturatingAdd(a, b) == Least(a + b, MaxUint)

NextCursorUnclamped == cursor + chunkSize

NextCursor == Least(SaturatingAdd(cursor, chunkSize), contentLength)

BelowPartLimit(n) == n \in 1..(PartLimit - 1)

(* ensure_valid_part_number *)
ValidPartNumber(n) == n \in 1..PartLimit

Iterate ==
  /\ result = "looping" /\ cursor < contentLength
  /\ ValidPartNumber(partNumber)
  /\ specs' = Append(specs, [partNumber |-> partNumber, start |-> cursor,
                             endInclusive |-> NextCursor - 1])
  /\ cursor' = NextCursor
  /\ partNumber' = partNumber + 1
  /\ UNCHANGED <<args, result>>

TooManyParts ==
  /\ result = "looping" /\ cursor < contentLength
  /\ ~ValidPartNumber(partNumber)
  /\ result' = "error"
  /\ UNCHANGED <<args, cursor, partNumber, specs>>

Return ==
  /\ result = "looping" /\ cursor >= contentLength
  /\ result' = "ok"
  /\ UNCHANGED <<args, cursor, partNumber, specs>>

Next == Iterate \/ TooManyParts \/ Return

Spec == Init /\ [][Next]_vars

-----------------------------------------------------------------------------
TypeOK ==
  /\ startOffset \in Uint /\ contentLength \in Uint /\ chunkSize \in Uint \ {0}
  /\ cursor \in Uint
  /\ partNumber \in Nat
  /\ specs \in Seq([partNumber : Nat, start : Uint, endInclusive : Uint])
  /\ result \in {"looping", "ok", "error"}

(* The ranges tile the rest of the source: they begin where the first      *)
(* buffer ended, each begins where the one before it ended, none is empty  *)
(* or longer than a chunk, only the last is shorter, and the last ends     *)
(* with the source - up to the largest offset, where the addition          *)
(* saturates.  Part numbers are consecutive from 2.                        *)
SpecsTile ==
  LET n == Len(specs) IN
  /\ \A i \in 1..n :
       /\ specs[i].partNumber = i + 1
       /\ specs[i].start = startOffset + (i - 1) * chunkSize
       /\ specs[i].start <= specs[i].endInclusive
       /\ i < n => specs[i].endInclusive + 1 = specs[i + 1].start
       /\ specs[i].endInclusive + 1 - specs[i].start <= chunkSize
  /\ result = "ok" /\ n > 0 => specs[n].endInclusive + 1 = contentLength
  /\ result = "ok" /\ n = 0 => startOffset >= contentLength

(* A source is refused exactly when it does not fit in the part numbers    *)
(* that storage accepts.                                                   *)
RefusedIffTooLong ==
  /\ result = "error" => startOffset + (PartLimit - 1) * chunkSize < contentLength
  /\ result = "ok" => contentLength <= startOffset + (PartLimit - 1) * chunkSize
                        \/ contentLength <= startOffset

=============================================================================
