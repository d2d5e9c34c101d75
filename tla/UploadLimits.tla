---------------------------- MODULE UploadLimits ----------------------------
(***************************************************************************)
(* What bounds the offsets and the part numbers of an upload.              *)
(***************************************************************************)
EXTENDS Naturals

CONSTANTS
  MaxUint,   \* the largest offset, 2^64 - 1
  PartLimit  \* 10000

ASSUME LimitsAssumption == MaxUint \in Nat /\ PartLimit \in Nat \ {0}
=============================================================================
