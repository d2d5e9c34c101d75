------------------------- MODULE RangeUploadProofs -------------------------
(***************************************************************************)
(* Proofs about RangeUpload, for every number of parts and every setting   *)
(* of the three limits.                                                    *)
(***************************************************************************)
EXTENDS RangeUpload, FiniteSetTheorems, TLAPS

(* Appending the parts m+1 .. m+k to the parts 1 .. m gives 1 .. m+k. *)
LEMMA RunAppended ==
  ASSUME NEW m \in Nat, NEW k \in Nat
  PROVE  [i \in 1..m |-> i] \o [i \in 1..k |-> m + i] = [i \in 1..(m + k) |-> i]
<1> DEFINE s == [i \in 1..m |-> i]
           t == [i \in 1..k |-> m + i]
<1>1. s \in Seq(Nat) /\ Len(s) = m
  OBVIOUS
<1>2. t \in Seq(Nat) /\ Len(t) = k
  OBVIOUS
<1>3. s \o t \in Seq(Nat) /\ Len(s \o t) = m + k
  BY <1>1, <1>2
<1>4. \A i \in 1..(m + k) : (s \o t)[i] = i
  <2>1. \A i \in 1..(m + k) : (s \o t)[i] = IF i <= Len(s) THEN s[i] ELSE t[i - Len(s)]
    BY <1>1, <1>2
  <2> QED
    BY <1>1, <1>2, <2>1
<1> QED
  BY <1>3, <1>4

IInv == TypeOK /\ HashedInOrder /\ PipelineInv /\ CompleteIsWhole

LEMMA InitIInv == Init => IInv
<1> SUFFICES ASSUME Init PROVE IInv
  OBVIOUS
<1>1. digest \in Seq(Parts)
  BY DEF Init
<1>2. launched \in Parts /\ nextHash \in 1..(NumParts + 1)
  BY RangeAssumption DEF Init, Parts
<1>3. TypeOK
  BY <1>1, <1>2 DEF Init, TypeOK
<1>4. HashedInOrder
  BY DEF Init, HashedInOrder
<1>5. PipelineInv /\ CompleteIsWhole
  BY DEF Init, PipelineInv, CompleteIsWhole
<1> QED
  BY <1>3, <1>4, <1>5 DEF IInv

(* What a run of hash_ready_range_parts does to the hasher: it takes the   *)
(* parts in order and stops at the first part, n, without its bytes.       *)
LEMMA HashReadyRun ==
  ASSUME TypeOK, HashedInOrder,
         NEW acts, NEW bytes, NEW done, HashReady(acts, bytes, done)
  PROVE  \E n \in nextHash..(NumParts + 1) :
           /\ nextHash..(n - 1) \subseteq bytes /\ n \notin bytes
           /\ nextHash' = n
           /\ HashedInOrder'
           /\ digest' \in Seq(Parts)
           /\ held' = bytes \ (nextHash..(n - 1))
           /\ active' = acts \ ((nextHash..(n - 1)) \cap done)
           /\ uploaded' = done \ (nextHash..(n - 1))
<1> USE RangeAssumption DEF TypeOK, Parts
<1>1. PICK n \in nextHash..(NumParts + 1) :
        /\ nextHash..(n - 1) \subseteq bytes /\ n \notin bytes
        /\ nextHash' = n
        /\ digest' = digest \o [i \in 1..(n - nextHash) |-> nextHash + i - 1]
        /\ held' = bytes \ (nextHash..(n - 1))
        /\ active' = acts \ ((nextHash..(n - 1)) \cap done)
        /\ uploaded' = done \ (nextHash..(n - 1))
  BY DEF HashReady, Leaving
<1> DEFINE m == nextHash - 1
           k == n - nextHash
<1>2. m \in Nat /\ k \in Nat /\ m + k = n - 1
  BY <1>1
<1>3. [i \in 1..k |-> nextHash + i - 1] = [i \in 1..k |-> m + i]
  BY <1>2
<1>4. digest' = [i \in 1..(m + k) |-> i]
  BY <1>1, <1>2, <1>3, RunAppended DEF HashedInOrder
<1>5. digest' = [i \in 1..(n - 1) |-> i]
  BY <1>2, <1>4
<1>6. digest' \in Seq(Parts)
  BY <1>1, <1>5
<1>7. HashedInOrder'
  BY <1>1, <1>5 DEF HashedInOrder
<1> QED
  BY <1>1, <1>6, <1>7

LEMMA DownloadedStep ==
  ASSUME IInv, NEW p \in Parts, Downloaded(p)
  PROVE  IInv'
<1>1. TypeOK /\ HashedInOrder /\ PipelineInv
  BY DEF IInv
<1>2. /\ pc = "select" /\ pc' = "head" /\ p \in downloads
      /\ downloads' = downloads \ {p} /\ uploads' = uploads \cup {p}
      /\ launched' = launched /\ sending' = sending /\ completed' = completed
      /\ upload' = upload /\ expired' = expired
      /\ HashReady(active \cup {p}, held \cup {p}, uploaded \ {p})
  BY DEF Downloaded
<1>3. PICK n \in nextHash..(NumParts + 1) :
        /\ nextHash..(n - 1) \subseteq held \cup {p} /\ n \notin held \cup {p}
        /\ nextHash' = n
        /\ HashedInOrder'
        /\ digest' \in Seq(Parts)
        /\ held' = (held \cup {p}) \ (nextHash..(n - 1))
        /\ active' = (active \cup {p}) \ ((nextHash..(n - 1)) \cap (uploaded \ {p}))
        /\ uploaded' = (uploaded \ {p}) \ (nextHash..(n - 1))
  BY <1>1, <1>2, HashReadyRun
<1>4. /\ nextHash \in Nat /\ n \in Nat /\ launched \in Nat /\ p \in Nat
      /\ active \cup downloads \subseteq Nat /\ nextHash <= n
  BY <1>1, <1>3, RangeAssumption DEF TypeOK, Parts
<1>5. TypeOK'
  BY <1>1, <1>2, <1>3, RangeAssumption DEF TypeOK, Parts
<1>6. /\ held = {q \in active : q >= nextHash} /\ uploads = active \ uploaded
      /\ uploaded \subseteq held
      /\ \A q \in downloads : nextHash <= q /\ q <= launched
      /\ \A q \in active : q <= launched
      /\ downloads \cap active = {}
      /\ \A q \in 1..launched : q \in downloads \cup active \/ q < nextHash
      /\ completed = (1..launched) \ (downloads \cup uploads)
      /\ nextHash <= launched + 1
      /\ upload = "open"
  BY <1>1, <1>2 DEF PipelineInv
<1>7. p \notin active /\ p \notin held /\ p \notin uploaded /\ nextHash <= p /\ p <= launched
  BY <1>2, <1>6
<1>8. held' = {q \in active' : q >= nextHash'}
  BY <1>3, <1>4, <1>6, <1>7
<1>9. uploads' = active' \ uploaded' /\ uploaded' \subseteq held'
  BY <1>2, <1>3, <1>4, <1>6, <1>7
<1>10. \A q \in downloads' : nextHash' <= q /\ q <= launched'
  <2> SUFFICES ASSUME NEW q \in downloads, q # p
               PROVE  n <= q /\ q <= launched
    BY <1>2, <1>3
  <2>1. q \notin held \cup {p} /\ nextHash <= q
    BY <1>6
  <2>2. q \notin nextHash..(n - 1)
    BY <2>1, <1>3
  <2> QED
    BY <2>1, <2>2, <1>4, <1>6
<1>11. (\A q \in active' : q <= launched') /\ downloads' \cap active' = {}
  BY <1>2, <1>3, <1>6, <1>7
<1>12. nextHash' \notin held' /\ nextHash' <= launched' + 1
  <2>1. CASE n = nextHash
    BY <2>1, <1>2, <1>3, <1>6
  <2>2. CASE n # nextHash
    <3>1. n - 1 \in nextHash..(n - 1)
      BY <2>2, <1>4
    <3>2. n - 1 <= launched
      BY <3>1, <1>3, <1>6, <1>7
    <3> QED
      BY <3>2, <1>2, <1>3, <1>4
  <2> QED
    BY <2>1, <2>2
<1>13. \A q \in 1..launched' : q \in downloads' \cup active' \/ q < nextHash'
  <2> SUFFICES ASSUME NEW q \in 1..launched, q \notin downloads', q \notin active'
               PROVE  q < n
    BY <1>2, <1>3
  <2>1. CASE q < nextHash
    BY <2>1, <1>4
  <2>2. CASE q \in active \cup {p}
    <3>1. q \in nextHash..(n - 1)
      BY <2>2, <1>3
    <3> QED
      BY <3>1, <1>4
  <2> QED
    BY <2>1, <2>2, <1>2, <1>6
<1>14. completed' = (1..launched') \ (downloads' \cup uploads')
  BY <1>2, <1>6
<1>15. PipelineInv'
  BY <1>2, <1>6, <1>8, <1>9, <1>10, <1>11, <1>12, <1>13, <1>14 DEF PipelineInv
<1>16. CompleteIsWhole'
  BY <1>2, <1>6 DEF CompleteIsWhole
<1> QED
  BY <1>3, <1>5, <1>15, <1>16 DEF IInv

LEMMA UploadedStep ==
  ASSUME IInv, NEW p \in Parts, Uploaded(p)
  PROVE  IInv'
<1>1. TypeOK /\ HashedInOrder /\ PipelineInv
  BY DEF IInv
<1>2. /\ pc = "select" /\ pc' = "head" /\ p \in sending
      /\ uploads' = uploads \ {p} /\ sending' = sending \ {p}
      /\ completed' = completed \cup {p}
      /\ launched' = launched /\ downloads' = downloads /\ held' = held
      /\ nextHash' = nextHash /\ digest' = digest
      /\ upload' = upload /\ expired' = expired
      /\ IF p \in held
         THEN uploaded' = uploaded \cup {p} /\ active' = active
         ELSE active' = active \ {p} /\ uploaded' = uploaded
  BY DEF Uploaded, MarkUploaded
<1>3. /\ held = {q \in active : q >= nextHash} /\ uploads = active \ uploaded
      /\ uploaded \subseteq held
      /\ \A q \in downloads : nextHash <= q /\ q <= launched
      /\ \A q \in active : q <= launched
      /\ downloads \cap active = {}
      /\ nextHash \notin held
      /\ \A q \in 1..launched : q \in downloads \cup active \/ q < nextHash
      /\ completed = (1..launched) \ (downloads \cup uploads)
      /\ nextHash <= launched + 1
      /\ upload = "open"
  BY <1>1, <1>2 DEF PipelineInv
<1>4. p \in active /\ p \notin uploaded /\ p \notin downloads
  BY <1>1, <1>2, <1>3 DEF TypeOK
<1>5. nextHash \in Nat /\ launched \in Nat /\ p \in 1..launched
  BY <1>1, <1>3, <1>4, RangeAssumption DEF TypeOK, Parts
<1>6. TypeOK'
  <2>1. active' \in SUBSET Parts /\ held' \in SUBSET active' /\ uploaded' \in SUBSET active'
    BY <1>1, <1>2, <1>4 DEF TypeOK
  <2>2. sending' \in SUBSET uploads' /\ uploads' \in SUBSET Parts /\ completed' \in SUBSET Parts
    BY <1>1, <1>2 DEF TypeOK
  <2> QED
    BY <2>1, <2>2, <1>1, <1>2 DEF TypeOK
<1>7. HashedInOrder'
  BY <1>1, <1>2 DEF HashedInOrder
<1>8. completed' = (1..launched') \ (downloads' \cup uploads')
  BY <1>2, <1>3, <1>4, <1>5
<1>9. PipelineInv'
  <2>1. CASE p \in held
    BY <2>1, <1>2, <1>3, <1>4, <1>8 DEF PipelineInv
  <2>2. CASE p \notin held
    <3>1. active' = active \ {p} /\ uploaded' = uploaded /\ p < nextHash
      BY <2>2, <1>2, <1>3, <1>4, <1>5
    <3>2. held' = {q \in active' : q >= nextHash'}
      BY <3>1, <2>2, <1>2, <1>3
    <3>3. \A q \in 1..launched' : q \in downloads' \cup active' \/ q < nextHash'
      BY <3>1, <1>2, <1>3
    <3> QED
      BY <3>1, <3>2, <3>3, <1>2, <1>3, <1>8 DEF PipelineInv
  <2> QED
    BY <2>1, <2>2
<1>10. CompleteIsWhole'
  BY <1>2, <1>3 DEF CompleteIsWhole
<1> QED
  BY <1>6, <1>7, <1>9, <1>10 DEF IInv

LEMMA EndHeadStep ==
  ASSUME IInv, EndHead
  PROVE  IInv'
<1>1. TypeOK /\ HashedInOrder /\ PipelineInv /\ pc = "head"
  BY DEF IInv, EndHead
<1>2. UNCHANGED <<pipeline, upload, expired>>
  BY DEF EndHead
<1>3. pc' \in {"select", "complete", "abort"}
  BY DEF EndHead
<1>4. TypeOK' /\ HashedInOrder'
  BY <1>1, <1>2, <1>3 DEF TypeOK, HashedInOrder, pipeline
<1>5. PipelineInv'
  BY <1>1, <1>2, <1>3 DEF PipelineInv, pipeline
<1>6. CompleteIsWhole'
  <2> SUFFICES ASSUME pc' = "complete"
               PROVE  completed = Parts /\ digest = [i \in Parts |-> i]
    BY <1>1, <1>2 DEF CompleteIsWhole, PipelineInv, pipeline
  <2>1. Drained /\ nextHash = NumParts + 1
    BY DEF EndHead
  <2>2. launched = NumParts
    BY <2>1, <1>1, RangeAssumption DEF Drained, Pending, TypeOK, Parts
  <2>3. completed = Parts
    BY <2>1, <2>2, <1>1 DEF PipelineInv, Drained, Parts
  <2>4. nextHash - 1 = NumParts
    BY <2>1, RangeAssumption
  <2> QED
    BY <2>3, <2>4, <1>1 DEF HashedInOrder, Parts
<1> QED
  BY <1>4, <1>5, <1>6 DEF IInv

LEMMA LaunchStep ==
  ASSUME IInv, Launch
  PROVE  IInv'
<1>1. TypeOK /\ HashedInOrder /\ PipelineInv
  BY DEF IInv
<1>2. /\ pc = "head" /\ Pending # {}
      /\ launched' = launched + 1 /\ downloads' = downloads \cup {launched + 1}
      /\ UNCHANGED <<pc, uploads, sending, active, held, uploaded, nextHash, digest,
                     completed, upload, expired>>
  BY DEF Launch, CanLaunch
<1>3. launched \in Nat /\ launched + 1 \in Parts /\ nextHash \in Nat
  BY <1>1, <1>2, RangeAssumption DEF Pending, TypeOK, Parts
<1>4. TypeOK'
  BY <1>1, <1>2, <1>3 DEF TypeOK
<1>5. /\ held = {q \in active : q >= nextHash} /\ uploads = active \ uploaded
      /\ uploaded \subseteq held
      /\ \A q \in downloads : nextHash <= q /\ q <= launched
      /\ \A q \in active : q <= launched
      /\ downloads \cap active = {}
      /\ nextHash \notin held
      /\ \A q \in 1..launched : q \in downloads \cup active \/ q < nextHash
      /\ completed = (1..launched) \ (downloads \cup uploads)
      /\ nextHash <= launched + 1
      /\ upload = "open"
  BY <1>1, <1>2 DEF PipelineInv
<1>6. active \cup downloads \subseteq Nat
  BY <1>1 DEF TypeOK, Parts
<1>7. \A q \in downloads' : nextHash <= q /\ q <= launched + 1
  BY <1>2, <1>3, <1>5, <1>6
<1>8. (\A q \in active : q <= launched + 1) /\ downloads' \cap active = {}
  BY <1>2, <1>3, <1>5, <1>6
<1>9. \A q \in 1..(launched + 1) : q \in downloads' \cup active \/ q < nextHash
  BY <1>2, <1>3, <1>5
<1>10. completed = (1..(launched + 1)) \ (downloads' \cup uploads)
  BY <1>2, <1>3, <1>5, <1>6
<1>11. nextHash <= (launched + 1) + 1
  BY <1>3, <1>5
<1>12. PipelineInv'
  BY <1>2, <1>5, <1>7, <1>8, <1>9, <1>10, <1>11 DEF PipelineInv
<1>13. HashedInOrder' /\ CompleteIsWhole'
  BY <1>1, <1>2, <1>5 DEF HashedInOrder, CompleteIsWhole
<1> QED
  BY <1>4, <1>12, <1>13 DEF IInv

LEMMA CreateStep ==
  ASSUME IInv, Create
  PROVE  IInv'
<1>1. TypeOK /\ HashedInOrder /\ pc = "create" /\ upload' = "open" /\ expired' = expired
  BY DEF IInv, Create
<1>2. 1 \in Parts /\ 2 \in 1..(NumParts + 1) /\ NumParts \in Nat
  BY RangeAssumption DEF Parts
<1>3. CASE NumParts > PartLimit
  <2>1. pc' = "abort" /\ UNCHANGED pipeline
    BY <1>3 DEF Create
  <2>2. TypeOK'
    BY <1>1, <2>1 DEF TypeOK, pipeline
  <2> QED
    BY <1>1, <2>1, <2>2 DEF IInv, HashedInOrder, PipelineInv, CompleteIsWhole, pipeline
<1>4. CASE ~(NumParts > PartLimit)
  <2>1. /\ pc' = "head" /\ active' = {1} /\ uploads' = {1}
        /\ nextHash' = 2 /\ digest' = <<1>>
        /\ launched' = launched /\ downloads' = downloads /\ sending' = sending
        /\ held' = held /\ uploaded' = uploaded /\ completed' = completed
    BY <1>4 DEF Create
  <2>2. /\ launched = 1 /\ downloads = {} /\ sending = {} /\ held = {}
        /\ uploaded = {} /\ completed = {}
    BY <1>1 DEF IInv, PipelineInv
  <2>3. TypeOK'
    BY <1>1, <1>2, <2>1, <2>2 DEF TypeOK
  <2>4. HashedInOrder'
    BY <2>1 DEF HashedInOrder
  <2>5. PipelineInv'
    BY <1>1, <2>1, <2>2 DEF PipelineInv
  <2>6. CompleteIsWhole'
    BY <1>1, <2>1 DEF CompleteIsWhole
  <2> QED
    BY <2>3, <2>4, <2>5, <2>6 DEF IInv
<1> QED
  BY <1>3, <1>4

LEMMA AcquirePermitStep ==
  ASSUME IInv, NEW p \in Parts, AcquirePermit(p)
  PROVE  IInv'
<1>1. TypeOK /\ HashedInOrder /\ PipelineInv /\ CompleteIsWhole
  BY DEF IInv
<1>2. /\ p \in uploads \ sending /\ sending' = sending \cup {p} /\ pc = "select"
      /\ UNCHANGED <<pc, launched, downloads, uploads, active, held, uploaded,
                     nextHash, digest, completed, upload, expired>>
  BY DEF AcquirePermit
<1>3. TypeOK'
  BY <1>1, <1>2 DEF TypeOK
<1>4. HashedInOrder' /\ CompleteIsWhole'
  BY <1>1, <1>2 DEF HashedInOrder, CompleteIsWhole
<1>5. PipelineInv'
  BY <1>1, <1>2 DEF PipelineInv
<1> QED
  BY <1>3, <1>4, <1>5 DEF IInv

LEMMA PartFailsStep ==
  ASSUME IInv, PartFails
  PROVE  IInv'
<1>1. TypeOK /\ HashedInOrder /\ PipelineInv
  BY DEF IInv
<1>2. /\ pc = "select" /\ pc' = "abort"
      /\ downloads' = {} /\ uploads' = {} /\ sending' = {}
      /\ UNCHANGED <<launched, active, held, uploaded, nextHash, digest, completed,
                     upload, expired>>
  BY DEF PartFails
<1>3. TypeOK' /\ HashedInOrder' /\ PipelineInv'
  BY <1>1, <1>2 DEF TypeOK, HashedInOrder, PipelineInv
<1>4. CompleteIsWhole'
  BY <1>1, <1>2 DEF PipelineInv, CompleteIsWhole
<1> QED
  BY <1>3, <1>4 DEF IInv

(* The steps that leave the pipeline's tables alone and end the transfer,  *)
(* or only let time pass.                                                  *)
LEMMA OutsideStep ==
  ASSUME IInv,
         CreateFails \/ DeadlinePasses \/ Complete \/ CompleteFails \/ Abort
  PROVE  IInv'
<1>1. TypeOK /\ HashedInOrder /\ PipelineInv /\ CompleteIsWhole
  BY DEF IInv
<1>2. UNCHANGED pipeline
  BY DEF CreateFails, DeadlinePasses, Complete, CompleteFails, Abort
<1>3. TypeOK'
  BY <1>1 DEF TypeOK, pipeline, CreateFails, DeadlinePasses, Complete, CompleteFails,
              Abort
<1>4. HashedInOrder'
  BY <1>1, <1>2 DEF HashedInOrder, pipeline
<1>5. PipelineInv'
  <2>1. CASE DeadlinePasses
    BY <2>1, <1>1 DEF PipelineInv, pipeline, DeadlinePasses
  <2>2. CASE CreateFails \/ Complete \/ CompleteFails \/ Abort
    <3>1. pc' \notin {"create", "head", "select"}
      BY <2>2 DEF CreateFails, Complete, CompleteFails, Abort
    <3> QED
      BY <3>1 DEF PipelineInv
  <2> QED
    BY <2>1, <2>2
<1>6. CompleteIsWhole'
  <2>1. pc' = "complete" => pc = "complete"
    BY DEF CreateFails, DeadlinePasses, Complete, CompleteFails, Abort
  <2>2. upload' = "complete" => pc = "complete" \/ upload = "complete"
    BY DEF CreateFails, DeadlinePasses, Complete, CompleteFails, Abort
  <2> QED
    BY <2>1, <2>2, <1>1, <1>2 DEF CompleteIsWhole, pipeline
<1> QED
  BY <1>3, <1>4, <1>5, <1>6 DEF IInv

LEMMA NextIInv == IInv /\ [Next]_vars => IInv'
<1> SUFFICES ASSUME IInv, [Next]_vars PROVE IInv'
  OBVIOUS
<1>1. CASE Create
  BY <1>1, CreateStep
<1>2. CASE Launch
  BY <1>2, LaunchStep
<1>3. CASE EndHead
  BY <1>3, EndHeadStep
<1>4. ASSUME NEW p \in Parts, Downloaded(p) PROVE IInv'
  BY <1>4, DownloadedStep
<1>5. ASSUME NEW p \in Parts, AcquirePermit(p) PROVE IInv'
  BY <1>5, AcquirePermitStep
<1>6. ASSUME NEW p \in Parts, Uploaded(p) PROVE IInv'
  BY <1>6, UploadedStep
<1>7. CASE PartFails
  BY <1>7, PartFailsStep
<1>8. CASE CreateFails \/ DeadlinePasses \/ Complete \/ CompleteFails \/ Abort
  BY <1>8, OutsideStep
<1>9. CASE UNCHANGED vars
  BY <1>9 DEF IInv, TypeOK, HashedInOrder, PipelineInv, CompleteIsWhole, vars, pipeline
<1> QED
  BY <1>1, <1>2, <1>3, <1>4, <1>5, <1>6, <1>7, <1>8, <1>9 DEF Next

(* The inductive invariant holds throughout every transfer. *)
THEOREM InvariantTheorem == Spec => []IInv
  BY InitIInv, NextIInv, PTL DEF Spec

(* Every state of every transfer is well typed. *)
THEOREM TypeTheorem == Spec => []TypeOK
<1>1. IInv => TypeOK
  BY DEF IInv
<1> QED
  BY <1>1, InvariantTheorem, PTL

(* The digest is that of the parts in order. *)
THEOREM HashTheorem == Spec => []HashedInOrder
<1>1. IInv => HashedInOrder
  BY DEF IInv
<1> QED
  BY <1>1, InvariantTheorem, PTL

(* Only whole objects are completed, and with the digest of all parts. *)
THEOREM WholeTheorem == Spec => []CompleteIsWhole
<1>1. IInv => CompleteIsWhole
  BY DEF IInv
<1> QED
  BY <1>1, InvariantTheorem, PTL

(* No part is dropped or uploaded twice. *)
THEOREM NoPartLostTheorem == Spec => []NoPartLost
<1>1. IInv => NoPartLost
  <2> SUFFICES ASSUME IInv, pc \in {"head", "select"}, NEW p \in Parts
               PROVE  /\ p <= launched /\ p \notin downloads \cup active
                           => p \in completed /\ p < nextHash
                      /\ p \in completed => p \notin downloads \cup uploads
    BY DEF NoPartLost
  <2>1. /\ uploads = active \ uploaded
        /\ completed = (1..launched) \ (downloads \cup uploads)
        /\ \A q \in 1..launched : q \in downloads \cup active \/ q < nextHash
    BY DEF IInv, PipelineInv
  <2>2. p <= launched => p \in 1..launched
    BY DEF IInv, TypeOK, Parts
  <2> QED
    BY <2>1, <2>2
<1> QED
  BY <1>1, InvariantTheorem, PTL

-----------------------------------------------------------------------------
(* The parts held in memory never outnumber the window. *)

LEMMA PartsAreFinite ==
  ASSUME NEW S \in SUBSET Parts
  PROVE  IsFiniteSet(S) /\ Cardinality(S) \in Nat
<1>1. IsFiniteSet(Parts)
  BY RangeAssumption, FS_Interval DEF Parts
<1>2. IsFiniteSet(S)
  BY <1>1, FS_Subset
<1> QED
  BY <1>2, FS_CardinalityType

LEMMA OnePartMore ==
  ASSUME NEW S, IsFiniteSet(S), NEW x
  PROVE  /\ IsFiniteSet(S \cup {x})
         /\ Cardinality(S \cup {x}) \in Nat
         /\ Cardinality(S \cup {x}) <= Cardinality(S) + 1
<1>1. Cardinality(S) \in Nat
  BY FS_CardinalityType
<1>2. /\ IsFiniteSet(S \cup {x})
      /\ Cardinality(S \cup {x}) = IF x \in S THEN Cardinality(S) ELSE Cardinality(S) + 1
  BY FS_AddElement
<1> QED
  BY <1>1, <1>2

(* A part that goes from the downloads to the table adds nothing, whatever *)
(* else leaves the table.                                                  *)
LEMMA MovedPartCount ==
  ASSUME NEW D \in SUBSET Parts, NEW A \in SUBSET Parts, NEW p \in D,
         NEW B \in SUBSET (A \cup {p})
  PROVE  Cardinality(D \ {p}) + Cardinality(B) <= Cardinality(D) + Cardinality(A)
<1>1. /\ IsFiniteSet(D) /\ Cardinality(D) \in Nat
      /\ IsFiniteSet(A) /\ Cardinality(A) \in Nat
  BY PartsAreFinite
<1>2. Cardinality(D \ {p}) = Cardinality(D) - 1
  BY <1>1, FS_RemoveElement
<1>3. /\ IsFiniteSet(A \cup {p})
      /\ Cardinality(A \cup {p}) \in Nat
      /\ Cardinality(A \cup {p}) <= Cardinality(A) + 1
  BY <1>1, OnePartMore
<1>4. Cardinality(B) <= Cardinality(A \cup {p}) /\ Cardinality(B) \in Nat
  BY <1>3, FS_Subset, FS_CardinalityType
<1> QED
  BY <1>1, <1>2, <1>3, <1>4

LEMMA FewerPartsCount ==
  ASSUME NEW D \in SUBSET Parts, NEW A \in SUBSET Parts,
         NEW C \in SUBSET D, NEW B \in SUBSET A
  PROVE  Cardinality(C) + Cardinality(B) <= Cardinality(D) + Cardinality(A)
<1>1. /\ Cardinality(D) \in Nat /\ Cardinality(A) \in Nat
      /\ Cardinality(C) \in Nat /\ Cardinality(B) \in Nat
  BY PartsAreFinite
<1>2. Cardinality(C) <= Cardinality(D) /\ Cardinality(B) <= Cardinality(A)
  BY PartsAreFinite, FS_Subset
<1> QED
  BY <1>1, <1>2

(* A step that takes no part up keeps the bound. *)
LEMMA NoMorePartsInBound ==
  ASSUME TypeOK, InFlightBound, downloads' \in SUBSET downloads, active' \in SUBSET active
  PROVE  InFlightBound'
<1>1. downloads \in SUBSET Parts /\ active \in SUBSET Parts
  BY DEF TypeOK
<1>2. PICK C \in SUBSET downloads : downloads' = C
  OBVIOUS
<1>3. PICK B \in SUBSET active : active' = B
  OBVIOUS
<1>4. Cardinality(C) + Cardinality(B) <= Cardinality(downloads) + Cardinality(active)
  BY <1>1, FewerPartsCount
<1>5. /\ Cardinality(C) + Cardinality(B) \in Nat
      /\ Cardinality(downloads) + Cardinality(active) \in Nat
  BY <1>1, PartsAreFinite
<1>6. Cardinality(downloads) + Cardinality(active) <= MaxInFlightParts
  BY DEF InFlightBound, ActivePartCount
<1>7. Cardinality(C) + Cardinality(B) <= MaxInFlightParts
  BY <1>4, <1>5, <1>6, RangeAssumption
<1> QED
  BY <1>2, <1>3, <1>7 DEF InFlightBound, ActivePartCount

LEMMA NextInFlightBound ==
  ASSUME TypeOK, PipelineInv, InFlightBound, [Next]_vars
  PROVE  InFlightBound'
<1>1. downloads \in SUBSET Parts /\ active \in SUBSET Parts
  BY DEF TypeOK
<1>2. /\ Cardinality(downloads) \in Nat /\ Cardinality(active) \in Nat
      /\ Cardinality(downloads) + Cardinality(active) <= MaxInFlightParts
      /\ IsFiniteSet(downloads)
  BY <1>1, PartsAreFinite DEF InFlightBound, ActivePartCount
<1>3. CASE Create
  <2>1. CASE NumParts > PartLimit
    BY <1>3, <2>1, NoMorePartsInBound DEF Create, pipeline
  <2>2. CASE ~(NumParts > PartLimit)
    <3>1. active' = {1} /\ downloads' = {}
      BY <1>3, <2>2 DEF Create, PipelineInv
    <3>2. Cardinality({}) + Cardinality({1}) = 1
      BY FS_EmptySet, FS_Singleton
    <3>3. Cardinality({}) + Cardinality({1}) <= MaxInFlightParts
      BY <3>2, RangeAssumption
    <3> QED
      BY <3>1, <3>3 DEF InFlightBound, ActivePartCount
  <2> QED
    BY <2>1, <2>2
<1>4. CASE Launch
  <2>1. downloads' = downloads \cup {launched + 1} /\ active' = active
    BY <1>4 DEF Launch
  <2>2. Cardinality(downloads) + Cardinality(active) < MaxInFlightParts
    BY <1>4 DEF Launch, CanLaunch, ActivePartCount
  <2>3. /\ Cardinality(downloads \cup {launched + 1}) \in Nat
        /\ Cardinality(downloads \cup {launched + 1}) <= Cardinality(downloads) + 1
    BY <1>2, OnePartMore
  <2>4. Cardinality(downloads \cup {launched + 1}) + Cardinality(active) <= MaxInFlightParts
    BY <1>2, <2>2, <2>3, RangeAssumption
  <2> QED
    BY <2>1, <2>4 DEF InFlightBound, ActivePartCount
<1>5. ASSUME NEW p \in Parts, Downloaded(p)
      PROVE  InFlightBound'
  <2>1. p \in downloads /\ downloads' = downloads \ {p}
    BY <1>5 DEF Downloaded
  <2>2. active' \in SUBSET (active \cup {p})
    BY <1>5 DEF Downloaded, HashReady, Leaving
  <2>3. PICK B \in SUBSET (active \cup {p}) : active' = B
    BY <2>2
  <2>4. Cardinality(downloads \ {p}) + Cardinality(B)
           <= Cardinality(downloads) + Cardinality(active)
    BY <1>1, <2>1, MovedPartCount
  <2>5. Cardinality(downloads \ {p}) \in Nat /\ Cardinality(B) \in Nat
    BY <1>1, <2>1, PartsAreFinite
  <2>6. Cardinality(downloads \ {p}) + Cardinality(B) <= MaxInFlightParts
    BY <1>2, <2>4, <2>5, RangeAssumption
  <2> QED
    BY <2>1, <2>3, <2>6 DEF InFlightBound, ActivePartCount
<1>6. ASSUME NEW p \in Parts, AcquirePermit(p) \/ Uploaded(p)
      PROVE  InFlightBound'
  BY <1>6, NoMorePartsInBound DEF AcquirePermit, Uploaded, MarkUploaded
<1>7. CASE CreateFails \/ EndHead \/ DeadlinePasses \/ Complete \/ CompleteFails \/ Abort
  BY <1>7, NoMorePartsInBound
  DEF CreateFails, EndHead, DeadlinePasses, Complete, CompleteFails, Abort, pipeline
<1>8. CASE PartFails
  BY <1>8, NoMorePartsInBound DEF PartFails
<1>9. CASE UNCHANGED vars
  BY <1>9, NoMorePartsInBound DEF vars, pipeline
<1> QED
  BY <1>3, <1>4, <1>5, <1>6, <1>7, <1>8, <1>9 DEF Next

(* The memory of a transfer is bounded by max_in_flight_parts. *)
THEOREM InFlightTheorem == Spec => []InFlightBound
<1>1. Init => InFlightBound
  BY FS_EmptySet, RangeAssumption DEF Init, InFlightBound, ActivePartCount
<1>2. TypeOK /\ PipelineInv /\ InFlightBound /\ [Next]_vars => InFlightBound'
  BY NextInFlightBound
<1>3. IInv => TypeOK /\ PipelineInv
  BY DEF IInv
<1> QED
  BY <1>1, <1>2, <1>3, InvariantTheorem, PTL DEF Spec

-----------------------------------------------------------------------------
(* The select never waits with every branch disabled. *)

(* Nothing downloading and nothing uploading leaves the table empty: its   *)
(* parts would all wait for their hash, and the next one to be hashed      *)
(* would be among them.                                                    *)
LEMMA IdleTableIsEmpty ==
  ASSUME TypeOK, PipelineInv, pc = "head", downloads = {}, uploads = {}
  PROVE  active = {}
<1>1. /\ held = {p \in active : p >= nextHash}
      /\ active \subseteq uploaded /\ uploaded \subseteq held
      /\ \A p \in active : p <= launched
      /\ nextHash \notin held
      /\ \A p \in 1..launched : p \in active \/ p < nextHash
      /\ nextHash <= launched + 1
  BY DEF PipelineInv
<1>2. nextHash \in Nat /\ nextHash >= 1 /\ launched \in Nat /\ active \subseteq Nat
  BY RangeAssumption DEF TypeOK, Parts
<1>3. SUFFICES ASSUME NEW p \in active PROVE FALSE
  OBVIOUS
<1>4. nextHash <= p /\ p <= launched
  BY <1>1
<1>5. nextHash \in 1..launched
  BY <1>2, <1>4
<1>6. nextHash \in active
  BY <1>1, <1>2, <1>5
<1> QED
  BY <1>1, <1>2, <1>6

LEMMA NextSelectHasBranch ==
  ASSUME TypeOK, PipelineInv, SelectHasBranch, [Next]_vars
  PROVE  SelectHasBranch'
<1>1. CASE EndHead
  <2> SUFFICES ASSUME pc' = "select", downloads = {}, uploads = {}
               PROVE  FALSE
    BY <1>1 DEF EndHead, SelectHasBranch, pipeline
  <2>1. pc = "head" /\ ~CanLaunch /\ ~Drained
    BY <1>1 DEF EndHead
  <2>2. active = {}
    BY <2>1, IdleTableIsEmpty
  <2>3. Cardinality(downloads) = 0 /\ Cardinality(active) = 0
    BY <2>2, FS_EmptySet
  <2>4. Pending = {}
    BY <2>1, <2>3, RangeAssumption DEF CanLaunch, ActivePartCount
  <2> QED
    BY <2>1, <2>2, <2>4 DEF Drained
<1>2. ASSUME NEW p \in Parts, Downloaded(p) \/ AcquirePermit(p) \/ Uploaded(p)
      PROVE  SelectHasBranch'
  BY <1>2 DEF Downloaded, AcquirePermit, Uploaded, SelectHasBranch
<1>3. CASE Create \/ CreateFails \/ Launch \/ PartFails \/ Complete \/ CompleteFails \/ Abort
  BY <1>3 DEF Create, CreateFails, Launch, PartFails, Complete, CompleteFails, Abort,
              SelectHasBranch
<1>4. CASE DeadlinePasses \/ UNCHANGED vars
  BY <1>4 DEF DeadlinePasses, SelectHasBranch, vars, pipeline
<1> QED
  BY <1>1, <1>2, <1>3, <1>4 DEF Next

(* No transfer panics at its select, whatever the three limits. *)
THEOREM SelectTheorem == Spec => []SelectHasBranch
<1>1. Init => SelectHasBranch
  BY DEF Init, SelectHasBranch
<1>2. TypeOK /\ PipelineInv /\ SelectHasBranch /\ [Next]_vars => SelectHasBranch'
  BY NextSelectHasBranch
<1>3. IInv => TypeOK /\ PipelineInv
  BY DEF IInv
<1> QED
  BY <1>1, <1>2, <1>3, InvariantTheorem, PTL DEF Spec

=============================================================================
