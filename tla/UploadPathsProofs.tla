-------------------------- MODULE UploadPathsProofs --------------------------
(***************************************************************************)
(* A transfer on either path, for bodies and limits of any size: what it   *)
(* stores is whole, what it holds is bounded, and the ranges of the        *)
(* parallel path are the buffers of the sequential one.                    *)
(***************************************************************************)
EXTENDS UploadPaths, FiniteSetTheorems, TLAPS

-----------------------------------------------------------------------------
(* The sequential path.                                                    *)

\* Where the buffers read so far are: a prefix is hashed, each part of it
\* uploading or completed, and the rest in hand.
Accounted ==
  /\ read - hashed <= 1 \/ (hashed = 0 /\ read = 2)
  /\ hashed <= read
  /\ pc \notin {"stored", "failed", "abort"} => inHand = (hashed + 1)..read
  /\ pc \in {"stored", "failed", "abort"} => inHand = {} /\ uploads = {}
  /\ pc \notin {"failed", "abort"} => uploads \cup completed = 1..hashed
  /\ uploads \cap completed = {}
  /\ Cardinality(uploads) <= MaxInFlightParts

\* What has been decided where the task is.
Decided ==
  /\ pc = "first" => read = 0
  /\ pc = "second" => read = 1
  /\ pc \in {"first", "second", "create", "putSingle"} => hashed = 0
  /\ pc = "putSingle" => parts <= 1
  /\ pc = "drain" => hashed = parts
  /\ pc \in {"first", "second", "create", "putSingle", "range"} => object = "none"
  /\ pc \in {"queue", "drain"} => object = "open"

SeqInv == TypeOK /\ Accounted /\ Decided /\ WholeObject

LEMMA SeqInit ==
  ASSUME Init
  PROVE  SeqInv
<1>1. TypeOK
  BY SequentialAssumption DEF Init, TypeOK
<1>2. Accounted
  BY SequentialAssumption, FS_EmptySet DEF Init, Accounted
<1>3. Decided /\ WholeObject
  BY DEF Init, Decided, WholeObject
<1>4. QED
  BY <1>1, <1>2, <1>3 DEF SeqInv

\* A buffer is read, or the body has ended; nothing else is touched.
LEMMA BufferRead ==
  ASSUME TypeOK, ReadBuffer, inHand = (hashed + 1)..read, hashed <= read
  PROVE  /\ read' \in 0..parts /\ read <= read' /\ read' <= read + 1
         /\ inHand' = (hashed + 1)..read'
         /\ inHand' \in SUBSET (1..parts)
         /\ read' = read <=> read = parts
<1>1. read \in Nat /\ parts \in Nat /\ hashed \in Nat /\ read <= parts
  BY SequentialAssumption DEF TypeOK
<1>2. CASE read < parts
  <2>1. read' = read + 1 /\ inHand' = inHand \cup {read + 1}
    BY <1>2 DEF ReadBuffer
  <2>2. inHand' = (hashed + 1)..(read + 1)
    BY <1>1, <2>1
  <2>3. QED
    BY <1>1, <1>2, <2>1, <2>2
<1>3. CASE ~(read < parts)
  <2>1. read' = read /\ inHand' = inHand
    BY <1>3 DEF ReadBuffer
  <2>2. QED
    BY <1>1, <1>3, <2>1
<1>4. QED
  BY <1>2, <1>3

\* The first two buffers are read before any is hashed.
LEMMA FirstCount ==
  ASSUME SeqInv, ReadFirst \/ ReadSecond, read <= 1
  PROVE  /\ read' - hashed' <= 1 \/ (hashed' = 0 /\ read' = 2)
         /\ hashed' <= read'
<1>1. /\ hashed' = hashed /\ hashed = 0 /\ inHand = (hashed + 1)..read /\ hashed <= read
      /\ ReadBuffer
  BY DEF ReadFirst, ReadSecond, SeqInv, Accounted, Decided
<1>2. read' \in 0..parts /\ read <= read' /\ read' <= read + 1
  BY <1>1, BufferRead DEF SeqInv
<1>3. parts \in Nat /\ read \in Nat
  BY SequentialAssumption DEF SeqInv, TypeOK
<1>4. PICK m : m = read'
  OBVIOUS
<1>5. m \in Nat /\ m <= 2
  BY <1>2, <1>3, <1>4
<1>6. PICK k : k = hashed'
  OBVIOUS
<1>7. k = 0
  BY <1>1, <1>6
<1>8. (m - k <= 1 \/ (k = 0 /\ m = 2)) /\ k <= m
  BY <1>5, <1>7
<1>9. QED
  BY <1>4, <1>6, <1>8, Zenon

\* The first buffers, and the path they lead to.
LEMMA FirstStep ==
  ASSUME SeqInv, ReadFirst \/ ReadSecond
  PROVE  SeqInv'
<1> USE DEF SeqInv
<1>0. /\ ReadBuffer /\ inHand = (hashed + 1)..read /\ hashed <= read
      /\ UNCHANGED <<body, uploads, sending, hashed, completed, object>>
      /\ hashed = 0 /\ object = "none" /\ pc \in {"first", "second"}
      /\ hashed' = hashed
  BY DEF ReadFirst, ReadSecond, Accounted, Decided
<1>1. /\ read' \in 0..parts /\ read <= read' /\ read' <= read + 1
      /\ inHand' = (hashed + 1)..read' /\ inHand' \in SUBSET (1..parts)
      /\ read' = read <=> read = parts
  BY <1>0, BufferRead
<1>2. parts \in Nat /\ read \in Nat /\ read <= 1 /\ read' \in Nat
  BY <1>1, SequentialAssumption DEF TypeOK, Decided, ReadFirst, ReadSecond
<1>3. CASE ReadFirst
  <2>1. /\ pc' = IF Fits THEN "putSingle"
                 ELSE IF ranges /\ DownloadParallelism > 1 /\ known THEN "range"
                 ELSE IF ~known THEN "second" ELSE "create"
        /\ read = 0
    BY <1>3 DEF ReadFirst, Decided
  <2>2. ~Fits => parts > 0 /\ read' = 1 /\ (known => parts >= 2)
    BY <1>1, <1>2, <2>1 DEF Fits
  <2>3. Fits => parts <= 1
    BY <1>2 DEF Fits, FirstIsFull
  <2>4. /\ pc' \in {"putSingle", "range", "second", "create"}
        /\ pc' = "putSingle" => parts <= 1
        /\ pc' = "second" => read' = 1
        /\ pc' = "range" => known /\ parts >= 2
    BY <2>1, <2>2, <2>3
  <2>5. TypeOK'
    BY <1>0, <1>1, <2>4 DEF TypeOK, body
  <2>6. /\ read' - hashed' <= 1 \/ (hashed' = 0 /\ read' = 2)
        /\ hashed' <= read'
    BY <1>3, <2>1, FirstCount
  <2>9. Accounted'
    BY <1>0, <1>1, <2>4, <2>6 DEF Accounted
  <2>7. Decided' /\ WholeObject'
    BY <1>0, <2>4 DEF Decided, WholeObject, body
  <2>8. QED
    BY <2>5, <2>9, <2>7
<1>4. CASE ReadSecond
  <2>1. /\ pc' = IF read < parts THEN "create" ELSE "putSingle"
        /\ read = 1
    BY <1>4 DEF ReadSecond, Decided
  <2>2. /\ pc' \in {"putSingle", "create"}
        /\ pc' = "putSingle" => parts <= 1
    BY <1>2, <2>1
  <2>3. TypeOK'
    BY <1>0, <1>1, <2>2 DEF TypeOK, body
  <2>7. /\ read' - hashed' <= 1 \/ (hashed' = 0 /\ read' = 2)
        /\ hashed' <= read'
    BY <1>4, <2>1, FirstCount
  <2>4. Accounted'
    BY <1>0, <1>1, <2>2, <2>7 DEF Accounted
  <2>5. Decided' /\ WholeObject'
    BY <1>0, <2>2 DEF Decided, WholeObject, body
  <2>6. QED
    BY <2>3, <2>4, <2>5
<1>5. QED
  BY <1>3, <1>4

\* One PutObject, or the creation of a multipart upload.
LEMMA BeginStep ==
  ASSUME SeqInv, PutSingle \/ Create
  PROVE  SeqInv'
<1> USE DEF SeqInv
<1>1. CASE PutSingle
  <2>1. uploads = {} /\ completed = {}
    <3>1. uploads \cup completed = 1..0
      BY <1>1 DEF PutSingle, Accounted, Decided
    <3>2. QED
      BY <3>1
  <2>2. TypeOK'
    BY <1>1 DEF PutSingle, TypeOK, body
  <2>3. Accounted'
    BY <1>1, <2>1 DEF PutSingle, Accounted
  <2>4. Decided' /\ WholeObject'
    BY <1>1 DEF PutSingle, Decided, WholeObject, body
  <2>5. QED
    BY <2>2, <2>3, <2>4
<1>2. CASE Create
  <2>1. TypeOK'
    BY <1>2 DEF Create, TypeOK, body
  <2>2. Accounted'
    BY <1>2 DEF Create, Accounted
  <2>3. Decided' /\ WholeObject'
    BY <1>2 DEF Create, Decided, WholeObject, body
  <2>4. QED
    BY <2>1, <2>2, <2>3
<1>3. QED
  BY <1>1, <1>2

LEMMA UploadsFinite ==
  ASSUME TypeOK
  PROVE  /\ IsFiniteSet(uploads) /\ Cardinality(uploads) \in Nat
         /\ MaxInFlightParts \in Nat \ {0}
<1>1. IsFiniteSet(1..parts)
  BY FS_Interval, SequentialAssumption DEF TypeOK
<1>2. uploads \subseteq 1..parts
  BY DEF TypeOK
<1>3. IsFiniteSet(uploads)
  BY <1>1, <1>2, FS_Subset
<1>4. QED
  BY <1>3, FS_CardinalityType, SequentialAssumption

\* A part enters the window when it has room.
LEMMA QueueStep ==
  ASSUME SeqInv, Queue
  PROVE  SeqInv'
<1> USE DEF SeqInv
<1>1. /\ pc = "queue" /\ inHand = (hashed + 1)..read /\ inHand # {}
      /\ uploads \cup completed = 1..hashed /\ object = "open"
      /\ UNCHANGED <<body, read, completed, object>>
  BY DEF Queue, Accounted, Decided
<1>2. /\ hashed \in Nat /\ read \in Nat /\ parts \in Nat /\ read <= parts
      /\ PartLimit \in Nat
  BY SequentialAssumption, LimitsAssumption DEF TypeOK
<1>3. hashed + 1 \in inHand /\ hashed + 1 <= read
  BY <1>1, <1>2
<1>4. CASE hashed + 1 > PartLimit
  <2>1. /\ pc' = "abort" /\ inHand' = {} /\ uploads' = {} /\ sending' = {} /\ hashed' = hashed
    BY <1>4 DEF Queue, Drop
  <2>2. TypeOK'
    BY <1>1, <2>1 DEF TypeOK, body
  <2>3. Cardinality({}) <= MaxInFlightParts
    BY FS_EmptySet, SequentialAssumption
  <2>4. Accounted'
    BY <1>1, <2>1, <2>3 DEF Accounted
  <2>5. Decided' /\ WholeObject'
    BY <1>1, <2>1 DEF Decided, WholeObject, body
  <2>6. QED
    BY <2>2, <2>4, <2>5
<1>5. CASE ~(hashed + 1 > PartLimit)
  <2>1. /\ hashed' = hashed + 1 /\ inHand' = inHand \ {hashed + 1}
        /\ uploads' = uploads \cup {hashed + 1} /\ pc' = pc /\ sending' = sending
    BY <1>5 DEF Queue
  <2>2. /\ inHand' = (hashed' + 1)..read
        /\ uploads' \cup completed = 1..hashed'
        /\ uploads' \cap completed = {}
    <3>1. hashed + 1 \notin uploads \cup completed
      BY <1>1, <1>2
    <3>2. uploads' \cup completed = (1..hashed) \cup {hashed + 1}
      BY <1>1, <2>1
    <3>3. (1..hashed) \cup {hashed + 1} = 1..(hashed + 1)
      BY <1>2
    <3>4. uploads' \cap completed = {}
      BY <2>1, <3>1 DEF Accounted
    <3>5. inHand' = (hashed + 2)..read
      BY <1>1, <1>2, <2>1
    <3>6. QED
      BY <1>2, <2>1, <3>2, <3>3, <3>4, <3>5
  <2>3. Cardinality(uploads') <= MaxInFlightParts
    <3>1. Cardinality(uploads) < MaxInFlightParts
      BY DEF Queue, Room
    <3>2. Cardinality(uploads') <= Cardinality(uploads) + 1
      BY <2>1, UploadsFinite, FS_AddElement
    <3>3. Cardinality(uploads') \in Nat
      BY <2>1, UploadsFinite, FS_AddElement, FS_CardinalityType
    <3>4. QED
      BY <3>1, <3>2, <3>3, UploadsFinite
  <2>4. TypeOK'
    BY <1>1, <1>2, <1>3, <2>1 DEF TypeOK, body
  <2>5. read - hashed' <= 1 /\ hashed' <= read
    BY <1>2, <1>3, <2>1 DEF Accounted
  <2>6. Accounted'
    BY <1>1, <2>1, <2>2, <2>3, <2>5 DEF Accounted
  <2>7. Decided' /\ WholeObject'
    BY <1>1, <2>1 DEF Decided, WholeObject, body
  <2>8. QED
    BY <2>4, <2>6, <2>7
<1>6. QED
  BY <1>4, <1>5

\* The next buffer, once nothing is in hand.
LEMMA ReadNextStep ==
  ASSUME SeqInv, ReadNext
  PROVE  SeqInv'
<1> USE DEF SeqInv
<1>1. /\ pc = "queue" /\ inHand = (hashed + 1)..read /\ inHand = {} /\ ReadBuffer
      /\ hashed <= read /\ object = "open"
      /\ UNCHANGED <<body, uploads, sending, hashed, completed, object>>
      /\ pc' = IF read < parts THEN "queue" ELSE "drain"
  BY DEF ReadNext, Accounted, Decided
<1>2. hashed \in Nat /\ read \in Nat /\ parts \in Nat /\ read <= parts
  BY SequentialAssumption DEF TypeOK
<1>3. hashed = read
  <2>1. hashed + 1 \notin (hashed + 1)..read
    BY <1>1
  <2>2. QED
    BY <1>1, <1>2, <2>1
<1>4. /\ read' \in 0..parts /\ read <= read' /\ read' <= read + 1
      /\ inHand' = (hashed + 1)..read' /\ inHand' \in SUBSET (1..parts)
      /\ read' = read <=> read = parts
  BY <1>1, BufferRead
<1>5. TypeOK'
  BY <1>1, <1>4 DEF TypeOK, body
<1>9. read' - hashed' <= 1 /\ hashed' <= read'
  <2>1. PICK m : m = read'
    OBVIOUS
  <2>2. m \in 0..parts /\ read <= m /\ m <= read + 1
    BY <1>4, <2>1, Zenon
  <2>3. hashed <= m /\ m - hashed <= 1
    BY <1>2, <1>3, <2>2
  <2>4. hashed' = hashed
    BY <1>1
  <2>5. QED
    BY <2>1, <2>3, <2>4, Zenon
<1>6. Accounted'
  BY <1>1, <1>4, <1>9 DEF Accounted
<1>7. Decided' /\ WholeObject'
  BY <1>1, <1>2, <1>3 DEF Decided, WholeObject, body
<1>8. QED
  BY <1>5, <1>6, <1>7

\* An upload starts, or ends.
LEMMA UploadStep ==
  ASSUME SeqInv, NEW p \in 1..MaxParts, AcquirePermit(p) \/ Uploaded(p)
  PROVE  SeqInv'
<1> USE DEF SeqInv
<1>1. CASE AcquirePermit(p)
  <2>1. TypeOK'
    BY <1>1 DEF AcquirePermit, TypeOK, body
  <2>2. Accounted' /\ Decided' /\ WholeObject'
    BY <1>1 DEF AcquirePermit, Accounted, Decided, WholeObject, body
  <2>3. QED
    BY <2>1, <2>2
<1>2. CASE Uploaded(p)
  <2>1. /\ p \in uploads /\ uploads' = uploads \ {p} /\ completed' = completed \cup {p}
        /\ sending' = sending \ {p}
        /\ UNCHANGED <<body, pc, read, inHand, hashed, object>>
        /\ pc \in {"queue", "drain"}
    BY <1>2 DEF Uploaded, Polled, TypeOK
  <2>2. TypeOK'
    BY <2>1 DEF TypeOK, body
  <2>3. Cardinality(uploads') <= MaxInFlightParts
    <3>1. Cardinality(uploads') = Cardinality(uploads) - 1
      BY <2>1, UploadsFinite, FS_RemoveElement
    <3>2. QED
      BY <3>1, UploadsFinite DEF Accounted
  <2>4. Accounted'
    BY <2>1, <2>3 DEF Accounted
  <2>5. Decided' /\ WholeObject'
    BY <2>1 DEF Decided, WholeObject, body
  <2>6. QED
    BY <2>2, <2>4, <2>5
<1>3. QED
  BY <1>1, <1>2

\* The end: completed when everything has drained, or dropped.
LEMMA EndStep ==
  ASSUME SeqInv, Complete \/ Fails \/ Abort
  PROVE  SeqInv'
<1> USE DEF SeqInv
<1>0. Cardinality({}) <= MaxInFlightParts
  BY FS_EmptySet, SequentialAssumption
<1>1. CASE Complete
  <2>1. /\ pc = "drain" /\ uploads = {} /\ hashed = parts /\ completed = 1..parts
        /\ inHand = (hashed + 1)..read
        /\ object' = "whole" /\ pc' = "stored"
        /\ UNCHANGED <<body, read, inHand, uploads, sending, hashed, completed>>
    BY <1>1 DEF Complete, Accounted, Decided
  <2>2. inHand = {}
    <3>1. parts \in Nat /\ read \in Nat /\ read <= parts
      BY SequentialAssumption DEF TypeOK
    <3>2. QED
      BY <2>1, <3>1
  <2>3. TypeOK'
    BY <2>1 DEF TypeOK, body
  <2>4. Accounted'
    BY <2>1, <2>2 DEF Accounted
  <2>5. Decided' /\ WholeObject'
    BY <2>1 DEF Decided, WholeObject, body
  <2>6. QED
    BY <2>3, <2>4, <2>5
<1>2. CASE Fails
  <2>1. /\ inHand' = {} /\ uploads' = {} /\ sending' = {}
        /\ UNCHANGED <<body, read, hashed, completed>>
        /\ pc' \in {"abort", "failed"}
        /\ pc # "range"
        /\ \/ object' = object
           \/ pc = "putSingle" /\ object' = "single"
           \/ pc = "create" /\ object' = "open"
           \/ pc = "drain" /\ uploads = {} /\ object' = "whole"
    BY <1>2 DEF Fails, Drop, Waiting, Polled
  <2>2. TypeOK'
    BY <2>1 DEF TypeOK, body
  <2>3. Accounted'
    BY <1>0, <2>1 DEF Accounted
  <2>4. Decided'
    BY <2>1 DEF Decided
  <2>5. WholeObject'
    BY <2>1 DEF WholeObject, Accounted, Decided, body
  <2>6. QED
    BY <2>2, <2>3, <2>4, <2>5
<1>3. CASE Abort
  <2>1. /\ pc = "abort" /\ pc' = "failed" /\ object' \in {object, "none"}
        /\ UNCHANGED <<body, read, inHand, uploads, sending, hashed, completed>>
    BY <1>3 DEF Abort
  <2>2. TypeOK'
    BY <2>1 DEF TypeOK, body
  <2>3. Accounted' /\ Decided' /\ WholeObject'
    BY <2>1 DEF Accounted, Decided, WholeObject, body
  <2>4. QED
    BY <2>2, <2>3
<1>4. QED
  BY <1>1, <1>2, <1>3

LEMMA SeqStep ==
  ASSUME SeqInv, [Next]_vars
  PROVE  SeqInv'
<1>1. CASE UNCHANGED vars
  BY <1>1 DEF vars, body, SeqInv, TypeOK, Accounted, Decided, WholeObject
<1>2. QED
  BY <1>1, FirstStep, BeginStep, QueueStep, ReadNextStep, UploadStep, EndStep DEF Next

\* The buffers held follow from where they are.
LEMMA HeldEnough ==
  ASSUME SeqInv
  PROVE  HeldBound
<1> USE DEF SeqInv
<1>1. /\ Cardinality(uploads) \in Nat /\ MaxInFlightParts \in Nat \ {0}
      /\ Cardinality(uploads) <= MaxInFlightParts
  BY UploadsFinite DEF Accounted
<1>2. hashed \in Nat /\ read \in Nat /\ hashed <= read
  BY SequentialAssumption DEF TypeOK, Accounted
<1>3. CASE pc \in {"stored", "failed", "abort"}
  <2>1. inHand = {} /\ uploads = {}
    BY <1>3 DEF Accounted
  <2>2. QED
    BY <1>1, <2>1, FS_EmptySet DEF HeldBound, Held
<1>4. CASE pc \notin {"stored", "failed", "abort"}
  <2>1. Cardinality(inHand) = read - hashed
    <3>1. inHand = (hashed + 1)..read
      BY <1>4 DEF Accounted
    <3>2. Cardinality((hashed + 1)..read) = IF hashed + 1 > read THEN 0 ELSE read - (hashed + 1) + 1
      BY <1>2, FS_Interval
    <3>3. QED
      BY <1>2, <3>1, <3>2
  <2>2. CASE read - hashed <= 1
    BY <1>1, <1>2, <2>1, <2>2 DEF HeldBound, Held
  <2>3. CASE hashed = 0 /\ read = 2
    <3>1. uploads = {}
      BY <1>4, <2>3 DEF Accounted
    <3>2. QED
      BY <1>1, <2>1, <2>3, <3>1, FS_EmptySet DEF HeldBound, Held
  <2>4. QED
    BY <2>2, <2>3 DEF Accounted
<1>5. QED
  BY <1>3, <1>4

\* A step of the composition is one of the sequential path or leaves it alone.
LEMMA PathsStepSeq ==
  ASSUME SeqInv, [NextPaths]_allVars
  PROVE  SeqInv'
<1>1. [NextPaths]_allVars => [Next]_vars
  BY DEF NextPaths, TakePath, BuildRanges, allVars
<1>2. QED
  BY <1>1, SeqStep

\* No path stores less than the body, and the buffers in memory are at most the
\* window and one more.
THEOREM SequentialTheorem == SpecPaths => [](TypeOK /\ WholeObject /\ HeldBound)
<1>1. InitPaths => SeqInv
  BY SeqInit DEF InitPaths
<1>2. SeqInv /\ [NextPaths]_allVars => SeqInv'
  BY PathsStepSeq
<1>3. SeqInv => TypeOK /\ WholeObject /\ HeldBound
  BY HeldEnough DEF SeqInv
<1>4. QED
  BY <1>1, <1>2, <1>3, PTL DEF SpecPaths

\* A sequential transfer never holds more than the window and the one buffer
\* it reads ahead, for any length and any window.
THEOREM HeldTheorem == SpecPaths => []HeldBound
<1>1. TypeOK /\ WholeObject /\ HeldBound => HeldBound
  OBVIOUS
<1>2. QED
  BY <1>1, SequentialTheorem, PTL

-----------------------------------------------------------------------------
(* The ranges of the parallel path.                                        *)

\* Where the n-th range from the start ends, if the body does not end before.
Edge(n) == chunk + n * chunk

LEMMA EdgeStep ==
  ASSUME chunk \in Nat \ {0}, NEW n \in Nat
  PROVE  /\ Edge(n) \in Nat /\ Edge(n + 1) \in Nat
         /\ chunk <= Edge(n) /\ Edge(0) = chunk
         /\ Edge(n + 1) = Edge(n) + chunk
<1>1. n * chunk \in Nat /\ (n + 1) * chunk = n * chunk + chunk /\ 0 * chunk = 0
  BY SMT
<1>2. QED
  BY <1>1 DEF Edge

LEMMA EdgeOrder ==
  ASSUME chunk \in Nat \ {0}, NEW m \in Nat, NEW n \in Nat
  PROVE  m <= n <=> Edge(m) <= Edge(n)
<1>1. n * chunk \in Nat /\ m * chunk \in Nat
  BY SMT
<1>2. m <= n => m * chunk <= n * chunk
  BY SMT
<1>3. n < m => n * chunk < m * chunk
  BY SMT
<1>4. QED
  BY <1>1, <1>2, <1>3 DEF Edge

\* The body in bytes.
Sizes ==
  /\ parts \in Nat
  /\ chunk \in Nat \ {0} /\ tail \in 1..chunk
  /\ Length <= MaxUint

LEMMA LengthEdges ==
  ASSUME Sizes
  PROVE  /\ Length \in Nat
         /\ \A n \in Nat : /\ Length <= Edge(n) <=> parts <= n + 1
                           /\ parts = n + 2 => Length = Edge(n) + tail
<1>1. Length \in Nat
  BY DEF Sizes, Length
<1>2. ASSUME NEW n \in Nat
      PROVE  /\ Length <= Edge(n) <=> parts <= n + 1
             /\ parts = n + 2 => Length = Edge(n) + tail
  <2>0. Edge(n) \in Nat /\ chunk <= Edge(n) /\ chunk \in Nat \ {0} /\ tail \in 1..chunk
    BY EdgeStep DEF Sizes
  <2>1. CASE parts = 0
    <3>1. Length = 0
      BY <2>1 DEF Length
    <3>2. QED
      BY <2>0, <2>1, <3>1
  <2>2. CASE parts = 1
    <3>1. Length = tail
      BY <2>2 DEF Length, Sizes
    <3>2. QED
      BY <2>0, <2>2, <3>1
  <2>3. CASE parts >= 2
    <3>1. PICK k \in Nat : parts = k + 2
      BY <2>3 DEF Sizes
    <3>2. Length = Edge(k) + tail
      BY <3>1 DEF Length, Edge, Sizes
    <3>6. Edge(k) \in Nat /\ Edge(k + 1) \in Nat /\ Edge(k + 1) = Edge(k) + chunk
      BY <2>0, EdgeStep
    <3>3. Edge(k) < Length /\ Length <= Edge(k + 1)
      BY <2>0, <3>2, <3>6
    <3>4. k + 1 <= n => Edge(k + 1) <= Edge(n)
      BY <2>0, EdgeOrder
    <3>5. n <= k => Edge(n) <= Edge(k)
      BY <2>0, EdgeOrder
    <3>7. Length <= Edge(n) <=> k + 1 <= n
      BY <1>1, <2>0, <3>3, <3>4, <3>5, <3>6
    <3>8. parts = n + 2 => k = n
      BY <3>1
    <3>9. QED
      BY <3>1, <3>2, <3>7, <3>8
  <2>4. QED
    BY <2>1, <2>2, <2>3 DEF Sizes
<1>3. QED
  BY <1>1, <1>2

\* The shorter of a full chunk and what is left.
Stop(n) == IF Edge(n) <= Length THEN Edge(n) ELSE Length

\* Each range lies between two edges, and the loop stands at the last one.
Ranged ==
  LET n == Len(specs) IN
  /\ specs \in Seq([partNumber : Nat, start : Nat, endInclusive : Int])
  /\ n <= PartLimit - 1
  /\ partNumber = n + 2
  /\ cursor = IF n = 0 THEN chunk ELSE Stop(n)
  /\ n > 0 => Edge(n - 1) < Length
  /\ \A i \in 1..n : specs[i] = [partNumber |-> i + 1, start |-> Edge(i - 1),
                                 endInclusive |-> Stop(i) - 1]

RangesInv ==
  /\ Ranged
  /\ result \in {"looping", "ok", "error"}
  /\ result = "error" => Len(specs) = PartLimit - 1 /\ cursor < Length
  /\ result = "ok" => cursor >= Length

LEMMA RangesInit ==
  ASSUME InitPaths
  PROVE  Sizes /\ RangesInv
<1>1. parts \in Nat /\ chunk \in Nat \ {0} /\ tail \in 1..chunk /\ Length <= MaxUint
  BY SequentialAssumption DEF InitPaths, Init
<1>2. /\ cursor = chunk /\ partNumber = 2 /\ specs = <<>> /\ result = "looping"
  BY DEF InitPaths
<1>3. Len(specs) = 0
  BY <1>2
<1>4. QED
  BY <1>1, <1>2, <1>3, LimitsAssumption DEF Sizes, RangesInv, Ranged

\* One more range, from the last edge to the next or to the end of the body.
LEMMA IterateStep ==
  ASSUME Sizes, RangesInv, Build!Iterate, UNCHANGED <<parts, chunk, tail>>
  PROVE  RangesInv'
<1> DEFINE n == Len(specs)
           new == [partNumber |-> n + 2, start |-> Edge(n), endInclusive |-> Stop(n + 1) - 1]
<1>1. /\ specs \in Seq([partNumber : Nat, start : Nat, endInclusive : Int])
      /\ n \in Nat /\ n <= PartLimit - 1 /\ partNumber = n + 2
      /\ cursor = IF n = 0 THEN chunk ELSE Stop(n)
      /\ \A i \in 1..n : specs[i] = [partNumber |-> i + 1, start |-> Edge(i - 1),
                                     endInclusive |-> Stop(i) - 1]
  BY DEF RangesInv, Ranged
<1>2. /\ result = "looping" /\ cursor < Length /\ partNumber \in 1..PartLimit
      /\ specs' = Append(specs, [partNumber |-> partNumber, start |-> cursor,
                                 endInclusive |-> Build!NextCursor - 1])
      /\ cursor' = Build!NextCursor /\ partNumber' = partNumber + 1
      /\ result' = result
  BY DEF Build!Iterate, Build!ValidPartNumber
<1>3. chunk \in Nat \ {0} /\ Length \in Nat /\ MaxUint \in Nat /\ Length <= MaxUint
  BY LengthEdges, LimitsAssumption DEF Sizes
<1>4. /\ Edge(n) \in Nat /\ Edge(n + 1) \in Nat /\ Edge(n + 1) = Edge(n) + chunk
      /\ Edge(0) = chunk
  BY <1>1, <1>3, EdgeStep
<1>5. cursor = Edge(n) /\ Edge(n) < Length
  BY <1>1, <1>2, <1>3, <1>4 DEF Stop
<1>6. Build!NextCursor = Stop(n + 1)
  BY <1>3, <1>4, <1>5 DEF Build!NextCursor, Build!SaturatingAdd, Build!Least, Stop
<1>7. Stop(n + 1) \in Nat
  BY <1>3, <1>4 DEF Stop
<1>8. specs' = Append(specs, new)
  BY <1>1, <1>2, <1>5, <1>6
<1>9. new \in [partNumber : Nat, start : Nat, endInclusive : Int]
  BY <1>1, <1>4, <1>7
<1>10. /\ specs' \in Seq([partNumber : Nat, start : Nat, endInclusive : Int])
       /\ Len(specs') = n + 1
       /\ \A i \in 1..(n + 1) : specs'[i] = IF i = n + 1 THEN new ELSE specs[i]
  BY <1>1, <1>8, <1>9
<1> HIDE DEF n, new
<1>11. /\ \A k : Edge(k)' = Edge(k) /\ Stop(k)' = Stop(k)
       /\ Length' = Length
  BY DEF Edge, Stop, Length
<1>12. \A i \in 1..(n + 1) : specs'[i] = [partNumber |-> i + 1, start |-> Edge(i - 1),
                                          endInclusive |-> Stop(i) - 1]
  <2>1. SUFFICES ASSUME NEW i \in 1..(n + 1)
                 PROVE  specs'[i] = [partNumber |-> i + 1, start |-> Edge(i - 1),
                                     endInclusive |-> Stop(i) - 1]
    OBVIOUS
  <2>2. CASE i = n + 1
    BY <1>1, <1>10, <2>2 DEF new
  <2>3. CASE i # n + 1
    <3>1. i \in 1..n
      BY <1>1, <2>3
    <3>2. specs'[i] = specs[i]
      BY <1>10, <2>3
    <3>3. QED
      BY <1>1, <3>1, <3>2
  <2>4. QED
    BY <2>2, <2>3
<1>13. /\ n + 1 <= PartLimit - 1 /\ partNumber' = (n + 1) + 2
       /\ cursor' = Stop(n + 1) /\ n + 1 # 0 /\ (n + 1) - 1 = n
  BY <1>1, <1>2, <1>6, LimitsAssumption
<1>14. QED
  BY <1>2, <1>5, <1>10, <1>11, <1>12, <1>13 DEF RangesInv, Ranged

\* The loop ends and leaves its ranges.
LEMMA Looping ==
  ASSUME RangesInv, UNCHANGED <<parts, chunk, tail, cursor, partNumber, specs>>,
         \/ result' = "error" /\ Len(specs) = PartLimit - 1 /\ cursor < Length
         \/ result' = "ok" /\ cursor >= Length
  PROVE  RangesInv'
<1>1. Ranged
  BY DEF RangesInv
<1>2. Ranged'
  BY <1>1, Zenon DEF Ranged, Edge, Stop, Length
<1>3. Length' = Length
  BY DEF Length
<1>4. QED
  BY <1>2, <1>3 DEF RangesInv

LEMMA RangesStep ==
  ASSUME SeqInv, Sizes, RangesInv, [NextPaths]_allVars
  PROVE  Sizes' /\ RangesInv'
<1>1. UNCHANGED <<parts, chunk, tail>>
  <2>1. TakePath => UNCHANGED body
    BY DEF TakePath, Next, ReadFirst, ReadSecond, PutSingle, Create, Queue, ReadNext,
           AcquirePermit, Uploaded, Complete, Fails, Abort
  <2>2. QED
    BY <2>1 DEF NextPaths, TakePath, BuildRanges, allVars, vars, body
<1>2. Sizes'
  BY <1>1 DEF Sizes, Length
<1>3. /\ \A k : Edge(k)' = Edge(k) /\ Stop(k)' = Stop(k)
      /\ Length' = Length
  BY <1>1 DEF Edge, Stop, Length
<1>4. CASE UNCHANGED rangeVars
  <2>1. UNCHANGED <<cursor, partNumber, specs, result>>
    BY <1>4 DEF rangeVars
  <2>2. RangesInv'
    BY <1>1, <2>1, Zenon DEF RangesInv, Ranged, Edge, Stop, Length
  <2>3. QED
    BY <1>2, <2>2
<1>5. CASE Build!Iterate
  BY <1>1, <1>2, <1>5, IterateStep
<1>6. CASE Build!TooManyParts
  <2>1. /\ UNCHANGED <<cursor, partNumber, specs>> /\ result' = "error" /\ result = "looping"
        /\ cursor < Length /\ partNumber \notin 1..PartLimit
    BY <1>6 DEF Build!TooManyParts, Build!ValidPartNumber
  <2>2. Len(specs) = PartLimit - 1
    <3>1. specs \in Seq([partNumber : Nat, start : Nat, endInclusive : Int])
      BY DEF RangesInv, Ranged
    <3>2. Len(specs) \in Nat
      BY <3>1
    <3>3. partNumber = Len(specs) + 2 /\ Len(specs) <= PartLimit - 1
      BY DEF RangesInv, Ranged
    <3>4. QED
      BY <2>1, <3>2, <3>3, LimitsAssumption
  <2>3. QED
    BY <1>1, <1>2, <2>1, <2>2, Looping
<1>7. CASE Build!Return
  <2>1. /\ UNCHANGED <<cursor, partNumber, specs>> /\ result' = "ok" /\ cursor >= Length
    BY <1>7 DEF Build!Return
  <2>2. QED
    BY <1>1, <1>2, <2>1, Looping
<1>8. QED
  BY <1>2, <1>4, <1>5, <1>6, <1>7 DEF NextPaths, TakePath, BuildRanges, Build!Next, allVars

\* What a range holds, and where the last one ends.
LEMMA RangeFacts ==
  ASSUME Sizes, RangesInv
  PROVE  /\ Len(specs) \in Nat /\ Length \in Nat
         /\ \A i \in 1..Len(specs) :
              /\ specs[i].partNumber = i + 1
              /\ specs[i].start = Edge(i - 1) /\ Edge(i - 1) \in Nat
              /\ Edge(i) = Edge(i - 1) + chunk
              /\ specs[i].endInclusive = Stop(i) - 1
              /\ Edge(i - 1) < Length
              /\ i < Len(specs) => Stop(i) = Edge(i)
<1> DEFINE n == Len(specs)
<1>1. specs \in Seq([partNumber : Nat, start : Nat, endInclusive : Int])
  BY DEF RangesInv, Ranged
<1>2. n \in Nat
  BY <1>1
<1>3. Length \in Nat /\ chunk \in Nat \ {0}
  BY LengthEdges DEF Sizes
<1>4. \A i \in 1..n : specs[i] = [partNumber |-> i + 1, start |-> Edge(i - 1),
                                  endInclusive |-> Stop(i) - 1]
  BY DEF RangesInv, Ranged
<1>5. n > 0 => Edge(n - 1) < Length
  BY DEF RangesInv, Ranged
<1> HIDE DEF n
<1>0. ASSUME NEW i \in 1..n
      PROVE  /\ specs[i].partNumber = i + 1 /\ specs[i].start = Edge(i - 1)
             /\ specs[i].endInclusive = Stop(i) - 1
  <2>1. PICK from : from = Edge(i - 1)
    OBVIOUS
  <2>2. PICK to : to = Stop(i) - 1
    OBVIOUS
  <2>3. PICK number : number = i + 1
    OBVIOUS
  <2>4. specs[i] = [partNumber |-> number, start |-> from, endInclusive |-> to]
    BY <1>4, <2>1, <2>2, <2>3
  <2>5. specs[i].partNumber = number /\ specs[i].start = from /\ specs[i].endInclusive = to
    BY <2>4
  <2>6. QED
    BY <2>1, <2>2, <2>3, <2>5, Zenon
<1>6. SUFFICES ASSUME NEW i \in 1..n
               PROVE  /\ Edge(i - 1) \in Nat /\ Edge(i) = Edge(i - 1) + chunk
                      /\ Edge(i - 1) < Length
                      /\ i < n => Stop(i) = Edge(i)
  BY <1>0, <1>2, <1>3, Zenon DEF n
<1>7. i \in Nat /\ i - 1 \in Nat /\ n - 1 \in Nat /\ i - 1 <= n - 1 /\ (i - 1) + 1 = i
  BY <1>2
<1>8. /\ Edge(i - 1) \in Nat /\ Edge(i) = Edge(i - 1) + chunk /\ Edge(i) \in Nat
      /\ Edge(n - 1) \in Nat
  BY <1>3, <1>7, EdgeStep
<1>9. Edge(i - 1) <= Edge(n - 1)
  BY <1>3, <1>7, EdgeOrder
<1>10. i < n => Edge(i) <= Edge(n - 1)
  <2>1. i < n => i <= n - 1
    BY <1>2, <1>7
  <2>2. QED
    BY <1>3, <1>7, <2>1, EdgeOrder
<1>11. Edge(n - 1) < Length
  BY <1>2, <1>5, <1>7
<1>12. i < n => Edge(i) <= Length
  BY <1>3, <1>8, <1>10, <1>11
<1>13. QED
  BY <1>3, <1>8, <1>9, <1>11, <1>12 DEF Stop

\* When the loop is done, the last range ends where the body ends.
LEMMA LastStop ==
  ASSUME Sizes, RangesInv, result = "ok"
  PROVE  /\ Len(specs) = 0 => Length <= Edge(0)
         /\ Len(specs) > 0 => Stop(Len(specs)) = Length /\ Length <= Edge(Len(specs))
<1> DEFINE n == Len(specs)
<1>1. n \in Nat /\ Length \in Nat /\ chunk \in Nat \ {0}
  BY RangeFacts DEF Sizes
<1>2. cursor = (IF n = 0 THEN chunk ELSE Stop(n)) /\ cursor >= Length
  BY DEF RangesInv, Ranged
<1>3. Edge(n) \in Nat /\ Edge(0) = chunk
  BY <1>1, EdgeStep
<1> HIDE DEF n
<1>4. n = 0 => Length <= Edge(0)
  BY <1>1, <1>2, <1>3
<1>5. n > 0 => Stop(n) = Length /\ Length <= Edge(n)
  BY <1>1, <1>2, <1>3 DEF Stop
<1>6. QED
  BY <1>4, <1>5 DEF n

LEMMA TileEnough ==
  ASSUME Sizes, RangesInv
  PROVE  Build!SpecsTile
<1> DEFINE n == Len(specs)
<1>1. n \in Nat /\ Length \in Nat /\ chunk \in Nat \ {0}
  BY RangeFacts DEF Sizes
<1>2. ASSUME NEW i \in 1..n
      PROVE  /\ specs[i].partNumber = i + 1
             /\ specs[i].start = chunk + (i - 1) * chunk
             /\ specs[i].start <= specs[i].endInclusive
             /\ i < n => specs[i].endInclusive + 1 = specs[i + 1].start
             /\ specs[i].endInclusive + 1 - specs[i].start <= chunk
  <2>1. /\ specs[i].partNumber = i + 1
        /\ specs[i].start = Edge(i - 1) /\ Edge(i - 1) \in Nat
        /\ Edge(i) = Edge(i - 1) + chunk
        /\ specs[i].endInclusive = Stop(i) - 1
        /\ Edge(i - 1) < Length
        /\ i < n => Stop(i) = Edge(i)
    BY RangeFacts
  <2>2. Stop(i) \in Nat /\ Edge(i - 1) < Stop(i) /\ Stop(i) <= Edge(i)
    BY <1>1, <2>1 DEF Stop
  <2>3. i < n => specs[i + 1].start = Edge(i)
    <3>1. i < n => i + 1 \in 1..n /\ (i + 1) - 1 = i
      BY <1>1
    <3>2. QED
      BY <3>1, RangeFacts
  <2>4. specs[i].start = chunk + (i - 1) * chunk
    BY <2>1 DEF Edge
  <2>5. specs[i].start <= specs[i].endInclusive
    BY <2>1, <2>2
  <2>6. i < n => specs[i].endInclusive + 1 = specs[i + 1].start
    BY <2>1, <2>2, <2>3
  <2>7. specs[i].endInclusive + 1 - specs[i].start <= chunk
    BY <1>1, <2>1, <2>2
  <2>8. QED
    BY <2>1, <2>4, <2>5, <2>6, <2>7
<1>3. result = "ok" /\ n > 0 => specs[n].endInclusive + 1 = Length
  <2>1. n > 0 => n \in 1..n
    BY <1>1
  <2>2. n > 0 => specs[n].endInclusive = Stop(n) - 1
    BY <2>1, RangeFacts
  <2>3. QED
    BY <1>1, <2>2, LastStop
<1>4. result = "ok" /\ n = 0 => chunk >= Length
  BY <1>1, LastStop, EdgeStep
<1>5. QED
  BY <1>2, <1>3, <1>4 DEF Build!SpecsTile

LEMMA RefusalEnough ==
  ASSUME Sizes, RangesInv
  PROVE  RefusedIffTooLong
<1> DEFINE n == Len(specs)
           last == PartLimit - 1
<1>1. /\ n \in Nat /\ Length \in Nat /\ chunk \in Nat \ {0} /\ last \in Nat /\ n <= last
      /\ Edge(n) \in Nat /\ Edge(last) \in Nat /\ Edge(0) = chunk
  <2>1. n \in Nat /\ Length \in Nat /\ chunk \in Nat \ {0} /\ last \in Nat /\ n <= last
    BY RangeFacts, LimitsAssumption DEF Sizes, RangesInv, Ranged
  <2>2. QED
    BY <2>1, EdgeStep
<1>2. Edge(last) = chunk + (PartLimit - 1) * chunk
  BY DEF Edge
<1>3. Edge(n) <= Edge(last)
  BY <1>1, EdgeOrder
<1>4. result = "error" => Edge(last) < Length
  <2>1. result = "error" => n = last /\ (IF n = 0 THEN chunk ELSE Stop(n)) < Length
    BY DEF RangesInv, Ranged
  <2>2. n # 0 /\ Stop(n) < Length => Edge(n) < Length
    BY <1>1 DEF Stop
  <2>3. QED
    BY <1>1, <2>1, <2>2
<1>5. result = "ok" => Length <= Edge(last) \/ Length <= chunk
  <2>1. result = "ok" /\ n > 0 => Length <= Edge(n)
    BY LastStop
  <2>2. result = "ok" /\ n = 0 => Length <= chunk
    BY <1>1, LastStop
  <2>3. QED
    BY <1>1, <1>3, <2>1, <2>2
<1>6. QED
  BY <1>2, <1>4, <1>5 DEF RefusedIffTooLong, Build!RefusedIffTooLong

LEMMA CutEnough ==
  ASSUME SeqInv, Sizes, RangesInv
  PROVE  PathsCutAlike
<1> DEFINE n == Len(specs)
<1>1. SUFFICES ASSUME pc = "range", result = "ok"
               PROVE  /\ n = parts - 1
                      /\ \A i \in 1..n : specs[i].endInclusive + 1 - specs[i].start
                                           = IF i = n THEN tail ELSE chunk
  BY DEF PathsCutAlike
<1>2. /\ parts \in Nat /\ parts >= 2 /\ n \in Nat /\ Length \in Nat
      /\ chunk \in Nat \ {0} /\ tail \in Nat
  BY <1>1, RangeFacts DEF Sizes, SeqInv, WholeObject
<1>3. \A m \in Nat : /\ Length <= Edge(m) <=> parts <= m + 1
                     /\ parts = m + 2 => Length = Edge(m) + tail
  BY LengthEdges
<1>4. n > 0
  <2>1. ~(Length <= Edge(0))
    BY <1>2, <1>3
  <2>2. QED
    BY <1>1, <1>2, <2>1, LastStop
<1>5. Stop(n) = Length /\ Length <= Edge(n)
  BY <1>1, <1>4, LastStop
<1>6. n \in 1..n /\ n - 1 \in Nat
  BY <1>2, <1>4
<1>7. Edge(n - 1) < Length /\ Edge(n - 1) \in Nat
  BY <1>6, RangeFacts
<1>8. parts <= n + 1 /\ ~(parts <= (n - 1) + 1)
  <2>1. ~(Length <= Edge(n - 1))
    BY <1>2, <1>7
  <2>2. QED
    BY <1>2, <1>3, <1>5, <1>6, <2>1
<1>9. n = parts - 1
  BY <1>2, <1>8
<1>10. ASSUME NEW i \in 1..n
       PROVE  specs[i].endInclusive + 1 - specs[i].start = IF i = n THEN tail ELSE chunk
  <2>1. /\ specs[i].start = Edge(i - 1) /\ Edge(i - 1) \in Nat
        /\ Edge(i) = Edge(i - 1) + chunk
        /\ specs[i].endInclusive = Stop(i) - 1
        /\ i < n => Stop(i) = Edge(i)
    BY RangeFacts
  <2>2. CASE i = n
    <3>1. Length = Edge(n - 1) + tail
      BY <1>2, <1>3, <1>6, <1>9
    <3>2. QED
      BY <1>2, <1>5, <2>1, <2>2, <3>1
  <2>3. CASE i # n
    <3>1. i < n
      BY <1>2, <2>3
    <3>2. QED
      BY <1>2, <2>1, <2>3, <3>1
  <2>4. QED
    BY <2>2, <2>3
<1>11. QED
  BY <1>9, <1>10

\* A sequence belongs to what its elements belong to.
LEMMA SeqOf ==
  ASSUME NEW S, NEW T, NEW s \in Seq(S), \A i \in 1..Len(s) : s[i] \in T
  PROVE  s \in Seq(T)
  OBVIOUS

\* On the parallel path every offset is one.
LEMMA OffsetsEnough ==
  ASSUME SeqInv, Sizes, RangesInv, pc = "range"
  PROVE  Build!TypeOK
<1> DEFINE n == Len(specs)
           RangeSpec == [partNumber : Nat, start : Build!Uint, endInclusive : Build!Uint]
<1>1. /\ parts >= 2 /\ n \in Nat /\ Length \in Nat /\ chunk \in Nat \ {0}
      /\ Length <= MaxUint /\ MaxUint \in Nat
  BY RangeFacts, LimitsAssumption DEF Sizes, SeqInv, WholeObject
<1>2. chunk < Length
  <2>1. ~(Length <= Edge(0)) /\ Edge(0) = chunk
    BY <1>1, LengthEdges, EdgeStep DEF Sizes
  <2>2. QED
    BY <1>1, <2>1
<1>3. chunk \in Build!Uint \ {0} /\ Length \in Build!Uint
  BY <1>1, <1>2 DEF Build!Uint
<1>4. cursor \in Build!Uint
  <2>1. Edge(n) \in Nat
    BY <1>1, EdgeStep
  <2>2. Stop(n) \in Build!Uint
    BY <1>1, <2>1 DEF Stop, Build!Uint
  <2>3. QED
    BY <1>3, <2>2 DEF RangesInv, Ranged
<1>5. ASSUME NEW i \in 1..n
      PROVE  specs[i] \in RangeSpec
  <2>1. /\ Edge(i - 1) \in Nat /\ Edge(i) = Edge(i - 1) + chunk /\ Edge(i - 1) < Length
    BY RangeFacts
  <2>2. PICK from : from = Edge(i - 1)
    OBVIOUS
  <2>3. PICK to : to = Stop(i) - 1
    OBVIOUS
  <2>4. from \in Build!Uint /\ to \in Build!Uint
    BY <1>1, <2>1, <2>2, <2>3 DEF Stop, Build!Uint
  <2>5. specs[i] = [partNumber |-> i + 1, start |-> from, endInclusive |-> to]
    BY <2>2, <2>3 DEF RangesInv, Ranged
  <2>6. i + 1 \in Nat
    BY <1>1
  <2>7. QED
    BY <2>4, <2>5, <2>6
<1>6. specs \in Seq(RangeSpec)
  <2>1. specs \in Seq([partNumber : Nat, start : Nat, endInclusive : Int])
    BY DEF RangesInv, Ranged
  <2>2. QED
    BY <1>5, <2>1, SeqOf
<1>7. partNumber \in Nat /\ result \in {"looping", "ok", "error"}
  BY <1>1 DEF RangesInv, Ranged
<1>8. QED
  BY <1>3, <1>4, <1>6, <1>7 DEF Build!TypeOK

\* The ranges tile what the first buffer left of the body, and a body is
\* refused exactly when the part numbers do not suffice for it.
THEOREM RangesTheorem ==
  SpecPaths => []((pc = "range" => Build!TypeOK) /\ Build!SpecsTile /\ RefusedIffTooLong)
<1>1. InitPaths => SeqInv /\ Sizes /\ RangesInv
  BY SeqInit, RangesInit DEF InitPaths
<1>2. SeqInv /\ Sizes /\ RangesInv /\ [NextPaths]_allVars => (SeqInv /\ Sizes /\ RangesInv)'
  BY PathsStepSeq, RangesStep
<1>3. SeqInv /\ Sizes /\ RangesInv =>
        (pc = "range" => Build!TypeOK) /\ Build!SpecsTile /\ RefusedIffTooLong
  BY OffsetsEnough, TileEnough, RefusalEnough
<1>4. QED
  BY <1>1, <1>2, <1>3, PTL DEF SpecPaths

\* One body has the same parts on either path, whatever its length and the size
\* of the chunks.
THEOREM PathsTheorem == SpecPaths => []PathsCutAlike
<1>1. InitPaths => SeqInv /\ Sizes /\ RangesInv
  BY SeqInit, RangesInit DEF InitPaths
<1>2. SeqInv /\ Sizes /\ RangesInv /\ [NextPaths]_allVars => (SeqInv /\ Sizes /\ RangesInv)'
  BY PathsStepSeq, RangesStep
<1>3. SeqInv /\ Sizes /\ RangesInv => PathsCutAlike
  BY CutEnough
<1>4. QED
  BY <1>1, <1>2, <1>3, PTL DEF SpecPaths
==============================================================================
