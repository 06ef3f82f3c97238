--------------------------- MODULE TdmaRingProofs ---------------------------
(***************************************************************************)
(* What the races on the ring cannot do, for a ring of any size: no index  *)
(* leaves it, and as long as the application only adds, the count does     *)
(* not either, as a count that is about to be stored was loaded when the   *)
(* ring was not full.                                                      *)
(***************************************************************************)
EXTENDS TdmaRing, TLAPS

Types ==
  /\ count \in 0 .. CountRange - 1
  /\ index \in Nat /\ number \in Nat

IInv == IndicesInRing /\ Types

AddIInv ==
  /\ IInv
  /\ CountInRing
  /\ step = "counting" => count < RingSize /\ number < RingSize

LEMMA InIndices ==
  ASSUME RingSize \in 1 .. 255, NEW n \in Nat
  PROVE  n % RingSize \in 0 .. RingSize - 1
OBVIOUS

LEMMA AfterInRing ==
  ASSUME RingSize \in 1 .. 255, NEW n \in Nat
  PROVE  After(n) \in 0 .. RingSize - 1
<1>1. n + 1 \in Nat OBVIOUS
<1> QED BY <1>1, InIndices DEF After

LEMMA AddKeeps ==
  ASSUME RingSize \in 1 .. 255, IInv, Add
  PROVE  IInv'
<1>1. /\ write_index \in 0 .. RingSize - 1 /\ read_index \in 0 .. RingSize - 1
      /\ count \in 0 .. 255 /\ index \in Nat /\ number \in Nat
  BY DEF IInv, IndicesInRing, Types, CountRange
<1>2. CASE Reload
  <2>1. index' \in Nat BY <1>1, <1>2 DEF Reload
  <2>2. number' \in Nat BY <1>1, <1>2 DEF Reload
  <2> QED BY <1>1, <1>2, <2>1, <2>2
          DEF Reload, fields, IInv, IndicesInRing, Types, CountRange
<1>3. CASE Copy
  BY <1>1, <1>3 DEF Copy, fields, IInv, IndicesInRing, Types, CountRange
<1>4. CASE MoveWrite
  <2>1. After(index) \in 0 .. RingSize - 1 BY <1>1, AfterInRing
  <2> QED BY <1>1, <1>4, <2>1
          DEF MoveWrite, IInv, IndicesInRing, Types, CountRange
<1>5. CASE LoadCount
  BY <1>1, <1>5 DEF LoadCount, fields, IInv, IndicesInRing, Types, CountRange
<1>6. CASE StoreCount
  <2>1. (number + 1) % 256 \in 0 .. 255 BY <1>1
  <2> QED BY <1>1, <1>6, <2>1
          DEF StoreCount, IInv, IndicesInRing, Types, CountRange
<1>7. CASE LoadRead
  BY <1>1, <1>7 DEF LoadRead, fields, IInv, IndicesInRing, Types, CountRange
<1>8. CASE MoveRead
  <2>1. After(index) \in 0 .. RingSize - 1 BY <1>1, AfterInRing
  <2> QED BY <1>1, <1>8, <2>1
          DEF MoveRead, IInv, IndicesInRing, Types, CountRange
<1> QED BY <1>2, <1>3, <1>4, <1>5, <1>6, <1>7, <1>8 DEF Add

LEMMA FlushKeeps ==
  ASSUME RingSize \in 1 .. 255, IInv, Flush
  PROVE  IInv'
<1>1. /\ write_index \in 0 .. RingSize - 1 /\ read_index \in 0 .. RingSize - 1
      /\ count \in 0 .. 255 /\ index \in Nat /\ number \in Nat
  BY DEF IInv, IndicesInRing, Types, CountRange
<1>2. CASE TakeNext
  BY <1>1, <1>2 DEF TakeNext, fields, IInv, IndicesInRing, Types, CountRange
<1>3. CASE MoveTaken
  <2>1. After(index) \in 0 .. RingSize - 1 BY <1>1, AfterInRing
  <2> QED BY <1>1, <1>3, <2>1
          DEF MoveTaken, IInv, IndicesInRing, Types, CountRange
<1>4. CASE LowerCount
  <2>1. (number - 1) % 256 \in 0 .. 255 BY <1>1
  <2> QED BY <1>1, <1>4, <2>1
          DEF LowerCount, IInv, IndicesInRing, Types, CountRange
<1>5. CASE FlushEnds
  BY <1>1, <1>5 DEF FlushEnds, fields, IInv, IndicesInRing, Types, CountRange
<1> QED BY <1>2, <1>3, <1>4, <1>5 DEF Flush

LEMMA EmptyKeeps ==
  ASSUME RingSize \in 1 .. 255, IInv, Empty
  PROVE  IInv'
BY DEF Empty, ClearWrite, ClearRead, ClearCount, IInv, IndicesInRing, Types,
       CountRange

LEMMA TimerKeeps ==
  ASSUME RingSize \in 1 .. 255, IInv, Timer
  PROVE  IInv' /\ count' <= count /\ step' = step /\ number' = number
<1>1. /\ write_index \in 0 .. RingSize - 1 /\ read_index \in 0 .. RingSize - 1
      /\ count \in 0 .. 255 /\ index \in Nat /\ number \in Nat
  BY DEF IInv, IndicesInRing, Types, CountRange
<1>2. CASE SendAll
  <2>1. read_index + count \in Nat BY <1>1
  <2>2. (read_index + count) % RingSize \in 0 .. RingSize - 1
    BY <2>1, InIndices
  <2> QED BY <1>1, <1>2, <2>2
          DEF SendAll, IInv, IndicesInRing, Types, CountRange
<1>3. ASSUME NEW sent \in 0 .. CountRange - 1, SendSome(sent)
      PROVE  IInv' /\ count' <= count /\ step' = step /\ number' = number
  <2> DEFINE left == count - sent - 1
             taken == IF left >= RingSize THEN 2 ELSE 1
  <2>1. /\ read_index' = (read_index + sent + taken) % RingSize
        /\ write_index' = After(write_index)
        /\ count' = IF left >= RingSize THEN left ELSE left + 1
        /\ left >= 0 /\ step' = step /\ index' = index /\ number' = number
    BY <1>3 DEF SendSome
  <2>2. read_index + sent + taken \in Nat BY <1>1 DEF CountRange
  <2>3. (read_index + sent + taken) % RingSize \in 0 .. RingSize - 1
    BY <2>2, InIndices
  <2>4. After(write_index) \in 0 .. RingSize - 1 BY <1>1, AfterInRing
  <2>5. count' \in 0 .. count BY <1>1, <2>1 DEF CountRange
  <2> QED BY <1>1, <2>1, <2>3, <2>4, <2>5
          DEF IInv, IndicesInRing, Types, CountRange
<1> QED BY <1>2, <1>3 DEF Timer

LEMMA AddCount ==
  ASSUME RingSize \in 1 .. 255, AddIInv, Add
  PROVE  AddIInv'
<1>1. /\ IInv' /\ count \in 0 .. RingSize /\ number \in Nat
      /\ step = "counting" => count < RingSize /\ number < RingSize
  BY AddKeeps DEF AddIInv, CountInRing, IInv, Types
<1>2. CASE StoreCount
  <2>1. (number + 1) % 256 \in 1 .. RingSize BY <1>1, <1>2 DEF StoreCount
  <2> QED BY <1>1, <1>2, <2>1 DEF StoreCount, AddIInv, CountInRing, CountRange
<1>3. CASE Reload
  BY <1>1, <1>3 DEF Reload, fields, AddIInv, CountInRing
<1>4. CASE LoadCount
  BY <1>1, <1>4 DEF LoadCount, fields, AddIInv, CountInRing
<1>5. CASE Copy \/ MoveWrite \/ LoadRead \/ MoveRead
  BY <1>1, <1>5 DEF Copy, MoveWrite, LoadRead, MoveRead, fields, AddIInv,
                    CountInRing
<1> QED BY <1>2, <1>3, <1>4, <1>5 DEF Add

LEMMA TimerCount ==
  ASSUME RingSize \in 1 .. 255, AddIInv, Timer
  PROVE  AddIInv'
<1>1. IInv' /\ count' <= count /\ step' = step /\ number' = number
  BY TimerKeeps DEF AddIInv
<1>2. count' \in 0 .. 255 BY <1>1 DEF IInv, Types, CountRange
<1> QED BY <1>1, <1>2 DEF AddIInv, CountInRing

\* Whatever the slot timer interrupts, no packet is read or written outside
\* the ring.
THEOREM IndicesCorrect ==
  ASSUME RingSize \in 1 .. 255
  PROVE  Spec => []IndicesInRing
<1>1. Init => IInv BY DEF Init, IInv, IndicesInRing, Types, CountRange
<1>2. IInv /\ [Next]_vars => IInv'
  <2>1. CASE UNCHANGED vars
    BY <2>1 DEF vars, fields, IInv, IndicesInRing, Types
  <2> QED BY <2>1, AddKeeps, FlushKeeps, EmptyKeeps, TimerKeeps DEF Next
<1>3. IInv => IndicesInRing BY DEF IInv
<1> QED BY <1>1, <1>2, <1>3, PTL DEF Spec

\* Without flush and empty, the ring never counts more packets than it has
\* room for, although the count may be wrong.
THEOREM CountCorrect ==
  ASSUME RingSize \in 1 .. 255
  PROVE  AddSpec => []CountInRing
<1>1. Init => AddIInv
  BY DEF Init, AddIInv, IInv, IndicesInRing, Types, CountInRing, CountRange
<1>2. AddIInv /\ [Add \/ Timer]_vars => AddIInv'
  <2>1. CASE UNCHANGED vars
    BY <2>1 DEF vars, fields, AddIInv, IInv, IndicesInRing, Types, CountInRing
  <2> QED BY <2>1, AddCount, TimerCount
<1>3. AddIInv => CountInRing BY DEF AddIInv
<1> QED BY <1>1, <1>2, <1>3, PTL DEF AddSpec
=============================================================================
