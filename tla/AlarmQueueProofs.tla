-------------------------- MODULE AlarmQueueProofs --------------------------
(***************************************************************************)
(* The calls of the ring first, for every capacity and every set of pointers, *)
(* whatever state the calls before left: the indices stay consistent, and    *)
(* each call is one of the bounded FIFO list.  Then the alarm queue, for any *)
(* number of threads, calls and slots, with answers that are late or lost:   *)
(* it implements the list, and while every answer comes in time a call of    *)
(* initiator_command finds its command there.                                *)
(***************************************************************************)
EXTENDS AlarmQueue, FiniteSetTheorems, SequenceTheorems, TLAPS

-----------------------------------------------------------------------------
(***************************************************************************)
(* The ring                                                                  *)
(***************************************************************************)

\* One step forward stays in the ring.
LEMMA NextSlotType ==
    ASSUME NEW i \in Slots
    PROVE  NextSlot(i) \in Slots
BY DepthAssumption DEF Slots, NextSlot

\* Counting from the head never leaves the ring.
LEMMA SlotAtType ==
    ASSUME head \in Slots, NEW k \in 0..Depth
    PROVE  SlotAt(k) \in Slots
BY DepthAssumption DEF Slots, SlotAt

\* The division of an integer by the ring's depth
LEMMA DivMod ==
    ASSUME NEW x \in Int
    PROVE  \E m \in Int, r \in Slots : x = m * Depth + r /\ r = x % Depth
<1> USE DepthAssumption DEF Slots
<1>1. x % Depth \in Slots
  OBVIOUS
<1>2. x = Depth * (x \div Depth) + (x % Depth) /\ x \div Depth \in Int
  OBVIOUS
<1>3. PICK m \in Int, r \in Slots : m = x \div Depth /\ r = x % Depth
  BY <1>1, <1>2
<1>4. x = m * Depth + r
  BY <1>2, <1>3
<1> QED BY <1>3, <1>4

\* ... has one remainder.
LEMMA OneRemainder ==
    ASSUME NEW x \in Int, NEW m \in Int, NEW r \in Slots, x = m * Depth + r
    PROVE  x % Depth = r
BY DepthAssumption DEF Slots

\* A slot is its own remainder.
LEMMA SlotRemainder ==
    ASSUME NEW r \in Slots
    PROVE  r % Depth = r
BY DepthAssumption DEF Slots

\* Turning by the whole ring changes no slot.
LEMMA TurnBack ==
    ASSUME NEW x \in Int
    PROVE  (x - Depth) % Depth = x % Depth
<1>1. PICK m \in Int, r \in Slots : x = m * Depth + r /\ r = x % Depth
  BY DivMod
<1>2. x - Depth = (m - 1) * Depth + r /\ m - 1 \in Int /\ x - Depth \in Int
  BY <1>1, DepthAssumption DEF Slots
<1>3. (x - Depth) % Depth = r
  BY <1>2, OneRemainder
<1> QED BY <1>1, <1>3

\* Counting one on is going to the next slot.
LEMMA OneOn ==
    ASSUME NEW x \in Int
    PROVE  (x + 1) % Depth = NextSlot(x % Depth)
<1>1. PICK m \in Int, r \in Slots : x = m * Depth + r /\ r = x % Depth
  BY DivMod
<1>2. CASE r + 1 = Depth
  <2>1. x + 1 = (m + 1) * Depth + 0 /\ m + 1 \in Int /\ 0 \in Slots /\ x + 1 \in Int
    BY <1>1, <1>2, DepthAssumption DEF Slots
  <2>2. (x + 1) % Depth = 0
    BY <2>1, OneRemainder
  <2> QED BY <1>1, <1>2, <2>2 DEF NextSlot
<1>3. CASE r + 1 # Depth
  <2>1. x + 1 = m * Depth + (r + 1) /\ r + 1 \in Slots /\ x + 1 \in Int
    BY <1>1, <1>3, DepthAssumption DEF Slots
  <2>2. (x + 1) % Depth = r + 1
    BY <2>1, OneRemainder
  <2> QED BY <1>1, <1>3, <2>2 DEF NextSlot
<1> QED BY <1>2, <1>3

\* Where the tail is when no pointer is owed
LEMMA TailAt ==
    ASSUME IndInv, count >= 0
    PROVE  /\ count \in 0..Depth
           /\ tail = IF head + count < Depth THEN head + count ELSE head + count - Depth
<1>1. count \in 0..Depth /\ head \in Slots
  BY DepthAssumption DEF IndInv, TypeOK
<1>2. PICK x \in Int : x = head + count /\ tail = x % Depth
  BY <1>1, DepthAssumption DEF IndInv, RingInv, Slots
<1>3. CASE x < Depth
  <2>1. x \in Slots
    BY <1>1, <1>2, <1>3, DepthAssumption DEF Slots
  <2>2. tail = x
    BY <1>2, <2>1, SlotRemainder
  <2> QED BY <1>1, <1>2, <1>3, <2>2
<1>4. CASE x >= Depth
  <2>1. tail = (x - Depth) % Depth
    BY <1>2, TurnBack
  <2>2. x - Depth \in Slots
    BY <1>1, <1>2, <1>4, DepthAssumption DEF Slots
  <2>3. tail = x - Depth
    BY <2>1, <2>2, SlotRemainder
  <2>4. ~(head + count < Depth) /\ tail = head + count - Depth
    BY <1>1, <1>2, <1>4, <2>3, DepthAssumption DEF Slots
  <2> QED BY <1>1, <2>4
<1> QED BY <1>1, <1>2, <1>3, <1>4, DepthAssumption

\* Taking one out at the head, or past it, keeps the tail where it is.
LEMMA HeadOn ==
    ASSUME IndInv, head' = NextSlot(head), count' = count - 1, tail' = tail
    PROVE  RingInv'
<1>1. PICK x \in Int : x = head + count /\ tail = x % Depth
  BY DepthAssumption DEF IndInv, TypeOK, RingInv, Slots
<1>2. head' + count' = x \/ head' + count' = x - Depth
  BY <1>1, DepthAssumption DEF IndInv, TypeOK, Slots, NextSlot
<1>3. (x - Depth) % Depth = x % Depth
  BY TurnBack
<1> QED BY <1>1, <1>2, <1>3 DEF RingInv

\* The copying in remove_this only moves elements between slots of the ring.
LEMMA ShiftedOverType ==
    ASSUME TypeOK, NEW pos \in Slots
    PROVE  ShiftedOver(pos) \in [Slots -> Elems \cup {NULL}]
BY DepthAssumption DEF TypeOK, Slots, ShiftedOver

\* The scan of remove_this never inspects more than the ring's slots plus one.
LEMMA ScanLengthType ==
    ASSUME TypeOK
    PROVE  /\ ScanLength \in 1..(Depth + 1)
           /\ RingInv /\ count \in 0..(Depth - 1) => ScanLength = count + 1
           /\ RingInv /\ count = Depth => ScanLength = 1
<1> USE DepthAssumption DEF TypeOK, Slots, ScanLength
<1>1. ScanLength \in 1..(Depth + 1)
  OBVIOUS
<1>2. RingInv /\ count \in 0..Depth =>
        tail = IF head + count < Depth THEN head + count ELSE head + count - Depth
  BY TailAt DEF IndInv
<1> QED BY <1>1, <1>2

\* The initial ring is well formed.
LEMMA InitInd == Init => IndInv
BY DepthAssumption DEF Init, IndInv, TypeOK, RingInv, Slots

\* What the callers of the ring do to it
RingStep ==
    \/ \E v \in Elems : iscsi_queue_insert(v) \/ RemoveThisLocked(v)
    \/ iscsi_queue_remove
    \/ UNCHANGED ringVars

\* Every call keeps the indices in range and the tail count slots past the head.
LEMMA StepInd == IndInv /\ RingStep => IndInv'
<1> SUFFICES ASSUME IndInv, RingStep PROVE IndInv'
  OBVIOUS
<1> USE DepthAssumption DEF IndInv
<1>1. ASSUME NEW v \in Elems, iscsi_queue_insert(v) PROVE IndInv'
  <2>1. CASE InsertFull
    BY <2>1 DEF InsertFull, TypeOK, RingInv, Slots
  <2>2. CASE InsertOk(v)
    <3>1. TypeOK'
      BY <2>2, NextSlotType DEF InsertOk, iscsi_queue_full, TypeOK, Slots
    <3>2. RingInv'
      <4>1. head' + count' = (head + count) + 1 /\ head + count \in Int
        BY <2>2 DEF InsertOk, TypeOK, Slots
      <4>2. tail' = NextSlot(tail)
        BY <2>2 DEF InsertOk
      <4> QED BY <4>1, <4>2, OneOn DEF RingInv
    <3> QED BY <3>1, <3>2
  <2> QED BY <1>1, <2>1, <2>2 DEF iscsi_queue_insert
<1>2. ASSUME iscsi_queue_remove PROVE IndInv'
  <2>1. CASE RemoveEmpty
    BY <2>1 DEF RemoveEmpty, TypeOK, RingInv, Slots
  <2>2. CASE RemoveOldest
    <3>1. TypeOK'
      BY <2>2, NextSlotType DEF RemoveOldest, TypeOK, Slots
    <3>2. RingInv'
      BY <2>2, HeadOn DEF RemoveOldest
    <3> QED BY <3>1, <3>2
  <2> QED BY <1>2, <2>1, <2>2 DEF iscsi_queue_remove
<1>3. ASSUME NEW v \in Elems, RemoveThisLocked(v) PROVE IndInv'
  <2>1. CASE RemoveThisMissing(v)
    BY <2>1 DEF RemoveThisMissing, TypeOK, RingInv, Slots
  <2>2. CASE RemoveThisFound(v)
    <3>1. PICK k \in 0..Depth :
             /\ FirstMatch(v, k)
             /\ count' = count - 1
             /\ elem' = ShiftedOver(SlotAt(k))
             /\ head' = IF SlotAt(k) # head /\ head = tail THEN head
                        ELSE NextSlot(head)
             /\ ret' = v
             /\ UNCHANGED tail
      BY <2>2 DEF RemoveThisFound
    <3>3. head \in Slots /\ SlotAt(k) \in Slots
      BY SlotAtType DEF TypeOK
    <3>4. head' = NextSlot(head)
      \* with head = tail the scan has one slot, the head
      <4>1. CASE head = tail
        <5>1. ScanLength = 1
          BY <4>1 DEF ScanLength, TypeOK, Slots
        <5>2. k = 0
          BY <3>1, <5>1 DEF FirstMatch
        <5>3. SlotAt(k) = head
          BY <5>2, <3>3 DEF SlotAt, Slots
        <5> QED BY <5>3, <3>1
      <4>2. CASE head # tail
        BY <4>2, <3>1
      <4> QED BY <4>1, <4>2
    <3>5. elem' \in [Slots -> Elems \cup {NULL}]
      BY <3>1, <3>3, ShiftedOverType
    <3>6. TypeOK'
      <4>1. head' \in Slots
        BY <3>3, <3>4, NextSlotType
      <4>2. tail' \in Slots
        BY <3>1 DEF TypeOK
      <4>3. count' \in Int /\ count' <= Depth
        BY <3>1 DEF TypeOK
      <4>4. ret' \in Elems \cup {NULL, OK, FAIL}
        BY <3>1
      <4> QED BY <3>5, <4>1, <4>2, <4>3, <4>4 DEF TypeOK
    <3>7. RingInv'
      BY <3>1, <3>4, HeadOn
    <3> QED BY <3>6, <3>7
  <2> QED BY <1>3, <2>1, <2>2 DEF RemoveThisLocked
<1>4. CASE UNCHANGED ringVars
  BY <1>4 DEF ringVars, TypeOK, RingInv, Slots
<1> QED BY <1>1, <1>2, <1>3, <1>4 DEF RingStep

-----------------------------------------------------------------------------

\* The queued pointers form a sequence of count elements, or of none when pointers are owed.
LEMMA ContentsType ==
    IndInv => /\ Contents \in Seq(Elems \cup {NULL})
              /\ count >= 0 => Len(Contents) = count
              /\ count <= 0 => Contents = <<>>
              /\ \A i \in 1..count : Contents[i] = elem[SlotAt(i - 1)]
<1> SUFFICES ASSUME IndInv
             PROVE  /\ Contents \in Seq(Elems \cup {NULL})
                    /\ count >= 0 => Len(Contents) = count
                    /\ count <= 0 => Contents = <<>>
                    /\ \A i \in 1..count : Contents[i] = elem[SlotAt(i - 1)]
  OBVIOUS
<1>1. \A i \in 1..count : SlotAt(i - 1) \in Slots
  BY DepthAssumption DEF IndInv, TypeOK, Slots, SlotAt
<1>2. \A i \in 1..count : elem[SlotAt(i - 1)] \in Elems \cup {NULL}
  BY <1>1 DEF IndInv, TypeOK
<1>3. CASE count >= 0
  <2>1. count \in Nat
    BY <1>3 DEF IndInv, TypeOK
  <2>2. /\ Contents \in Seq(Elems \cup {NULL}) /\ Len(Contents) = count
        /\ \A i \in 1..count : Contents[i] = elem[SlotAt(i - 1)]
    BY <1>2, <2>1 DEF Contents
  <2>3. count <= 0 => Contents = <<>>
    BY <2>1, <2>2, EmptySeq
  <2> QED BY <2>2, <2>3
<1>4. CASE count < 0
  <2>1. 1..count = 1..0
    BY <1>4 DEF IndInv, TypeOK
  <2>2. Contents \in Seq(Elems \cup {NULL}) /\ Len(Contents) = 0
    <3>1. Contents = [i \in 1..0 |-> elem[SlotAt(i - 1)]]
      BY <2>1 DEF Contents
    <3>2. \A i \in 1..0 : elem[SlotAt(i - 1)] \in Elems \cup {NULL}
      OBVIOUS
    <3> QED BY <3>1, <3>2
  <2> QED BY <1>4, <2>1, <2>2, EmptySeq DEF IndInv, TypeOK
<1> QED BY <1>3, <1>4 DEF IndInv, TypeOK

\* The same of the next state: what a step leaves in the queue.
LEMMA ContentsTypePrime ==
    IndInv' => /\ Contents' \in Seq(Elems \cup {NULL})
               /\ count' >= 0 => Len(Contents') = count'
               /\ count' <= 0 => Contents' = <<>>
               /\ \A i \in 1..count' : Contents'[i] = elem'[SlotAt(i - 1)']
<1>1. (IndInv => /\ Contents \in Seq(Elems \cup {NULL})
                 /\ count >= 0 => Len(Contents) = count
                 /\ count <= 0 => Contents = <<>>
                 /\ \A i \in 1..count : Contents[i] = elem[SlotAt(i - 1)])'
  BY ContentsType, PTL
<1> QED BY <1>1

\* A successful insert appends to the list, one on a full ring changes nothing.
LEMMA InsertAppends ==
    ASSUME IndInv, IndInv', count >= 0, NEW v \in Elems, iscsi_queue_insert(v)
    PROVE  F!Insert(v)
<1> USE DepthAssumption
<1> DEFINE S == Elems \cup {NULL}
<1>0. count \in 0..Depth /\ count' \in 0..Depth /\ Owed = 0 /\ Owed' = 0
  <2>1. count \in 0..Depth
    BY DEF IndInv, TypeOK
  <2>2. count' = count \/ count' = count + 1
    BY DEF iscsi_queue_insert, InsertFull, InsertOk
  <2>3. count' \in 0..Depth
    BY <2>1, <2>2 DEF IndInv, TypeOK
  <2>4. ~(count < 0) /\ ~(count' < 0)
    BY <2>1, <2>3
  <2> QED BY <2>1, <2>3, <2>4 DEF Owed
<1>1. Contents \in Seq(S) /\ Len(Contents) = count /\ Contents' \in Seq(S)
      /\ Len(Contents') = count'
  BY <1>0, ContentsType, ContentsTypePrime
<1>2. CASE InsertFull
  <2>1. Contents' = Contents
    BY <1>2 DEF InsertFull, Contents, SlotAt
  <2>2. Len(Contents) = Depth
    BY <1>1, <1>2 DEF InsertFull, iscsi_queue_full
  <2> QED BY <1>0, <1>2, <2>1, <2>2 DEF F!Insert, InsertFull
<1>3. CASE InsertOk(v)
  <2>2. count' = count + 1 /\ count \in 0..(Depth - 1) /\ head' = head
        /\ elem' = [elem EXCEPT ![tail] = v]
    BY <1>0, <1>3 DEF InsertOk, iscsi_queue_full
  <2>3. \A i \in 1..count : SlotAt(i - 1) # tail /\ SlotAt(i - 1) \in Slots
    BY <2>2, TailAt DEF SlotAt, IndInv, TypeOK, Slots
  <2>4. SlotAt(count) = tail
    BY <2>2, TailAt DEF SlotAt, IndInv, TypeOK, Slots
  <2>5. \A i \in 1..(count + 1) : SlotAt(i - 1)' = SlotAt(i - 1)
    BY <2>2 DEF SlotAt
  <2>6. \A i \in 1..count : Contents'[i] = Contents[i]
    BY <2>2, <2>3, <2>5, ContentsType, ContentsTypePrime DEF IndInv, TypeOK
  <2>7. Contents'[count + 1] = v
    <3>1. PICK n \in 1..(count + 1) : n = count + 1
      BY <2>2
    <3>2. SlotAt(n - 1)' = tail
      BY <2>2, <2>4, <2>5, <3>1 DEF SlotAt
    <3>3. Contents'[n] = elem'[SlotAt(n - 1)']
      BY <2>2, <3>1, ContentsTypePrime
    <3> QED BY <2>2, <3>1, <3>2, <3>3 DEF IndInv, TypeOK
  <2>8. /\ Append(Contents, v) \in Seq(S)
        /\ Len(Append(Contents, v)) = count + 1
        /\ \A i \in 1..count : Append(Contents, v)[i] = Contents[i]
        /\ Append(Contents, v)[count + 1] = v
    BY <1>1, AppendProperties
  <2>9. \A i \in 1..(count + 1) : Contents'[i] = Append(Contents, v)[i]
    BY <2>2, <2>6, <2>7, <2>8
  <2>10. Contents' = Append(Contents, v)
    BY <1>1, <2>2, <2>8, <2>9, SeqEqual
  <2> QED BY <1>0, <1>1, <1>3, <2>2, <2>10 DEF F!Insert, InsertOk
<1> QED BY <1>2, <1>3 DEF iscsi_queue_insert

\* A pointer that is inserted while others are owed is swallowed.
LEMMA InsertRefines ==
    ASSUME IndInv, IndInv', NEW v \in Elems, iscsi_queue_insert(v)
    PROVE  F!Insert(v)
<1>1. CASE count < 0
  <2>1. InsertOk(v) /\ count \in Int /\ Owed > 0
    BY <1>1, DepthAssumption DEF iscsi_queue_insert, InsertFull, iscsi_queue_full, IndInv, TypeOK, Owed
  <2>2. count' = count + 1 /\ count' <= 0 /\ Owed' = Owed - 1
    BY <1>1, <2>1 DEF InsertOk, Owed
  <2>3. Contents = <<>> /\ Contents' = <<>>
    BY <1>1, <2>1, <2>2, ContentsType, ContentsTypePrime
  <2> QED BY <2>1, <2>2, <2>3 DEF F!Insert, InsertOk
<1> QED BY <1>1, InsertAppends DEF IndInv, TypeOK

\* Moving the head one slot on renames every slot of the ring by one.
LEMMA HeadMoves ==
    ASSUME IndInv, head' = NextSlot(head)
    PROVE  \A i \in 1..Depth : SlotAt(i - 1)' = SlotAt(i)
BY DepthAssumption DEF IndInv, TypeOK, SlotAt, NextSlot, Slots

\* A remove takes the oldest element, one on an empty ring changes nothing.
LEMMA RemoveTakesOldest ==
    ASSUME IndInv, IndInv', count >= 0, iscsi_queue_remove
    PROVE  F!Remove
<1> USE DepthAssumption
<1> DEFINE S == Elems \cup {NULL}
<1>0. count \in 0..Depth /\ count' \in 0..Depth /\ Owed = 0 /\ Owed' = 0
  <2>1. count \in 0..Depth
    BY DEF IndInv, TypeOK
  <2>2. count' = count \/ (count # 0 /\ count' = count - 1)
    BY DEF iscsi_queue_remove, RemoveEmpty, RemoveOldest
  <2>3. count' \in 0..Depth
    BY <2>1, <2>2
  <2>4. ~(count < 0) /\ ~(count' < 0)
    BY <2>1, <2>3
  <2> QED BY <2>1, <2>3, <2>4 DEF Owed
<1>1. Contents \in Seq(S) /\ Len(Contents) = count /\ Contents' \in Seq(S)
      /\ Len(Contents') = count'
  BY <1>0, ContentsType, ContentsTypePrime
<1>2. CASE RemoveEmpty
  <2>1. Contents' = Contents
    BY <1>2 DEF RemoveEmpty, Contents, SlotAt
  <2>2. Contents = <<>>
    BY <1>1, <1>2, EmptySeq DEF RemoveEmpty
  <2> QED BY <1>0, <1>2, <2>1, <2>2 DEF F!Remove, RemoveEmpty
<1>3. CASE RemoveOldest
  <2>1. count \in 1..Depth /\ count' = count - 1 /\ elem' = elem
        /\ head' = NextSlot(head) /\ ret' = elem[head] /\ head \in Slots
    BY <1>0, <1>3 DEF RemoveOldest, IndInv, TypeOK
  <2>2. Contents # <<>> /\ Head(Contents) = elem[head]
    <3>1. Contents[1] = elem[SlotAt(0)]
      BY <2>1, ContentsType
    <3>2. SlotAt(0) = head
      BY <2>1 DEF SlotAt, Slots
    <3>3. Contents # <<>>
      BY <1>1, <2>1
    <3> QED BY <1>1, <3>1, <3>2, <3>3
  <2>3. \A i \in 1..(count - 1) : Contents'[i] = Contents[i + 1]
    <3>1. \A i \in 1..(count - 1) : Contents'[i] = elem[SlotAt(i)]
      BY <2>1, HeadMoves, ContentsTypePrime
    <3>2. \A i \in 1..(count - 1) : Contents[i + 1] = elem[SlotAt(i)]
      BY <2>1, ContentsType
    <3> QED BY <3>1, <3>2
  <2>4. /\ Tail(Contents) \in Seq(S)
        /\ Len(Tail(Contents)) = count - 1
        /\ \A i \in 1..(count - 1) : Tail(Contents)[i] = Contents[i + 1]
    BY <1>1, <2>1, <2>2, HeadTailProperties
  <2>5. Contents' = Tail(Contents)
    BY <1>1, <2>1, <2>3, <2>4, SeqEqual
  <2> QED BY <1>0, <2>1, <2>2, <2>5 DEF F!Remove
<1> QED BY <1>2, <1>3 DEF iscsi_queue_remove

\* A remove while pointers are owed hands out what the slot was left with.
LEMMA RemoveRefines ==
    ASSUME IndInv, IndInv', iscsi_queue_remove
    PROVE  F!Remove
<1>1. CASE count < 0
  <2>1. RemoveOldest /\ count \in Int /\ Owed > 0
    BY <1>1 DEF iscsi_queue_remove, RemoveEmpty, IndInv, TypeOK, Owed
  <2>2. count' = count - 1 /\ Owed' = Owed + 1
    BY <1>1, <2>1 DEF RemoveOldest, Owed
  <2>3. Contents = <<>> /\ Contents' = <<>>
    BY <1>1, <2>1, <2>2, ContentsType, ContentsTypePrime
  <2>4. ret' \in Elems \cup {NULL}
    BY <2>1 DEF RemoveOldest, IndInv, TypeOK
  <2> QED BY <2>1, <2>2, <2>3, <2>4 DEF F!Remove
<1> QED BY <1>1, RemoveTakesOldest DEF IndInv, TypeOK

\* When the ring is neither full nor empty, the copying keeps every queued
\* element except the k-th, in order; from the slot past the last it copies over that one.
LEMMA ShiftKeepsOrder ==
    ASSUME IndInv, 0 < count, count < Depth, NEW k \in 0..count
    PROVE  \A i \in 1..(count - 1) :
             ShiftedOver(SlotAt(k))[SlotAt(i)] =
                 IF i <= k THEN elem[SlotAt(i - 1)] ELSE elem[SlotAt(i)]
<1> USE DepthAssumption
<1> DEFINE pos == SlotAt(k)
<1>1. head \in Slots /\ tail \in Slots /\ pos \in Slots /\ head # tail
      /\ count \in 1..(Depth - 1)
  BY TailAt DEF IndInv, TypeOK, SlotAt, Slots
<1>2. CASE pos = head
  <2>1. k = 0
    BY <1>1, <1>2 DEF SlotAt, Slots
  <2> QED BY <1>2, <2>1 DEF ShiftedOver
<1>3. CASE pos # head /\ (head < tail \/ pos >= head)
  <2> SUFFICES ASSUME NEW i \in 1..(count - 1)
               PROVE  ShiftedOver(pos)[SlotAt(i)] =
                        IF i <= k THEN elem[SlotAt(i - 1)] ELSE elem[SlotAt(i)]
    OBVIOUS
  <2>1. pos = head + k
    BY <1>1, <1>3, TailAt DEF SlotAt, Slots
  <2>2. SlotAt(i) \in Slots
    BY <1>1 DEF SlotAt, Slots
  <2>3. ShiftedOver(pos)[SlotAt(i)] =
          IF head < SlotAt(i) /\ SlotAt(i) <= pos THEN elem[SlotAt(i) - 1]
          ELSE elem[SlotAt(i)]
    BY <1>1, <1>3, <2>2 DEF ShiftedOver
  <2>4. CASE i <= k
    <3>1. SlotAt(i) = head + i /\ SlotAt(i - 1) = head + i - 1
      BY <1>1, <2>1, <2>4 DEF SlotAt, Slots
    <3> QED BY <1>1, <2>1, <2>3, <2>4, <3>1 DEF Slots
  <2>5. CASE ~(i <= k)
    <3>1. ~(head < SlotAt(i) /\ SlotAt(i) <= pos)
      BY <1>1, <2>1, <2>5 DEF SlotAt, Slots
    <3> QED BY <2>3, <2>5, <3>1
  <2> QED BY <2>4, <2>5
<1>4. CASE pos # head /\ ~(head < tail \/ pos >= head)
  <2> SUFFICES ASSUME NEW i \in 1..(count - 1)
               PROVE  ShiftedOver(pos)[SlotAt(i)] =
                        IF i <= k THEN elem[SlotAt(i - 1)] ELSE elem[SlotAt(i)]
    OBVIOUS
  <2>1. head > tail /\ pos < head /\ pos = head + k - Depth
    BY <1>1, <1>4 DEF SlotAt, Slots
  <2>2. SlotAt(i) \in Slots
    BY <1>1 DEF SlotAt, Slots
  <2>3. ShiftedOver(pos)[SlotAt(i)] =
          CASE SlotAt(i) = 0                        -> elem[Depth - 1]
            [] 0 < SlotAt(i) /\ SlotAt(i) <= pos    -> elem[SlotAt(i) - 1]
            [] head < SlotAt(i)                     -> elem[SlotAt(i) - 1]
            [] OTHER                                -> elem[SlotAt(i)]
    BY <1>1, <1>4, <2>2 DEF ShiftedOver
  <2>4. CASE head + i < Depth
    BY <1>1, <2>1, <2>3, <2>4 DEF SlotAt, Slots
  <2>5. CASE head + i = Depth
    BY <1>1, <2>1, <2>3, <2>5 DEF SlotAt, Slots
  <2>6. CASE head + i > Depth
    <3>1. SlotAt(i) = head + i - Depth /\ SlotAt(i) > 0 /\ ~(head < SlotAt(i))
      BY <1>1, <2>6 DEF SlotAt, Slots
    <3>2. CASE i <= k
      BY <1>1, <2>1, <2>3, <2>6, <3>1, <3>2 DEF SlotAt, Slots
    <3>3. CASE ~(i <= k)
      BY <1>1, <2>1, <2>3, <2>6, <3>1, <3>3 DEF SlotAt, Slots
    <3> QED BY <3>2, <3>3
  <2> QED BY <1>1, <2>4, <2>5, <2>6 DEF Slots
<1> QED BY <1>2, <1>3, <1>4
-------
\* remove_this takes out the first occurrence of the named element and keeps the
\* others in order; on a full ring it only ever finds the oldest.
LEMMA RemoveThisFinds ==
    ASSUME IndInv, IndInv', NEW v \in Elems, Queued(v), RemoveThisLocked(v)
    PROVE  F!TakeOut(v) /\ UNCHANGED Owed
<1> USE DepthAssumption
<1> DEFINE S == Elems \cup {NULL}
<1>2. count \in 1..Depth /\ head \in Slots
  BY DEF Queued, IndInv, TypeOK
<1>0. count' \in 0..Depth /\ Owed = 0 /\ Owed' = 0
  BY <1>2 DEF RemoveThisLocked, RemoveThisFound, RemoveThisMissing, Owed
<1>1. Contents \in Seq(S) /\ Len(Contents) = count /\ Contents' \in Seq(S)
      /\ Len(Contents') = count'
  BY <1>0, <1>2, ContentsType, ContentsTypePrime
<1>3. SlotAt(0) = head
  BY <1>2 DEF SlotAt, Slots
<1>4. \A i \in 1..count : Contents[i] = elem[SlotAt(i - 1)]
  BY ContentsType
<1>5. /\ count < Depth => ScanLength = count + 1
      /\ count = Depth => ScanLength = 1
  BY <1>2, ScanLengthType DEF IndInv
<1>6. CASE RemoveThisFound(v)
  <2>1. PICK k \in 0..Depth :
           /\ FirstMatch(v, k)
           /\ count' = count - 1
           /\ elem' = ShiftedOver(SlotAt(k))
           /\ head' = IF SlotAt(k) # head /\ head = tail THEN head
                      ELSE NextSlot(head)
           /\ ret' = v
           /\ UNCHANGED tail
    BY <1>6 DEF RemoveThisFound
  <2>2. k \in 0..(count - 1) /\ (count = Depth => k = 0)
    <3>1. CASE count = Depth
      BY <1>2, <1>5, <2>1, <3>1 DEF FirstMatch
    <3>2. CASE count < Depth
      <4>1. PICK i \in 1..count : Contents[i] = v
        BY DEF Queued
      <4>2. elem[SlotAt(i - 1)] = v
        BY <1>4, <4>1
      <4>3. ~(i - 1 \in 0..(k - 1))
        BY <2>1, <4>2 DEF FirstMatch
      <4> QED BY <1>2, <3>2, <4>3
    <3> QED BY <1>2, <3>1, <3>2
  <2>3. elem[SlotAt(k)] = v /\ \A j \in 0..(k - 1) : elem[SlotAt(j)] # v
    BY <2>1 DEF FirstMatch
  <2>4. F!FirstAt(Contents, v, k + 1)
    <3>1. k + 1 \in 1..Len(Contents) /\ Contents[k + 1] = v
      BY <1>1, <1>2, <1>4, <2>2, <2>3
    <3>2. \A j \in 1..k : Contents[j] # v
      BY <1>2, <1>4, <2>2, <2>3
    <3> QED BY <2>2, <3>1, <3>2 DEF F!FirstAt
  <2>5. head' = NextSlot(head)
    <3>1. CASE count = Depth
      BY <1>3, <2>1, <2>2, <3>1
    <3>2. CASE count < Depth
      BY <1>2, <2>1, <3>2, TailAt DEF Slots
    <3> QED BY <1>2, <3>1, <3>2
  <2>6. \A i \in 1..(count - 1) : Contents'[i] = elem'[SlotAt(i)]
    <3>1. \A i \in 1..Depth : SlotAt(i - 1)' = SlotAt(i)
      BY <2>5, HeadMoves
    <3>2. \A i \in 1..count' : Contents'[i] = elem'[SlotAt(i - 1)']
      BY ContentsTypePrime
    <3>3. count' = count - 1 /\ 1..(count - 1) \subseteq 1..Depth
      BY <1>2, <2>1
    <3> QED BY <3>1, <3>2, <3>3
  <2>7. \A i \in 1..(count - 1) :
          elem'[SlotAt(i)] = IF i <= k THEN elem[SlotAt(i - 1)]
                             ELSE elem[SlotAt(i)]
    <3>1. CASE count = Depth
      BY <1>3, <2>1, <2>2, <3>1 DEF ShiftedOver
    <3>2. CASE count < Depth
      BY <1>2, <2>1, <2>2, <3>2, ShiftKeepsOrder
    <3> QED BY <1>2, <3>1, <3>2
  <2>8. \A i \in 1..(count - 1) :
          Contents'[i] = IF i < k + 1 THEN Contents[i] ELSE Contents[i + 1]
    <3>1. \A i \in 1..(count - 1) : Contents[i] = elem[SlotAt(i - 1)]
      BY <1>2, <1>4
    <3>2. \A i \in 1..(count - 1) : Contents[i + 1] = elem[SlotAt(i)]
      BY <1>2, <1>4
    <3> QED BY <1>2, <2>2, <2>6, <2>7, <3>1, <3>2
  <2>9. Contents' = F!Without(Contents, k + 1)
    <3>1. Contents' = [i \in 1..(count - 1) |-> Contents'[i]]
      BY <1>1, <2>1
    <3> QED BY <1>1, <2>8, <3>1 DEF F!Without
  <2>10. k + 1 \in 1..Len(Contents)
    BY <2>4 DEF F!FirstAt
  <2>11. Len(Contents) < Depth \/ k + 1 = 1
    BY <1>1, <1>2, <2>2
  <2> QED BY <1>0, <2>1, <2>4, <2>9, <2>10, <2>11 DEF F!TakeOut
<1>7. CASE RemoveThisMissing(v)
  <2>1. count = Depth
    <3>1. SUFFICES ASSUME count < Depth PROVE FALSE
      BY <1>2
    <3>2. PICK i \in 1..count : Contents[i] = v
      BY DEF Queued
    <3>3. elem[SlotAt(i - 1)] = v /\ i - 1 \in 0..(ScanLength - 1)
      BY <1>2, <1>4, <1>5, <3>1, <3>2
    <3> QED BY <1>7, <3>3 DEF RemoveThisMissing
  <2>2. elem[SlotAt(0)] # v
    BY <1>5, <1>7, <2>1 DEF RemoveThisMissing
  <2>3. Contents[1] # v
    BY <1>2, <1>4, <2>2
  <2>4. Contents' = Contents
    BY <1>7 DEF RemoveThisMissing, Contents, SlotAt
  <2> QED BY <1>0, <1>1, <1>7, <2>1, <2>3, <2>4 DEF F!TakeOut, RemoveThisMissing
<1> QED BY <1>6, <1>7 DEF RemoveThisLocked

\* Of a pointer that is not queued remove_this returns NULL, or it matches the slot past the
\* last element: the newest element is lost, or, on an empty ring, one more is owed.
LEMMA RemoveThisMisses ==
    ASSUME IndInv, IndInv', NEW v \in Elems, ~Queued(v), RemoveThisLocked(v)
    PROVE  F!Miss(v)
<1> USE DepthAssumption
<1>1. \A i \in 1..Len(Contents) : Contents[i] # v
  <2>1. CASE count > 0
    BY <2>1, ContentsType DEF Queued, IndInv, TypeOK
  <2>2. CASE count <= 0
    BY <2>2, ContentsType
  <2> QED BY <2>1, <2>2 DEF IndInv, TypeOK
<1>2. CASE RemoveThisMissing(v)
  <2>1. Contents' = Contents /\ Owed' = Owed
    BY <1>2 DEF RemoveThisMissing, Contents, SlotAt, Owed
  <2> QED BY <1>1, <1>2, <2>1 DEF F!Miss, RemoveThisMissing
<1>3. CASE RemoveThisFound(v)
  <2>1. PICK k \in 0..Depth :
           /\ FirstMatch(v, k)
           /\ count' = count - 1
           /\ elem' = ShiftedOver(SlotAt(k))
           /\ head' = IF SlotAt(k) # head /\ head = tail THEN head
                      ELSE NextSlot(head)
           /\ ret' = v
           /\ UNCHANGED tail
    BY <1>3 DEF RemoveThisFound
  <2>2. CASE count <= 0
    <3>1. count' < 0 /\ Owed' = Owed + 1
      BY <2>1, <2>2 DEF Owed, IndInv, TypeOK
    <3>2. Contents = <<>> /\ Contents' = <<>>
      BY <2>2, <3>1, ContentsType, ContentsTypePrime DEF IndInv, TypeOK
    <3> QED BY <1>1, <2>1, <3>1, <3>2 DEF F!Miss
  <2>3. CASE count > 0
    <3>1. count \in 1..Depth /\ count' \in 0..Depth /\ Owed' = 0 /\ Owed = 0 /\ head \in Slots
      BY <2>1, <2>3 DEF IndInv, TypeOK, Owed
    <3>2. /\ Contents \in Seq(Elems \cup {NULL}) /\ Len(Contents) = count
          /\ Contents' \in Seq(Elems \cup {NULL}) /\ Len(Contents') = count - 1
          /\ \A i \in 1..count : Contents[i] = elem[SlotAt(i - 1)]
      BY <2>1, <3>1, ContentsType, ContentsTypePrime
    <3>3. elem[SlotAt(k)] = v /\ k \in 0..(ScanLength - 1)
      BY <2>1 DEF FirstMatch
    <3>4. ~(k < count)
      <4>1. k < count => k + 1 \in 1..count /\ Contents[k + 1] = elem[SlotAt(k)]
        BY <3>1, <3>2
      <4> QED BY <3>3, <4>1 DEF Queued
    <3>5. count < Depth /\ k = count
      BY <3>1, <3>3, <3>4, ScanLengthType DEF IndInv
    <3>6. head' = NextSlot(head)
      BY <2>1, <3>1, <3>5, TailAt DEF Slots
    <3>7. \A i \in 1..(count - 1) : Contents'[i] = Contents[i]
      <4>1. \A i \in 1..(count - 1) : Contents'[i] = elem'[SlotAt(i)]
        <5>1. \A i \in 1..Depth : SlotAt(i - 1)' = SlotAt(i)
          BY <3>6, HeadMoves
        <5>2. \A i \in 1..count' : Contents'[i] = elem'[SlotAt(i - 1)']
          BY ContentsTypePrime
        <5> QED BY <2>1, <3>1, <5>1, <5>2
      <4>2. \A i \in 1..(count - 1) : elem'[SlotAt(i)] = elem[SlotAt(i - 1)]
        <5>1. 0 < count /\ count < Depth /\ k \in 0..count
          BY <3>1, <3>5
        <5>2. \A i \in 1..(count - 1) : ShiftedOver(SlotAt(k))[SlotAt(i)] =
                 IF i <= k THEN elem[SlotAt(i - 1)] ELSE elem[SlotAt(i)]
          BY <5>1, ShiftKeepsOrder
        <5>3. \A i \in 1..(count - 1) : i <= k
          BY <3>1, <3>5
        <5>4. elem' = ShiftedOver(SlotAt(k))
          BY <2>1
        <5> HIDE DEF ShiftedOver
        <5> QED BY <5>2, <5>3, <5>4
      <4>3. \A i \in 1..(count - 1) : i \in 1..count
        BY <3>1
      <4>4. \A i \in 1..(count - 1) : Contents[i] = elem[SlotAt(i - 1)]
        BY <3>2, <4>3
      <4> QED BY <4>1, <4>2, <4>4
    <3>8. Contents' = F!Without(Contents, count)
      <4>1. Contents' = [i \in 1..(count - 1) |-> Contents'[i]]
        BY <3>2
      <4>2. F!Without(Contents, count) = [i \in 1..(count - 1) |-> Contents[i]]
        BY <3>1, <3>2 DEF F!Without
      <4> QED BY <3>7, <4>1, <4>2
    <3>9. Contents # <<>> /\ Len(Contents) < Depth
      BY <3>1, <3>2, <3>5
    <3> QED BY <1>1, <2>1, <3>1, <3>2, <3>8, <3>9 DEF F!Miss
  <2> QED BY <2>2, <2>3 DEF IndInv, TypeOK
<1> QED BY <1>2, <1>3 DEF RemoveThisLocked

\* Every call of the ring is one of the list.
LEMMA StepRefines ==
    ASSUME IndInv, RingStep
    PROVE  [F!Next]_(F!fifoVars)
<1>0. IndInv'
  BY StepInd
<1>1. ASSUME NEW v \in Elems, iscsi_queue_insert(v) PROVE F!Next
  BY <1>0, <1>1, InsertRefines DEF F!Next
<1>2. ASSUME iscsi_queue_remove PROVE F!Next
  BY <1>0, <1>2, RemoveRefines DEF F!Next
<1>3. ASSUME NEW v \in Elems, RemoveThisLocked(v) PROVE F!Next
  <2>1. F!RemoveThis(v)
    BY <1>0, <1>3, RemoveThisFinds, RemoveThisMisses DEF F!RemoveThis
  <2> QED BY <2>1 DEF F!Next
<1>4. CASE UNCHANGED ringVars
  BY <1>4 DEF ringVars, F!fifoVars, Contents, SlotAt, Owed
<1> QED BY <1>1, <1>2, <1>3, <1>4 DEF RingStep

-----------------------------------------------------------------------------
(***************************************************************************)
(* What the callers of initiator_command, the signal handler and the threads *)
(* of the session do to the ring                                             *)
(***************************************************************************)

\* A step of the program is at most one call of the ring, of an element.
LEMMA RingSteps ==
    ASSUME use \in Uses, [ANext]_alarmVars
    PROVE  RingStep /\ use' = use
<1>0. use.callers \subseteq Elems
  BY UsesAssumption
<1>1. ASSUME NEW c \in use.callers, Begin(c) PROVE RingStep
  BY <1>0, <1>1 DEF Begin, RingStep, iscsi_queue_insert
<1>2. ASSUME NEW c \in use.callers, RemoveScan(c) PROVE RingStep
  BY <1>0, <1>2 DEF RemoveScan, RingStep, RemoveThisLocked
<1>3. ASSUME AlarmRings PROVE RingStep
  BY <1>3 DEF AlarmRings, RingStep
<1>4. \/ UNCHANGED ringVars \/ AlarmRings
      \/ \E c \in use.callers : Begin(c) \/ RemoveScan(c)
  BY DEF ANext, CallerStep, EnqueueFails, initiator_enqueue, Wake, RemoveCheck, SessionStep, TxTake,
     TxSend, RxHeader, RxDone, AnswerLost, AlarmStep, AbortMark, AbortDone, alarmVars
<1>5. use' = use
  BY DEF ANext, alarmVars
<1> QED BY <1>1, <1>2, <1>3, <1>4, <1>5 DEF RingStep

\* The ring's own invariant, with the way the process uses it
RingOK == use \in Uses /\ IndInv

LEMMA InitRingOK == AInit => RingOK
  BY InitInd DEF AInit, RingOK

LEMMA NextRingOK == RingOK /\ [ANext]_alarmVars => RingOK'
  BY RingSteps, StepInd DEF RingOK

\* Whatever the threads and the signal handler do, and however late an answer is, the tail
\* is count slots past the head: of a ring of any capacity, any number of threads and calls
\* (util.c 241-393, initiator.c 1089-1168).
THEOREM RingIndices == ASpec => []RingInv
<1>1. RingOK => RingInv
  BY DEF RingOK, IndInv
<1> QED BY InitRingOK, NextRingOK, <1>1, PTL DEF ASpec

\* The alarm queue implements the bounded FIFO list of Fifo.tla, with the search of
\* remove_this split from its look at the depth and an alarm between them: no thread sees
\* anything of the wrap-around, and what a search for a command that is gone does is a Miss.
THEOREM RingImplementsFifo == ASpec => FifoSpec
<1>1. AInit => F!Init
  <2> SUFFICES ASSUME AInit PROVE F!Init
    OBVIOUS
  <2>1. IndInv /\ count = 0 /\ ret = NULL
    BY InitInd DEF AInit, Init
  <2>2. Contents = <<>> /\ Owed = 0
    BY <2>1, ContentsType DEF Owed
  <2> QED BY <2>1, <2>2 DEF F!Init
<1>2. RingOK /\ [ANext]_alarmVars => [F!Next]_(F!fifoVars)
  BY RingSteps, StepRefines DEF RingOK
<1> QED BY InitRingOK, NextRingOK, <1>1, <1>2, PTL DEF ASpec, FifoSpec, F!Spec

-----------------------------------------------------------------------------
(***************************************************************************)
(* Its use as the alarm queue                                                *)
(***************************************************************************)

Active == {c \in Callers : pc[c] # "idle"}

\* The alarm queue holds the command of every call in progress once, and no other.
Entries ==
    /\ \A i, j \in 1..count : Contents[i] = Contents[j] => i = j
    /\ \A i \in 1..count : Contents[i] \in Active
    /\ \A c \in Active : Queued(c)
    /\ IsFiniteSet(Active) /\ count = Cardinality(Active)

\* Nobody aborts.
NoAbort == handler = NULL /\ aborted = [c \in Callers |-> FALSE]

CalmInv ==
    /\ IndInv /\ Entries /\ NoAbort /\ ~exited
    /\ DOMAIN pc = Callers /\ Active \subseteq use.callers

AlarmInv == use \in Uses /\ (use.faults = {} => CalmInv)

\* While every answer comes in time no pointer is owed.
LEMMA Calm0 == CalmInv => count \in Nat
<1> SUFFICES ASSUME CalmInv PROVE count \in Nat
  OBVIOUS
<1> QED BY FS_CardinalityType DEF CalmInv, Entries

\* A use has callers that are elements, and they leave a slot to spare.
LEMMA Spare ==
    ASSUME AlarmInv, use.faults = {}
    PROVE  count < Depth /\ use.callers \subseteq Callers
<1>1. IsFiniteSet(use.callers) /\ Cardinality(use.callers) < Depth /\ use.callers \subseteq Callers
  BY RoomAssumption, UsesAssumption DEF AlarmInv, Callers
<1>2. Cardinality(Active) <= Cardinality(use.callers)
  BY <1>1, FS_Subset DEF AlarmInv, CalmInv
<1>3. Cardinality(Active) \in Nat /\ Cardinality(use.callers) \in Nat
  BY <1>1, FS_CardinalityType DEF AlarmInv, CalmInv, Entries
<1> QED BY <1>1, <1>2, <1>3, DepthAssumption DEF AlarmInv, CalmInv, Entries

\* Steps that leave the ring and the calls in progress alone
LEMMA CalmFrame ==
    ASSUME CalmInv, UNCHANGED <<head, tail, count, elem, use>>, IndInv', NoAbort', ~exited',
           DOMAIN pc' = Callers, \A c \in Callers : pc'[c] = "idle" <=> pc[c] = "idle"
    PROVE  CalmInv'
<1>1. Active' = Active
  BY DEF Active
<1>2. Contents' = Contents
  BY DEF Contents, SlotAt
<1>3. Entries'
  BY <1>1, <1>2 DEF CalmInv, Entries, Queued
<1> QED BY <1>1, <1>3 DEF CalmInv

\* QUEUE_INSERT_ELSE appends the call's command.
LEMMA BeginKeeps ==
    ASSUME AlarmInv, use.faults = {}, NEW c \in use.callers, Begin(c), UNCHANGED use
    PROVE  CalmInv'
<1> USE DEF AlarmInv, CalmInv
<1>1. c \in Callers /\ c \notin Active
  BY Spare DEF Begin, Active
<1>2. iscsi_queue_insert(c) /\ UNCHANGED <<aborted, handler, exited>>
  BY DEF Begin, iscsi_queue_insert, cmdVars, sigVars
<1>3. RingStep
  BY <1>1, <1>2 DEF RingStep, Callers
<1>4. IndInv'
  BY <1>3, StepInd
<1>5. InsertOk(c) /\ pc' = [pc EXCEPT ![c] = "enqueue"]
  BY Spare DEF Begin, InsertFull, iscsi_queue_full, Goto, IndInv, TypeOK
<1>6. Contents' = Append(Contents, c) /\ Contents \in Seq(Elems \union {NULL}) /\ Len(Contents) = count
  <2>1. F!Insert(c)
    BY <1>1, <1>2, <1>4, InsertRefines DEF Callers
  <2>2. Contents \in Seq(Elems \union {NULL}) /\ Len(Contents) = count
    BY ContentsType, Calm0
  <2> QED BY <2>1, <2>2, Spare, Calm0 DEF F!Insert, IndInv, TypeOK, Owed
<1>7. count' = count + 1 /\ count \in Nat
  BY <1>5, Calm0 DEF InsertOk
<1>8. /\ \A i \in 1..count : Contents'[i] = Contents[i]
      /\ Contents'[count + 1] = c
  BY <1>6, <1>7
<1>9. Active' = Active \union {c} /\ DOMAIN pc' = Callers
  BY <1>1, <1>5 DEF Active
<1>10. IsFiniteSet(Active') /\ Cardinality(Active') = count'
  BY <1>1, <1>7, <1>9, FS_AddElement DEF Entries
<1>11. Entries'
  <2>1. \A i \in 1..count : Contents[i] # c
    BY <1>1 DEF Entries
  <2>2. 1..count' = (1..count) \union {count + 1}
    BY <1>7
  <2>3. \A i, j \in 1..count' : Contents'[i] = Contents'[j] => i = j
    BY <1>8, <2>1, <2>2 DEF Entries
  <2>4. \A i \in 1..count' : Contents'[i] \in Active'
    BY <1>8, <1>9, <2>2 DEF Entries
  <2>5. \A d \in Active' : Queued(d)'
    BY <1>8, <1>9, <2>2 DEF Entries, Queued
  <2> QED BY <1>10, <2>3, <2>4, <2>5 DEF Entries
<1> QED BY <1>2, <1>4, <1>9, <1>11 DEF NoAbort

\* QUEUE_REMOVE_THIS_ELSE finds the call's command and takes it out.
LEMMA RemoveKeeps ==
    ASSUME AlarmInv, use.faults = {}, NEW c \in use.callers, RemoveScan(c), UNCHANGED use
    PROVE  CalmInv'
<1> USE DEF AlarmInv, CalmInv
<1>1. c \in Active /\ c \in Elems
  BY Spare DEF RemoveScan, Active, Callers
<1>2. count \in 1..Depth /\ count < Depth /\ Queued(c)
  BY <1>1, Spare, Calm0 DEF Entries, Queued, IndInv, TypeOK
<1>3. PICK n \in 1..count : Contents[n] = c
  BY <1>2 DEF Queued
<1>4. ~RemoveThisMissing(c)
  <2>1. ScanLength = count + 1
    BY <1>2, ScanLengthType, DepthAssumption DEF IndInv
  <2>2. Contents[n] = elem[SlotAt(n - 1)]
    BY <1>2, <1>3, ContentsType
  <2>3. n - 1 \in 0..(ScanLength - 1)
    BY <1>2, <2>1
  <2> QED BY <1>3, <2>2, <2>3 DEF RemoveThisMissing
<1>5. /\ RemoveThisFound(c) /\ UNCHANGED <<aborted, handler, exited>>
      /\ pc' = [pc EXCEPT ![c] = "idle"]
  BY <1>4 DEF RemoveScan, Goto, cmdVars, sigVars
<1>6. RemoveThisLocked(c)
  BY <1>5 DEF RemoveThisLocked
<1>7. IndInv'
  BY <1>1, <1>2, <1>6, StepInd DEF RingStep
<1>8. PICK k \in 1..count : /\ Contents[k] = c /\ Contents' = F!Without(Contents, k)
                            /\ Len(Contents) = count
  <2>1. F!TakeOut(c)
    BY <1>1, <1>2, <1>6, <1>7, RemoveThisFinds
  <2>2. Len(Contents) = count
    BY <1>2, ContentsType
  <2> QED BY <1>2, <2>1, <2>2 DEF F!TakeOut, F!FirstAt
<1>9. count' = count - 1
  BY <1>5 DEF RemoveThisFound
<1>10. \A i \in 1..count' : Contents'[i] = IF i < k THEN Contents[i] ELSE Contents[i + 1]
  BY <1>8, <1>9 DEF F!Without
<1>11. \A i \in 1..count : i # k => Contents[i] # c
  BY <1>8 DEF Entries
<1>12. Active' = Active \ {c} /\ DOMAIN pc' = Callers
  BY <1>1, <1>5 DEF Active
<1>13. IsFiniteSet(Active') /\ Cardinality(Active') = count'
  BY <1>1, <1>9, <1>12, FS_RemoveElement DEF Entries
<1>14. Entries'
  <2>1. ASSUME NEW i \in 1..count', NEW j \in 1..count', Contents'[i] = Contents'[j] PROVE i = j
    <3>1. PICK a \in 1..count, b \in 1..count :
             /\ Contents'[i] = Contents[a] /\ Contents'[j] = Contents[b]
             /\ a = IF i < k THEN i ELSE i + 1
             /\ b = IF j < k THEN j ELSE j + 1
      BY <1>2, <1>9, <1>10
    <3>2. a = b
      BY <2>1, <3>1 DEF Entries
    <3> QED BY <1>2, <1>9, <3>1, <3>2
  <2>2. ASSUME NEW i \in 1..count' PROVE Contents'[i] \in Active'
    <3>1. PICK a \in 1..count : Contents'[i] = Contents[a] /\ a # k
      BY <1>2, <1>9, <1>10
    <3> QED BY <1>11, <1>12, <3>1 DEF Entries
  <2>3. ASSUME NEW d \in Active' PROVE Queued(d)'
    <3>1. PICK a \in 1..count : Contents[a] = d /\ a # k
      BY <1>8, <1>12 DEF Entries, Queued
    <3>2. PICK i \in 1..count' : Contents'[i] = Contents[a]
      <4>1. CASE a < k
        BY <1>2, <1>9, <1>10, <4>1
      <4>2. CASE a > k
        <5>1. a - 1 \in 1..count' /\ ~(a - 1 < k) /\ (a - 1) + 1 = a
          BY <1>2, <1>9, <4>2
        <5> QED BY <1>10, <5>1
      <4> QED BY <3>1, <4>1, <4>2
    <3> QED BY <3>1, <3>2 DEF Queued
  <2> QED BY <1>13, <2>1, <2>2, <2>3 DEF Entries
<1> QED BY <1>5, <1>7, <1>12, <1>14 DEF NoAbort

LEMMA SameRing == IndInv /\ UNCHANGED ringVars => IndInv'
  BY StepInd DEF RingStep

\* The rest of a call; only the look at an empty queue could end the process.
LEMMA CallKeeps ==
    ASSUME AlarmInv, use.faults = {}, NEW c \in use.callers, UNCHANGED use,
           initiator_enqueue(c) \/ Wake(c) \/ RemoveCheck(c)
    PROVE  CalmInv'
<1> USE DEF AlarmInv, CalmInv
<1>1. UNCHANGED ringVars /\ UNCHANGED handler /\ c \in Callers
  BY Spare DEF initiator_enqueue, Wake, RemoveCheck, sigVars
<1>2. IndInv' /\ UNCHANGED <<head, tail, count, elem>>
  BY <1>1, SameRing DEF ringVars
<1>3. NoAbort'
  BY <1>1 DEF initiator_enqueue, Wake, RemoveCheck, NoAbort, cmdVars
<1>4. pc[c] # "idle" /\ \E l \in {"wait", "remove", "scan"} : pc' = [pc EXCEPT ![c] = l]
  BY <1>1 DEF initiator_enqueue, Wake, RemoveCheck, Goto, NoAbort
<1>5. DOMAIN pc' = Callers /\ \A d \in Callers : pc'[d] = "idle" <=> pc[d] = "idle"
  BY <1>1, <1>4
<1>6. ~exited'
  <2>1. count # 0
    BY <1>1, <1>4 DEF Entries, Active, Queued
  <2> QED BY <2>1 DEF initiator_enqueue, Wake, RemoveCheck
<1> QED BY <1>2, <1>3, <1>5, <1>6, CalmFrame

\* The session's threads; the alarm clock does not ring.
LEMMA SessionKeeps ==
    ASSUME AlarmInv, use.faults = {}, UNCHANGED use,
           \/ SessionStep \/ AlarmStep
           \/ \E t \in wire : AnswerLost(t)
           \/ \E c \in use.callers : EnqueueFails(c)
    PROVE  CalmInv'
<1> USE DEF AlarmInv, CalmInv
<1>1. SessionStep
  BY DEF AlarmStep, AlarmRings, AbortMark, AbortDone, AnswerLost, EnqueueFails, NoAbort
<1>2. UNCHANGED <<ringVars, pc, aborted, handler, exited>>
  BY <1>1 DEF SessionStep, TxTake, TxSend, RxHeader, RxDone, cmdVars, sigVars
<1>3. IndInv' /\ UNCHANGED <<head, tail, count, elem>>
  BY <1>2, SameRing DEF ringVars
<1> QED BY <1>2, <1>3, CalmFrame DEF NoAbort

LEMMA InitAlarm == AInit => AlarmInv
<1> SUFFICES ASSUME AInit PROVE AlarmInv
  OBVIOUS
<1>1. IndInv /\ count = 0
  BY InitInd DEF AInit, Init
<1>2. Active = {}
  BY DEF AInit, Active
<1>3. Entries
  BY <1>1, <1>2, FS_EmptySet DEF Entries
<1> QED BY <1>1, <1>2, <1>3 DEF AInit, AlarmInv, CalmInv, NoAbort

LEMMA NextAlarm == AlarmInv /\ [ANext]_alarmVars => AlarmInv'
<1> SUFFICES ASSUME AlarmInv, [ANext]_alarmVars PROVE AlarmInv'
  OBVIOUS
<1>1. UNCHANGED use
  BY DEF ANext, alarmVars
<1> SUFFICES ASSUME use.faults = {} PROVE CalmInv'
  BY <1>1 DEF AlarmInv
<1>2. CASE UNCHANGED alarmVars
  <2>1. UNCHANGED ringVars /\ UNCHANGED <<pc, aborted, handler, exited>>
    BY <1>2 DEF alarmVars, cmdVars, sigVars
  <2>2. IndInv' /\ UNCHANGED <<head, tail, count, elem>>
    BY <2>1, SameRing DEF ringVars, AlarmInv, CalmInv
  <2> QED BY <1>1, <2>1, <2>2, CalmFrame DEF AlarmInv, CalmInv, NoAbort
<1>3. CASE ANext
  BY <1>1, <1>3, BeginKeeps, RemoveKeeps, CallKeeps, SessionKeeps DEF ANext, CallerStep
<1> QED BY <1>2, <1>3

\* A call that got its answer finds its command on the alarm queue: initiator_command
\* never calls exit(1) while no answer is late.
THEOREM CallsFound == ASpec => []NeverExits
<1>1. AlarmInv => NeverExits
  BY DEF AlarmInv, CalmInv, NeverExits
<1> QED BY InitAlarm, NextAlarm, <1>1, PTL DEF ASpec

-----------------------------------------------------------------------------
(***************************************************************************)
(* Types, whatever happens                                                   *)
(***************************************************************************)

Tagged == {c \in Callers : tag[c] # 0}
Tags == Tagged \X (1..use.most)

Calls ==
    /\ pc \in [Callers -> {"idle", "enqueue", "wait", "remove", "scan"}]
    /\ calls \in [Callers -> 0..use.most] /\ tag \in [Callers -> 0..use.most]
    /\ \A c \in Callers : pc[c] = "enqueue" => calls[c] # 0

\* A command that the session has, or has sent, got a tag.
Session ==
    /\ txq \subseteq Tagged /\ tx \in Tagged \union {NULL} /\ rx \in Tagged \union {NULL}
    /\ handler \in Callers \union {NULL}
    /\ hash \subseteq Tags /\ wire \subseteq Tags

Flags ==
    /\ aborted \in [Callers -> BOOLEAN] /\ done \in [Callers -> BOOLEAN]
    /\ rxUp \in BOOLEAN /\ armed \in BOOLEAN /\ marked \in BOOLEAN /\ exited \in BOOLEAN

TypeInv == RingOK /\ Calls /\ Session /\ Flags

LEMMA TagType ==
    ASSUME use \in Uses, Calls, NEW c \in Tagged
    PROVE  Tag(c) \in Tags
  BY UsesAssumption DEF Calls, Tagged, Tag, Tags

LEMMA InitTypes == AInit => TypeInv
<1> SUFFICES ASSUME AInit PROVE TypeInv
  OBVIOUS
<1>1. RingOK
  BY InitRingOK
<1>2. Calls
  BY UsesAssumption DEF AInit, Calls
<1>3. Session
  BY DEF AInit, Session
<1>4. Flags
  BY DEF AInit, Flags
<1> QED BY <1>1, <1>2, <1>3, <1>4 DEF TypeInv, AInit

LEMMA CallTypes ==
    ASSUME TypeInv, ANext
    PROVE  Calls' /\ Tagged \subseteq Tagged'
<1>0. use.most \in Nat /\ use' = use
  BY UsesAssumption DEF TypeInv, RingOK, ANext
<1> USE <1>0 DEF TypeInv, RingOK, Calls
<1>1. CASE UNCHANGED <<pc, calls, tag>>
  BY <1>1 DEF Tagged
<1>2. ASSUME NEW c \in use.callers,
             Begin(c) \/ EnqueueFails(c) \/ CallerStep(c)
      PROVE  Calls' /\ Tagged \subseteq Tagged'
  <2>1. c \in Callers
    BY UsesAssumption DEF Callers
  <2>2. CASE Begin(c)
    BY <2>1, <2>2 DEF Begin, Goto, cmdVars, Tagged
  <2>3. CASE initiator_enqueue(c)
    BY <2>1, <2>3 DEF initiator_enqueue, Goto, Tagged
  <2>4. CASE Wake(c)
    BY <2>1, <2>4 DEF Wake, Goto, cmdVars, Tagged
  <2>5. CASE EnqueueFails(c) \/ RemoveCheck(c) \/ RemoveScan(c)
    BY <2>1, <2>5 DEF EnqueueFails, RemoveCheck, RemoveScan, Goto, cmdVars, Tagged
  <2> QED BY <1>2, <2>2, <2>3, <2>4, <2>5 DEF CallerStep
<1>3. \/ UNCHANGED <<pc, calls, tag>>
      \/ \E c \in use.callers : Begin(c) \/ EnqueueFails(c) \/ CallerStep(c)
  BY DEF ANext, SessionStep, TxTake, TxSend, RxHeader, RxDone, AnswerLost, AlarmStep, AlarmRings,
     AbortMark, AbortDone, cmdVars
<1> QED BY <1>1, <1>2, <1>3

LEMMA SessionTypes ==
    ASSUME TypeInv, ANext
    PROVE  Session'
<1> USE DEF TypeInv, RingOK, Session
<1>1. Tagged \subseteq Tagged' /\ Tags \subseteq Tags'
  BY CallTypes DEF Tags, ANext
<1>2. CASE UNCHANGED <<txq, tx, rx, handler, hash, wire>>
  BY <1>1, <1>2
<1>3. ASSUME NEW c \in use.callers, initiator_enqueue(c) PROVE Session'
  <2>1. c \in Tagged'
    BY <1>3, UsesAssumption DEF initiator_enqueue, Tagged, Callers, Calls
  <2> QED BY <1>1, <1>3, <2>1 DEF initiator_enqueue, sigVars
<1>4. ASSUME NEW c \in Callers, TxTake(c) PROVE Session'
  BY <1>1, <1>4 DEF TxTake, sigVars
<1>5. CASE TxSend
  <2>1. Tag(tx) \in Tags
    BY <1>5, TagType DEF TxSend
  <2> QED BY <1>1, <1>5, <2>1 DEF TxSend, sigVars
<1>6. ASSUME NEW t \in wire, RxHeader(t) \/ AnswerLost(t) PROVE Session'
  <2>1. CASE RxHeader(t) /\ ~UNCHANGED rx
    <3>1. rx' = t[1] /\ t \in hash
      BY <2>1 DEF RxHeader
    <3>2. t[1] \in Tagged
      BY DEF Tags
    <3> QED BY <1>1, <2>1, <3>1, <3>2 DEF RxHeader, sigVars, Tags
  <2>2. CASE UNCHANGED rx
    BY <1>1, <1>6, <2>2 DEF RxHeader, AnswerLost, sigVars
  <2> QED BY <1>6, <2>1, <2>2 DEF AnswerLost
<1>7. CASE RxDone
  BY <1>1, <1>7 DEF RxDone, sigVars
<1>8. CASE AlarmRings
  <2>1. ret' \in Elems \union {NULL}
    BY <1>8 DEF AlarmRings, iscsi_queue_remove, RemoveEmpty, RemoveOldest, IndInv, TypeOK
  <2> QED BY <1>1, <1>8, <2>1 DEF AlarmRings, sessVars, Callers
<1>9. CASE AbortMark \/ AbortDone
  BY <1>1, <1>9 DEF AbortMark, AbortDone, sessVars
<1>10. \/ UNCHANGED <<txq, tx, rx, handler, hash, wire>>
       \/ TxSend \/ RxDone \/ AlarmRings \/ AbortMark \/ AbortDone
       \/ \E c \in use.callers : initiator_enqueue(c)
       \/ \E c \in Callers : TxTake(c)
       \/ \E t \in wire : RxHeader(t) \/ AnswerLost(t)
  BY DEF ANext, CallerStep, Begin, EnqueueFails, Wake, RemoveCheck, RemoveScan, SessionStep, AlarmStep,
     sessVars, sigVars
<1> QED BY <1>2, <1>3, <1>4, <1>5, <1>6, <1>7, <1>8, <1>9, <1>10

LEMMA FlagTypes ==
    ASSUME TypeInv, ANext
    PROVE  Flags'
<1> USE DEF TypeInv, RingOK, Flags
<1>1. aborted' \in [Callers -> BOOLEAN]
  <2>1. \/ UNCHANGED aborted
        \/ \E c \in Callers, b \in BOOLEAN : aborted' = [aborted EXCEPT ![c] = b]
        \/ aborted' = [aborted EXCEPT ![handler] = TRUE]
    <3>1. CASE \E c \in use.callers : Begin(c) \/ EnqueueFails(c) \/ CallerStep(c)
      BY <3>1, UsesAssumption DEF Begin, EnqueueFails, CallerStep, initiator_enqueue, Wake, RemoveCheck,
         RemoveScan, cmdVars, Callers
    <3>2. CASE SessionStep \/ \E t \in wire : AnswerLost(t)
      BY <3>2 DEF SessionStep, TxTake, TxSend, RxHeader, RxDone, AnswerLost, cmdVars
    <3>3. CASE AlarmStep
      BY <3>3 DEF AlarmStep, AlarmRings, AbortMark, AbortDone, cmdVars
    <3> QED BY <3>1, <3>2, <3>3 DEF ANext
  <2> QED BY <2>1
<1>2. done' \in [Callers -> BOOLEAN]
  <2>1. \/ UNCHANGED done
        \/ \E c, b : b \in BOOLEAN /\ done' = [done EXCEPT ![c] = b]
    <3>1. CASE \E c \in use.callers : Begin(c) \/ EnqueueFails(c) \/ CallerStep(c)
      BY <3>1 DEF Begin, EnqueueFails, CallerStep, initiator_enqueue, Wake, RemoveCheck,
         RemoveScan, cmdVars
    <3>2. CASE SessionStep \/ \E t \in wire : AnswerLost(t)
      BY <3>2 DEF SessionStep, TxTake, TxSend, RxHeader, RxDone, AnswerLost, cmdVars, Callback
    <3>3. CASE AlarmStep
      BY <3>3 DEF AlarmStep, AlarmRings, AbortMark, AbortDone, cmdVars, Callback
    <3> QED BY <3>1, <3>2, <3>3 DEF ANext
  <2> QED BY <2>1
<1>3. rxUp' \in BOOLEAN
  BY DEF ANext, Begin, EnqueueFails, CallerStep, initiator_enqueue, Wake, RemoveCheck, RemoveScan,
     SessionStep, TxTake, TxSend, RxHeader, RxDone, AnswerLost, AlarmStep, AlarmRings, AbortMark,
     AbortDone, sessVars
<1>4. armed' \in BOOLEAN
  BY DEF ANext, Begin, EnqueueFails, CallerStep, initiator_enqueue, Wake, RemoveCheck, RemoveScan,
     SessionStep, TxTake, TxSend, RxHeader, RxDone, AnswerLost, AlarmStep, AlarmRings, AbortMark,
     AbortDone
<1>5. marked' \in BOOLEAN
  BY DEF ANext, Begin, EnqueueFails, CallerStep, initiator_enqueue, Wake, RemoveCheck, RemoveScan,
     SessionStep, TxTake, TxSend, RxHeader, RxDone, AnswerLost, AlarmStep, AlarmRings, AbortMark,
     AbortDone, sigVars
<1>6. exited' \in BOOLEAN
  BY DEF ANext, Begin, EnqueueFails, CallerStep, initiator_enqueue, Wake, RemoveCheck, RemoveScan,
     SessionStep, TxTake, TxSend, RxHeader, RxDone, AnswerLost, AlarmStep, AlarmRings, AbortMark,
     AbortDone
<1> QED BY <1>1, <1>2, <1>3, <1>4, <1>5, <1>6

LEMMA NextTypes == TypeInv /\ [ANext]_alarmVars => TypeInv'
<1>1. TypeInv /\ ANext => TypeInv'
  <2> SUFFICES ASSUME TypeInv, ANext PROVE TypeInv'
    OBVIOUS
  <2>1. Calls' /\ Session' /\ Flags'
    BY CallTypes, SessionTypes, FlagTypes
  <2>2. RingOK'
    BY NextRingOK DEF TypeInv
  <2> QED BY <2>1, <2>2 DEF TypeInv
<1>2. TypeInv /\ UNCHANGED alarmVars => TypeInv'
  <2> SUFFICES ASSUME TypeInv, UNCHANGED alarmVars PROVE TypeInv'
    OBVIOUS
  <2>1. RingOK'
    BY NextRingOK DEF TypeInv
  <2> QED BY <2>1 DEF alarmVars, cmdVars, sessVars, sigVars, TypeInv, Calls, Session, Flags, Tags, Tagged
<1> QED BY <1>1, <1>2

\* The types hold, and while no answer is late the alarm queue holds the command of every
\* call in progress once and no other.
THEOREM QueueHoldsCalls == ASpec => []AlarmEntries
<1>1. TypeInv /\ AlarmInv => ATypeOK
  <2> SUFFICES ASSUME TypeInv, AlarmInv PROVE ATypeOK
    OBVIOUS
  <2>1. TypeOK
    BY DEF TypeInv, RingOK, IndInv
  <2>2. Tagged \subseteq Callers
    BY DEF Tagged
  <2> QED BY <2>1, <2>2 DEF TypeInv, RingOK, Calls, Session, Flags, Tags, ATypeOK
<1>2. TypeInv /\ AlarmInv => AlarmEntries
  <2> SUFFICES ASSUME TypeInv, AlarmInv, use.faults = {}
               PROVE  /\ count = Cardinality({c \in Callers : pc[c] # "idle"})
                      /\ \A c \in Callers : Queued(c) <=> pc[c] # "idle"
    BY <1>1 DEF AlarmEntries
  <2> QED BY DEF AlarmInv, CalmInv, Entries, Active, Queued
<1> QED BY InitTypes, NextTypes, InitAlarm, NextAlarm, <1>2, PTL DEF ASpec
=============================================================================
