----------------------------- MODULE RingQueue -----------------------------
(***************************************************************************)
(* The pointer queue of util.c (the iscsi_queue calls): a ring of slots with *)
(* a head, a tail and a count.  It carries the tx queues, the session pools, *)
(* the free command and header pools, the LUN command queue, the staging     *)
(* buffers and the alarm queue.  A call does its work under q->lock, and that *)
(* is one step.  remove_this also reads the count before it takes the lock:  *)
(* AlarmQueue.tla, its one user, has that look as a step of its own.         *)
(***************************************************************************)
EXTENDS Integers, Sequences

CONSTANTS Depth, Elems, NULL, OK, FAIL

ASSUME DepthAssumption == Depth \in Nat \ {0}
ASSUME NullAssumption == NULL \notin Elems

VARIABLES
    head,       \* q->head: slot of the oldest element
    tail,       \* q->tail: slot the next insert fills
    count,      \* q->count
    elem,       \* q->elem: the slots, stale ones included
    ret         \* the last call's return value

ringVars == <<head, tail, count, elem, ret>>

Slots == 0..(Depth - 1)

\* The slot after i: "x++; if (x == q->depth) x = 0".
NextSlot(i) == IF i + 1 = Depth THEN 0 ELSE i + 1

\* The k-th slot counted from the head, 0 <= k <= Depth.
SlotAt(k) == IF head + k < Depth THEN head + k ELSE head + k - Depth

\* malloc leaves the slots with whatever they held.
Init ==
    /\ head = 0 /\ tail = 0 /\ count = 0
    /\ elem \in [Slots -> Elems \cup {NULL}]
    /\ ret = NULL

iscsi_queue_full == count = Depth

InsertFull ==
    /\ iscsi_queue_full
    /\ ret' = FAIL
    /\ UNCHANGED <<head, tail, count, elem>>

InsertOk(v) ==
    /\ ~iscsi_queue_full
    /\ elem' = [elem EXCEPT ![tail] = v]
    /\ tail' = NextSlot(tail)
    /\ count' = count + 1
    /\ ret' = OK
    /\ UNCHANGED head

iscsi_queue_insert(v) == InsertFull \/ InsertOk(v)

RemoveEmpty ==
    /\ count = 0
    /\ ret' = NULL
    /\ UNCHANGED <<head, tail, count, elem>>

RemoveOldest ==
    /\ count # 0
    /\ count' = count - 1
    /\ ret' = elem[head]
    /\ head' = NextSlot(head)
    /\ UNCHANGED <<tail, elem>>

iscsi_queue_remove == RemoveEmpty \/ RemoveOldest

(***************************************************************************)
(* iscsi_queue_remove_this scans from the head up to AND INCLUDING the tail  *)
(* slot.  A full ring has head = tail, so the scan then stops after its      *)
(* first slot; otherwise its last slot is one that holds no element.         *)
(***************************************************************************)
ScanLength == IF tail >= head THEN tail - head + 1 ELSE tail + Depth - head + 1

FirstMatch(v, k) ==
    /\ k \in 0..(ScanLength - 1)
    /\ elem[SlotAt(k)] = v
    /\ \A j \in 0..(k - 1) : elem[SlotAt(j)] # v

\* Mutated form: the copy across the end of the ring is forgotten.
ShiftedUnwrapped(pos) ==
    IF pos = head \/ head = tail THEN elem
    ELSE [i \in Slots |-> IF head < i /\ i <= pos THEN elem[i - 1] ELSE elem[i]]

\* The slots between the head and the match move one up, over the match.
ShiftedOver(pos) ==
    IF pos = head \/ head = tail THEN elem
    ELSE IF head < tail \/ pos >= head
    THEN [i \in Slots |-> IF head < i /\ i <= pos THEN elem[i - 1] ELSE elem[i]]
    ELSE [i \in Slots |->
            CASE i = 0                -> elem[Depth - 1]
              [] 0 < i /\ i <= pos    -> elem[i - 1]
              [] head < i             -> elem[i - 1]
              [] OTHER                -> elem[i]]

\* Mutated form: the element is taken out and the head stays.
RemoveThisHeadStays(v) ==
    \E k \in 0..Depth :
        /\ FirstMatch(v, k)
        /\ count' = count - 1
        /\ elem' = ShiftedOver(SlotAt(k))
        /\ ret' = v
        /\ UNCHANGED <<head, tail>>

RemoveThisFound(v) ==
    \E k \in 0..Depth :
        /\ FirstMatch(v, k)
        /\ count' = count - 1
        /\ elem' = ShiftedOver(SlotAt(k))
        /\ head' = IF SlotAt(k) # head /\ head = tail THEN head ELSE NextSlot(head)
        /\ ret' = v
        /\ UNCHANGED tail

RemoveThisMissing(v) ==
    /\ \A k \in 0..(ScanLength - 1) : elem[SlotAt(k)] # v
    /\ ret' = NULL
    /\ UNCHANGED <<head, tail, count, elem>>

\* What the call does once it holds the lock, with v queued or not: the count may
\* have changed since it was read, to 0 and below.
RemoveThisLocked(v) == RemoveThisFound(v) \/ RemoveThisMissing(v)

\* The queued pointers, oldest first.
Contents == [i \in 1..count |-> elem[SlotAt(i - 1)]]

Queued(v) == \E i \in 1..count : Contents[i] = v

-----------------------------------------------------------------------------

TypeOK ==
    /\ head \in Slots /\ tail \in Slots
    /\ count \in Int /\ count <= Depth
    /\ elem \in [Slots -> Elems \cup {NULL}]
    /\ ret \in Elems \cup {NULL, OK, FAIL}

\* The three indices agree whatever the callers do, a removal of a pointer that is gone
\* and a count below 0 included: the tail is count slots past the head, and a full ring
\* and an empty one (both head = tail) are told apart by the count.
RingInv == tail = (head + count) % Depth

\* What one call relies on and every call restores.
IndInv == TypeOK /\ RingInv

\* The ring is a bounded FIFO list: insert appends, remove takes the oldest, remove_this
\* takes out the named element and keeps the others in order.  Of a pointer that is not
\* queued any more remove_this can only lose the newest element or swallow a later one.
Owed == IF count < 0 THEN -count ELSE 0
F == INSTANCE Fifo WITH items <- Contents, owed <- Owed
FifoSpec == F!Spec
=============================================================================
