-------------------------------- MODULE Fifo --------------------------------
(***************************************************************************)
(* What util.c's iscsi_queue functions promise their callers: a bounded   *)
(* first-in first-out list of pointers.  An insert or a remove that the     *)
(* list cannot serve leaves it alone and says so through its result; so does *)
(* no removal of a pointer that is not on the list any more, see Miss.      *)
(***************************************************************************)
EXTENDS Naturals, Sequences

CONSTANTS
    Depth,      \* capacity given to iscsi_queue_init
    Elems,      \* the pointers that callers insert
    NULL,       \* the pointer a failing call returns
    OK, FAIL    \* the results 0 and -1 of iscsi_queue_insert

VARIABLES
    items,      \* the queued pointers, oldest first
    owed,       \* pointers that were handed out and never queued: as many of the
                \* next inserts are swallowed
    ret         \* what the last call returned

fifoVars == <<items, owed, ret>>

\* s without its k-th element
Without(s, k) ==
    [i \in 1..(Len(s) - 1) |-> IF i < k THEN s[i] ELSE s[i + 1]]

\* k is the first place of v in s
FirstAt(s, v, k) ==
    /\ k \in 1..Len(s)
    /\ s[k] = v
    /\ \A j \in 1..(k - 1) : s[j] # v

Init == items = <<>> /\ owed = 0 /\ ret = NULL

Insert(v) ==
    \/ /\ owed = 0 /\ Len(items) < Depth
       /\ items' = Append(items, v)
       /\ ret' = OK
       /\ UNCHANGED owed
    \/ /\ Len(items) = Depth
       /\ ret' = FAIL
       /\ UNCHANGED <<items, owed>>
    \/ /\ owed > 0
       /\ owed' = owed - 1
       /\ ret' = OK
       /\ UNCHANGED items

Remove ==
    \/ /\ items # <<>>
       /\ items' = Tail(items)
       /\ ret' = Head(items)
       /\ UNCHANGED owed
    \/ /\ items = <<>> /\ owed = 0
       /\ ret' = NULL
       /\ UNCHANGED <<items, owed>>
    \/ /\ owed > 0
       /\ owed' = owed + 1
       /\ ret' \in Elems \cup {NULL}
       /\ UNCHANGED items

\* Take v out wherever it is.  A list at its capacity only gives up its oldest
\* element this way.
TakeOut(v) ==
    \/ \E k \in 1..Len(items) :
          /\ FirstAt(items, v, k)
          /\ Len(items) < Depth \/ k = 1
          /\ items' = Without(items, k)
          /\ ret' = v
    \/ /\ Len(items) = Depth
       /\ items[1] # v
       /\ ret' = NULL
       /\ UNCHANGED items

\* v is not there, whoever took it.  The call may say so, or claim to have found it;
\* in that case the newest element is gone, or, of an empty list, the next insert.
Miss(v) ==
    /\ \A i \in 1..Len(items) : items[i] # v
    /\ \/ ret' = NULL /\ UNCHANGED <<items, owed>>
       \/ /\ items # <<>> /\ Len(items) < Depth
          /\ items' = Without(items, Len(items))
          /\ ret' = v
          /\ UNCHANGED owed
       \/ /\ items = <<>>
          /\ owed' = owed + 1
          /\ ret' = v
          /\ UNCHANGED items

RemoveThis(v) == (TakeOut(v) /\ UNCHANGED owed) \/ Miss(v)

Next == \/ \E v \in Elems : Insert(v) \/ RemoveThis(v)
        \/ Remove

Spec == Init /\ [][Next]_fifoVars
=============================================================================
