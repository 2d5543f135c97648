----------------------------- MODULE HashTable -----------------------------
(***************************************************************************)
(* util.c's hash of outstanding commands: NBuckets chains, the newest       *)
(* element at the head of its chain, an element found by the first match.   *)
(* Each call takes the table's lock, so that it is one step; the operators  *)
(* give the table that a call leaves.                                       *)
(***************************************************************************)
EXTENDS Integers, Sequences, FiniteSets

CONSTANT NBuckets   \* hash_init's n: CONFIG_TARGET_MAX_QUEUE
ASSUME BucketsAssumption == NBuckets \in Nat \ {0}

Buckets == 0..(NBuckets - 1)

\* HASH_ELEM_T: the key and the command it leads to; next is the chain's order
Elems(Ptr) == [key : Nat, ptr : Ptr]

hash_init == [b \in Buckets |-> <<>>]

\* The chain that a key belongs to
Chain(h, key) == h[key % NBuckets]

Positions(h, key) == {i \in DOMAIN Chain(h, key) : Chain(h, key)[i].key = key}

Holds(h, key) == Positions(h, key) # {}

\* Where the walk along the chain ends
First(h, key) == CHOOSE i \in Positions(h, key) : \A j \in Positions(h, key) : i <= j

\* A key that is there already is refused.  (The call returns with the lock held.)
hash_insert(h, e) ==
    IF Holds(h, e.key) THEN h
    ELSE [h EXCEPT ![e.key % NBuckets] = <<e>> \o @]

\* What hash_get and hash_remove return for a key that the table holds
hash_get(h, key) == Chain(h, key)[First(h, key)].ptr

Without(s, i) == [j \in 1..(Len(s) - 1) |-> IF j < i THEN s[j] ELSE s[j + 1]]

hash_remove(h, key) ==
    IF Holds(h, key)
    THEN [h EXCEPT ![key % NBuckets] = Without(@, First(h, key))]
    ELSE h

\* The head of the first chain that is not empty goes.
hash_remove_head(h) ==
    LET full == {b \in Buckets : h[b] # <<>>}
        b == CHOOSE b \in full : \A c \in full : b <= c
    IN  IF full = {} THEN h ELSE [h EXCEPT ![b] = Tail(@)]

\* The elements of a table; hash_count gives their number.
Contents(h) == UNION {{h[b][i] : i \in DOMAIN h[b]} : b \in Buckets}

\* What the calls rely on and keep: every element in its key's chain, no key twice
WellFormed(h, Ptr) ==
    /\ h \in [Buckets -> Seq(Elems(Ptr))]
    /\ \A b \in Buckets : \A i \in DOMAIN h[b] :
          /\ h[b][i].key % NBuckets = b
          /\ \A j \in DOMAIN h[b] : h[b][i].key = h[b][j].key => i = j
=============================================================================
