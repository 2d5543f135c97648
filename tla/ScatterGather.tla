--------------------------- MODULE ScatterGather ---------------------------
(***************************************************************************)
(* util.c's scatter-gather lists.  An array arr of elements [base, len] is   *)
(* seen through a window: its elements first .. first + n - 1.  An address   *)
(* is a number; the memory behind it belongs to the module that uses this.   *)
(***************************************************************************)
EXTENDS Integers, Sequences, FiniteSets, FiniteSetsExt, SequencesExt

\* Length of the window's first k elements
Ahead(w, k) ==
    LET ahead[i \in 0..k] == IF i = 0 THEN 0 ELSE ahead[i - 1] + w.arr[w.first + i - 1].len
    IN  ahead[k]

Window(arr) == [arr |-> arr, first |-> 1, n |-> Len(arr)]
Total(w) == Ahead(w, w.n)

\* The addresses that a window stands for, in order
Addresses(w) ==
    [i \in 1..Total(w) |->
        LET k == Min({j \in 1..w.n : Ahead(w, j) >= i})
        IN  w.arr[w.first + k - 1].base + i - Ahead(w, k - 1) - 1]

\* modify_iov: first the start moves to offset, ...
From(w, offset) ==
    LET k == Min({j \in 1..w.n : Ahead(w, j) > offset})
        disp == offset - Ahead(w, k - 1)
        at == w.first + k - 1
    IN  [arr |-> [w.arr EXCEPT ![at] = [base |-> @.base + disp, len |-> @.len - disp]],
         first |-> at, n |-> w.n - k + 1]

\* Mutated form: the last element is cut by what precedes the length.
UpToShort(w, length) ==
    LET k == Min({j \in 1..w.n : Ahead(w, j) >= length})
    IN  [w EXCEPT !.arr[w.first + k - 1].len = IF k > 1 THEN @ ELSE length, !.n = k]

\* ... then the last element is cut so that length remains.
UpTo(w, length) ==
    LET k == Min({j \in 1..w.n : Ahead(w, j) >= length})
    IN  [w EXCEPT !.arr[w.first + k - 1].len = @ - (Ahead(w, k) - length), !.n = k]

Fits(w, offset, length) == offset < Total(w) /\ offset + length <= Total(w)

modify_iov(w, offset, length) == UpTo(From(w, offset), length)

\* RESTORE_IOV: the window's elements get back the FIRST elements of the original.
Restored(w, orig) ==
    [i \in DOMAIN w.arr |-> IF i \in w.first..(w.first + w.n - 1)
                            THEN orig[i - w.first + 1] ELSE w.arr[i]]
=============================================================================
