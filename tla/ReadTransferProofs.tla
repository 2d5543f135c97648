------------------------- MODULE ReadTransferProofs -------------------------
(***************************************************************************)
(* Proofs about the read data path, for any commands, requests, segment      *)
(* lengths, disks, LUNs and number of buffers: no staging buffer of a LUN is  *)
(* lost or given back twice, data only ever gets to its place, and a command  *)
(* that the initiator reports GOOD has all of it.                            *)
(*                                                                           *)
(* The first part is about modify_iov: a recursive sum of lengths says where  *)
(* an address of a list is, so its lemmas go by induction (Induction, Least).  *)
(* The second is about messages and the sequence that they make on the way;   *)
(* the third about staging buffers, which the data plays no part in; the last *)
(* is the invariant ReadInv, of the stream together with what writev still    *)
(* has to take, and its proof action by action.                              *)
(***************************************************************************)
EXTENDS ReadTransfer, FiniteSetTheorems, SequenceTheorems, WellFoundedInduction, TLAPS

-----------------------------------------------------------------------------
(***************************************************************************)
(* Scatter-gather lists, by induction over their elements                    *)
(***************************************************************************)

Element == [base : Nat, len : Nat]
IsWindow(w) ==
    /\ w \in [arr : Seq(Element), first : Nat \ {0}, n : Nat]
    /\ w.first + w.n <= Len(w.arr) + 1

\* A set of numbers that has 0 and with each number the next has them all.
LEMMA Induction ==
    ASSUME NEW S, 0 \in S, \A n \in Nat : n \in S => n + 1 \in S
    PROVE  Nat \subseteq S
<1> SUFFICES ASSUME Nat \ S # {} PROVE FALSE
  OBVIOUS
<1> DEFINE R == OpToRel(<, Nat)
<1>1. IsWellFoundedOn(R, Nat)
  BY NatLessThanWellFounded
<1> HIDE DEF R
<1>2. PICK x \in Nat \ S : \A y \in Nat \ S : ~(<<y, x>> \in R)
  BY <1>1, WFMin
<1>3. \A y \in Nat \ S : ~(y < x)
  BY <1>2 DEF R, OpToRel
<1>4. x # 0 /\ x - 1 \in Nat /\ x - 1 < x /\ (x - 1) + 1 = x
  BY <1>2
<1>5. x - 1 \in S
  BY <1>3, <1>4
<1> QED BY <1>2, <1>4, <1>5

LEMMA Least ==
    ASSUME NEW T \in SUBSET Nat, T # {}
    PROVE  Min(T) \in T /\ \A y \in T : Min(T) <= y
<1> DEFINE R == OpToRel(<, Nat)
<1>1. IsWellFoundedOn(R, Nat)
  BY NatLessThanWellFounded
<1> HIDE DEF R
<1>2. PICK x \in T : \A y \in T : ~(<<y, x>> \in R)
  BY <1>1, WFMin
<1>3. \A y \in T : ~(y < x)
  BY <1>2 DEF R, OpToRel
<1>4. \A y \in T : x <= y
  BY <1>3
<1> QED BY <1>2, <1>4 DEF Min

Prefix(w, k, f) ==
    f = [i \in 0..k |-> IF i = 0 THEN 0 ELSE f[i - 1] + w.arr[w.first + i - 1].len]

LEMMA PrefixExists ==
    ASSUME NEW w
    PROVE  \A k \in Nat : \E f : Prefix(w, k, f)
<1> DEFINE S == {k \in Nat : \E f : Prefix(w, k, f)}
<1>1. 0 \in S
  <2> DEFINE f == [i \in 0..0 |-> 0]
  <2>1. Prefix(w, 0, f)
    BY DEF Prefix
  <2> QED BY <2>1
<1>2. ASSUME NEW k \in Nat, k \in S PROVE k + 1 \in S
  <2>1. PICK f : Prefix(w, k, f)
    BY <1>2
  <2> DEFINE g == [i \in 0..k + 1 |-> IF i = k + 1 THEN f[k] + w.arr[w.first + k].len ELSE f[i]]
  <2>2. \A i \in 0..k : f[i] = IF i = 0 THEN 0 ELSE f[i - 1] + w.arr[w.first + i - 1].len
    BY <2>1 DEF Prefix
  <2>3. \A i \in 0..k + 1 : g[i] = IF i = 0 THEN 0 ELSE g[i - 1] + w.arr[w.first + i - 1].len
    BY <2>2
  <2>4. g = [i \in 0..k + 1 |-> g[i]]
    OBVIOUS
  <2> HIDE DEF g
  <2>5. Prefix(w, k + 1, g)
    BY <2>3, <2>4 DEF Prefix
  <2> QED BY <2>5
<1>3. Nat \subseteq S
  <2> HIDE DEF S
  <2> QED BY <1>1, <1>2, Induction
<1> QED BY <1>3

LEMMA AheadIs ==
    ASSUME NEW w, NEW k \in Nat
    PROVE  \E f : Prefix(w, k, f) /\ Ahead(w, k) = f[k]
<1> DEFINE ahead[i \in 0..k] == IF i = 0 THEN 0 ELSE ahead[i - 1] + w.arr[w.first + i - 1].len
<1>1. Ahead(w, k) = ahead[k]
  BY DEF Ahead
<1>2. Prefix(w, k, ahead)
  BY PrefixExists DEF Prefix
<1> QED BY <1>1, <1>2

\* The sum, element by element
LEMMA AheadSteps ==
    ASSUME NEW w, IsWindow(w)
    PROVE  /\ Ahead(w, 0) = 0
           /\ \A k \in Nat : Ahead(w, k + 1) = Ahead(w, k) + w.arr[w.first + k].len
<1>1. Ahead(w, 0) = 0
  BY AheadIs DEF Prefix
<1>2. ASSUME NEW k \in Nat PROVE Ahead(w, k + 1) = Ahead(w, k) + w.arr[w.first + k].len
  <2>1. PICK f : Prefix(w, k, f) /\ Ahead(w, k) = f[k]
    BY AheadIs
  <2>2. PICK g : Prefix(w, k + 1, g) /\ Ahead(w, k + 1) = g[k + 1]
    BY AheadIs
  <2> DEFINE S == {i \in Nat : i <= k => f[i] = g[i]}
  <2>3. 0 \in S
    BY <2>1, <2>2 DEF Prefix
  <2>4. ASSUME NEW i \in Nat, i \in S PROVE i + 1 \in S
    <3>1. CASE i + 1 <= k
      <4>0. i + 1 \in 0..k /\ i + 1 \in 0..k + 1 /\ (i + 1) - 1 = i /\ i + 1 # 0
            /\ w.first + (i + 1) - 1 = w.first + i
        BY <3>1 DEF IsWindow
      <4>1. f[i + 1] = f[i] + w.arr[w.first + i].len
        BY <2>1, <4>0 DEF Prefix
      <4>2. g[i + 1] = g[i] + w.arr[w.first + i].len
        BY <2>2, <4>0 DEF Prefix
      <4> QED BY <2>4, <3>1, <4>1, <4>2
    <3> QED BY <3>1
  <2>5. Nat \subseteq S
    <3> HIDE DEF S
    <3> QED BY <2>3, <2>4, Induction
  <2>6. f[k] = g[k]
    BY <2>5
  <2>7. g[k + 1] = g[k] + w.arr[w.first + k].len
    <3>1. k + 1 \in 0..k + 1 /\ (k + 1) - 1 = k /\ k + 1 # 0 /\ w.first + (k + 1) - 1 = w.first + k
      BY DEF IsWindow
    <3> QED BY <2>2, <3>1 DEF Prefix
  <2> QED BY <2>1, <2>2, <2>6, <2>7
<1> QED BY <1>1, <1>2

LEMMA ElementLen ==
    ASSUME NEW w, IsWindow(w), NEW k \in Nat, k < w.n
    PROVE  w.arr[w.first + k] \in Element /\ w.arr[w.first + k].len \in Nat
<1>1. w.arr \in Seq(Element) /\ w.first + k \in 1..Len(w.arr)
  BY DEF IsWindow
<1>2. w.arr[w.first + k] \in Element
  BY <1>1
<1> QED BY <1>2 DEF Element

\* It does not decrease.
LEMMA AheadGrows ==
    ASSUME NEW w, IsWindow(w)
    PROVE  /\ \A k \in 0..w.n : Ahead(w, k) \in Nat
           /\ \A j, k \in 0..w.n : j <= k => Ahead(w, j) <= Ahead(w, k)
<1>1. \A k \in 0..w.n : k < w.n => w.arr[w.first + k].len \in Nat
  BY ElementLen DEF IsWindow
<1> DEFINE S == {k \in Nat : k <= w.n =>
                    /\ Ahead(w, k) \in Nat
                    /\ \A j \in 0..k : Ahead(w, j) \in Nat /\ Ahead(w, j) <= Ahead(w, k)}
<1>2. 0 \in S
  <2>1. \A j \in 0..0 : j = 0
    OBVIOUS
  <2> QED BY <2>1, AheadSteps
<1>3. ASSUME NEW k \in Nat, k \in S PROVE k + 1 \in S
  <2> SUFFICES ASSUME k + 1 <= w.n
               PROVE  /\ Ahead(w, k + 1) \in Nat
                      /\ \A j \in 0..k + 1 : Ahead(w, j) \in Nat /\ Ahead(w, j) <= Ahead(w, k + 1)
    OBVIOUS
  <2>1. w.n \in Nat
    BY DEF IsWindow
  <2>2. k <= w.n /\ k \in 0..w.n /\ k < w.n
    BY <2>1
  <2>3. Ahead(w, k) \in Nat /\ \A j \in 0..k : Ahead(w, j) \in Nat /\ Ahead(w, j) <= Ahead(w, k)
    BY <1>3, <2>2
  <2>4. w.arr[w.first + k].len \in Nat
    BY <1>1, <2>2
  <2>5. Ahead(w, k + 1) = Ahead(w, k) + w.arr[w.first + k].len
    BY AheadSteps
  <2>6. Ahead(w, k + 1) \in Nat /\ Ahead(w, k) <= Ahead(w, k + 1)
    BY <2>3, <2>4, <2>5
  <2>7. ASSUME NEW j \in 0..k + 1 PROVE Ahead(w, j) \in Nat /\ Ahead(w, j) <= Ahead(w, k + 1)
    <3>1. CASE j = k + 1
      BY <2>6, <3>1
    <3>2. CASE j # k + 1
      <4>1. j \in 0..k
        BY ONLY <3>2, j \in 0..k + 1, k \in Nat
      <4> QED BY <2>3, <2>6, <4>1
    <3> QED BY <3>1, <3>2
  <2> QED BY <2>6, <2>7
<1>4. Nat \subseteq S
  <2> HIDE DEF S
  <2> QED BY <1>2, <1>3, Induction
<1>5. w.n \in Nat
  BY DEF IsWindow
<1> QED BY <1>4, <1>5

\* The element in which the i-th address is, and the address
LEMMA AddressAt ==
    ASSUME NEW w, IsWindow(w), NEW i \in Nat, NEW j \in Nat, j < w.n,
           Ahead(w, j) < i, i <= Ahead(w, j + 1)
    PROVE  /\ i \in 1..Total(w)
           /\ Addresses(w)[i] = w.arr[w.first + j].base + i - Ahead(w, j) - 1
<1>0. w.n \in Nat /\ w.first \in Nat
  BY DEF IsWindow
<1>1. j \in 0..w.n /\ j + 1 \in 0..w.n /\ w.n \in 0..w.n /\ j + 1 <= w.n
  BY <1>0
<1>2. Ahead(w, j) \in Nat /\ Ahead(w, j + 1) \in Nat /\ Total(w) \in Nat /\ Ahead(w, j + 1) <= Total(w)
  BY <1>1, AheadGrows DEF Total
<1>3. i \in 1..Total(w)
  BY <1>2
<1> DEFINE T == {k \in 1..w.n : Ahead(w, k) >= i}
           m == Min(T)
<1>4. T \in SUBSET Nat /\ j + 1 \in T
  BY <1>0, <1>1, <1>2
<1>5. m \in T /\ \A y \in T : m <= y
  <2> HIDE DEF T
  <2> QED BY <1>4, Least
<1>6. Addresses(w)[i] = w.arr[w.first + m - 1].base + i - Ahead(w, m - 1) - 1
  BY <1>3 DEF Addresses
<1> HIDE DEF m
<1>7. m = j + 1
  <2>1. m <= j + 1 /\ m \in 0..w.n /\ m \in Nat /\ Ahead(w, m) >= i
    BY <1>0, <1>4, <1>5
  <2>2. SUFFICES ASSUME m <= j PROVE FALSE
    BY <2>1
  <2>3. Ahead(w, m) <= Ahead(w, j) /\ Ahead(w, m) \in Nat
    BY <1>1, <2>1, <2>2, AheadGrows
  <2> QED BY <1>2, <2>1, <2>3
<1>8. w.first + m - 1 = w.first + j /\ m - 1 = j
  BY <1>0, <1>7
<1> QED BY <1>3, <1>6, <1>8

LEMMA AddressIs ==
    ASSUME NEW w, IsWindow(w), NEW i \in 1..Total(w)
    PROVE  \E j \in Nat : /\ j < w.n /\ Ahead(w, j) < i /\ i <= Ahead(w, j + 1)
                          /\ Addresses(w)[i] = w.arr[w.first + j].base + i - Ahead(w, j) - 1
<1>0. w.n \in Nat /\ w.n \in 0..w.n
  BY DEF IsWindow
<1>1. Total(w) \in Nat /\ i \in Nat /\ 1 <= i /\ i <= Ahead(w, w.n)
  BY <1>0, AheadGrows DEF Total
<1> DEFINE T == {k \in 0..w.n : i <= Ahead(w, k)}
           m == Min(T)
<1>2. T \in SUBSET Nat /\ w.n \in T
  BY <1>0, <1>1
<1>3. m \in T /\ \A y \in T : m <= y
  <2> HIDE DEF T
  <2> QED BY <1>2, Least
<1> HIDE DEF m
<1>4. m # 0
  BY <1>1, <1>3, AheadSteps
<1> DEFINE j == m - 1
<1>5. j \in Nat /\ j < w.n /\ j \in 0..w.n /\ j \notin T /\ j + 1 = m
  BY <1>0, <1>3, <1>4
<1> HIDE DEF j
<1>6. Ahead(w, j) \in Nat
  BY <1>5, AheadGrows
<1>7. Ahead(w, j) < i /\ i <= Ahead(w, j + 1)
  BY <1>1, <1>3, <1>5, <1>6
<1> QED BY <1>1, <1>5, <1>7, AddressAt

LEMMA AddressesSeq ==
    ASSUME NEW w, IsWindow(w)
    PROVE  /\ Total(w) \in Nat /\ DOMAIN Addresses(w) = 1..Total(w)
           /\ Addresses(w) \in Seq(Nat) /\ Len(Addresses(w)) = Total(w)
<1>1. Total(w) \in Nat
  BY AheadGrows DEF Total, IsWindow
<1>2. ASSUME NEW i \in 1..Total(w) PROVE Addresses(w)[i] \in Nat
  <2>1. PICK j \in Nat : /\ j < w.n /\ Ahead(w, j) < i /\ i <= Ahead(w, j + 1)
                         /\ Addresses(w)[i] = w.arr[w.first + j].base + i - Ahead(w, j) - 1
    BY AddressIs
  <2>2. j \in 0..w.n
    BY <2>1 DEF IsWindow
  <2>3. Ahead(w, j) \in Nat
    BY <2>2, AheadGrows
  <2>4. w.arr[w.first + j].base \in Nat
    BY <2>1, ElementLen DEF Element
  <2> QED BY <1>1, <2>1, <2>3, <2>4
<1>3. DOMAIN Addresses(w) = 1..Total(w)
  BY DEF Addresses
<1>4. Addresses(w) = [i \in 1..Total(w) |-> Addresses(w)[i]]
  BY DEF Addresses
<1> QED BY <1>1, <1>2, <1>3, <1>4

\* Windows whose elements have the same lengths, from the element behind j on
LEMMA AheadShift ==
    ASSUME NEW v, NEW w, IsWindow(v), IsWindow(w), NEW s \in Nat, NEW j \in 0..v.n, NEW m \in 0..v.n,
           s + m <= w.n,
           NEW d \in Int, j <= m, Ahead(v, j) = Ahead(w, s + j) + d,
           \A k \in Nat : j <= k /\ k < m => v.arr[v.first + k].len = w.arr[w.first + (s + k)].len
    PROVE  \A k \in j..m : Ahead(v, k) = Ahead(w, s + k) + d
<1>0. v.n \in Nat /\ w.n \in Nat /\ v.first \in Nat /\ w.first \in Nat /\ j \in Nat /\ m \in Nat
  BY DEF IsWindow
<1> DEFINE S == {i \in Nat : j + i <= m => Ahead(v, j + i) = Ahead(w, s + (j + i)) + d}
<1>1. 0 \in S
  BY <1>0
<1>2. ASSUME NEW i \in Nat, i \in S PROVE i + 1 \in S
  <2> SUFFICES ASSUME j + (i + 1) <= m PROVE Ahead(v, j + (i + 1)) = Ahead(w, s + (j + (i + 1))) + d
    OBVIOUS
  <2> DEFINE k == j + i
  <2>1. k \in Nat /\ j <= k /\ k < m /\ k + 1 = j + (i + 1) /\ s + k \in Nat /\ (s + k) + 1 = s + (j + (i + 1))
    BY <1>0
  <2>2. Ahead(v, k) = Ahead(w, s + k) + d
    BY <1>0, <1>2, <2>1
  <2> HIDE DEF k
  <2>3. Ahead(v, k + 1) = Ahead(v, k) + v.arr[v.first + k].len
    BY <2>1, AheadSteps
  <2>4. Ahead(w, (s + k) + 1) = Ahead(w, s + k) + w.arr[w.first + (s + k)].len
    BY <2>1, AheadSteps
  <2>6. v.arr[v.first + k].len = w.arr[w.first + (s + k)].len
    BY <2>1
  <2>7. Ahead(w, s + k) \in Nat /\ Ahead(w, (s + k) + 1) \in Nat
    <3>1. s + k \in 0..w.n /\ (s + k) + 1 \in 0..w.n
      BY <1>0, <2>1
    <3> QED BY <3>1, AheadGrows
  <2>8. Ahead(v, k) \in Nat /\ Ahead(v, k + 1) \in Nat
    <3>1. k \in 0..v.n /\ k + 1 \in 0..v.n
      BY <1>0, <2>1
    <3> QED BY <3>1, AheadGrows
  <2>9. v.arr[v.first + k].len \in Int
    BY <2>1, <1>0, ElementLen
  <2>10. Ahead(v, k + 1) = Ahead(w, (s + k) + 1) + d
    BY <2>2, <2>3, <2>4, <2>6, <2>7, <2>8, <2>9
  <2> QED BY <2>1, <2>10
<1>3. Nat \subseteq S
  <2> HIDE DEF S
  <2> QED BY <1>1, <1>2, Induction
<1>4. ASSUME NEW k \in j..m PROVE Ahead(v, k) = Ahead(w, s + k) + d
  <2>1. k - j \in S
    BY <1>0, <1>3
  <2>2. j + (k - j) = k
    BY <1>0
  <2> QED BY <2>1, <2>2
<1> QED BY <1>4

\* A window from which k elements and a part of the next were taken
LEMMA Dropped ==
    ASSUME NEW w, NEW v, IsWindow(w), IsWindow(v), NEW k \in Nat, k < w.n, NEW offset \in Nat,
           v.first = w.first + k, k + v.n = w.n,
           Ahead(w, k) <= offset, offset < Ahead(w, k + 1),
           v.arr[v.first].base = w.arr[w.first + k].base + (offset - Ahead(w, k)),
           v.arr[v.first].len = w.arr[w.first + k].len - (offset - Ahead(w, k)),
           \A i \in Nat : 0 < i /\ i < v.n => v.arr[v.first + i] = w.arr[w.first + (k + i)]
    PROVE  /\ Total(v) = Total(w) - offset
           /\ \A i \in 1..Total(w) - offset : Addresses(v)[i] = Addresses(w)[offset + i]
<1>1. v.n \in Nat /\ w.n \in Nat /\ v.first \in Nat /\ w.first \in Nat
  BY DEF IsWindow
<1>2. k \in 0..w.n /\ k + 1 \in 0..w.n /\ 1 <= v.n
  BY <1>1
<1>3. Ahead(w, k) \in Nat /\ Ahead(w, k + 1) \in Nat /\ Total(w) \in Nat
  BY <1>2, AheadGrows, AddressesSeq
<1>4. /\ w.arr[w.first + k].len \in Nat /\ w.arr[w.first + k].base \in Nat
      /\ Ahead(w, k + 1) = Ahead(w, k) + w.arr[w.first + k].len
  BY ElementLen, AheadSteps DEF Element
<1>5. Ahead(v, 0) = 0 /\ Ahead(v, 1) = Ahead(w, k + 1) + (-offset)
  <2>1. Ahead(v, 0) = 0 /\ Ahead(v, 0 + 1) = Ahead(v, 0) + v.arr[v.first + 0].len
    BY AheadSteps
  <2>2. v.first + 0 = v.first /\ 0 + 1 = 1
    BY <1>1
  <2>3. Ahead(v, 1) = 0 + v.arr[v.first].len
    BY <2>1, <2>2
  <2> QED BY <1>3, <1>4, <2>1, <2>3
<1>6. \A j \in 1..v.n : Ahead(v, j) = Ahead(w, k + j) + (-offset)
  <2>1. ASSUME NEW i \in Nat, 1 <= i, i < v.n PROVE v.arr[v.first + i].len = w.arr[w.first + (k + i)].len
    BY <2>1
  <2>2. 1 \in 0..v.n /\ v.n \in 0..v.n /\ k + v.n <= w.n /\ -offset \in Int
    BY <1>1, <1>2
  <2> QED BY <1>2, <1>5, <2>1, <2>2, AheadShift
<1>7. Total(v) = Total(w) - offset
  <2>1. v.n \in 1..v.n
    BY <1>1, <1>2
  <2>2. Ahead(v, v.n) = Ahead(w, w.n) + (-offset)
    BY <1>6, <2>1
  <2> QED BY <1>3, <2>2 DEF Total
<1>8. ASSUME NEW i \in 1..Total(w) - offset PROVE Addresses(v)[i] = Addresses(w)[offset + i]
  <2>1. PICK j \in Nat : /\ j < v.n /\ Ahead(v, j) < i /\ i <= Ahead(v, j + 1)
                         /\ Addresses(v)[i] = v.arr[v.first + j].base + i - Ahead(v, j) - 1
    BY <1>7, AddressIs
  <2>2. i \in Nat /\ offset + i \in Nat
    BY <1>3
  <2>3. k + j \in Nat /\ k + j < w.n /\ (k + j) + 1 = k + (j + 1) /\ k + j \in 0..w.n /\ (k + j) + 1 \in 0..w.n
    BY <1>1, <2>1
  <2>4. j \in 0..v.n /\ j + 1 \in 0..v.n /\ j + 1 \in 1..v.n
    BY <1>1, <2>1
  <2>5. /\ Ahead(v, j) \in Nat /\ Ahead(v, j + 1) \in Nat
        /\ Ahead(w, k + j) \in Nat /\ Ahead(w, (k + j) + 1) \in Nat
    BY <2>3, <2>4, AheadGrows
  <2>6. Ahead(v, j + 1) = Ahead(w, (k + j) + 1) + (-offset)
    BY <1>6, <2>3, <2>4
  <2>7. offset + i <= Ahead(w, (k + j) + 1)
    BY <2>1, <2>2, <2>5, <2>6
  <2>8. /\ Ahead(w, k + j) < offset + i
        /\ Addresses(v)[i] = w.arr[w.first + (k + j)].base + (offset + i) - Ahead(w, k + j) - 1
    <3>1. CASE j = 0
      <4>1. k + j = k /\ v.first + j = v.first /\ Ahead(v, j) = 0
        BY <1>1, <1>5, <3>1
      <4>2. Addresses(v)[i] = v.arr[v.first].base + i - 0 - 1
        BY <2>1, <4>1
      <4>3. Addresses(v)[i] = w.arr[w.first + k].base + (offset + i) - Ahead(w, k) - 1
        BY <1>3, <1>4, <2>2, <4>2
      <4>4. Ahead(w, k) < offset + i
        BY <1>3, <2>1, <2>2, <4>1
      <4> QED BY <4>1, <4>3, <4>4
    <3>2. CASE j # 0
      <4>1. Ahead(v, j) = Ahead(w, k + j) + (-offset)
        BY <1>6, <2>4, <3>2
      <4>2. v.arr[v.first + j] = w.arr[w.first + (k + j)]
        BY <2>1, <3>2
      <4>3. w.arr[w.first + (k + j)].base \in Nat
        BY <2>3, ElementLen DEF Element
      <4>4. Addresses(v)[i] = w.arr[w.first + (k + j)].base + i - Ahead(v, j) - 1
        BY <2>1, <4>2
      <4> QED BY <2>1, <2>2, <2>5, <4>1, <4>3, <4>4
    <3> QED BY <3>1, <3>2
  <2> QED BY <2>2, <2>3, <2>7, <2>8, AddressAt
<1> QED BY <1>7, <1>8

\* A window that ends with an element which was cut or left as it is
LEMMA Cut ==
    ASSUME NEW w, NEW v, IsWindow(w), IsWindow(v), NEW k \in Nat, k < w.n, NEW length \in Nat,
           v.n = k + 1, Ahead(w, k) <= length, length <= Ahead(w, k + 1),
           v.arr[v.first + k].len = length - Ahead(w, k),
           v.arr[v.first + k].base = w.arr[w.first + k].base,
           \A i \in Nat : i < k => v.arr[v.first + i] = w.arr[w.first + i]
    PROVE  /\ Total(v) = length /\ length <= Total(w)
           /\ \A i \in 1..length : Addresses(v)[i] = Addresses(w)[i]
<1>1. w.n \in Nat /\ v.first \in Nat /\ w.first \in Nat
  BY DEF IsWindow
<1>2. k \in 0..w.n /\ k + 1 \in 0..w.n /\ w.n \in 0..w.n /\ k \in 0..v.n /\ k + 1 \in 0..v.n
  BY <1>1
<1>3. Ahead(w, k) \in Nat /\ Ahead(w, k + 1) \in Nat /\ Ahead(w, k + 1) <= Total(w) /\ Total(w) \in Nat
  BY <1>1, <1>2, AheadGrows DEF Total
<1>4. \A j \in 0..k : Ahead(v, j) = Ahead(w, j)
  <2>1. ASSUME NEW i \in Nat, 0 <= i, i < k PROVE v.arr[v.first + i].len = w.arr[w.first + (0 + i)].len
    BY <1>1, <2>1
  <2>2. Ahead(v, 0) = Ahead(w, 0 + 0) + 0
    BY AheadSteps
  <2>3. 0 \in 0..v.n /\ 0 + k <= w.n /\ 0 <= k
    BY <1>2
  <2>4. \A j \in 0..k : Ahead(v, j) = Ahead(w, 0 + j) + 0
    BY <1>2, <2>1, <2>2, <2>3, AheadShift
  <2>5. ASSUME NEW j \in 0..k PROVE Ahead(v, j) = Ahead(w, j)
    <3>1. j \in 0..w.n /\ 0 + j = j
      BY <1>2
    <3>2. Ahead(w, j) \in Nat
      BY <3>1, AheadGrows
    <3> QED BY <2>4, <3>1, <3>2
  <2> QED BY <2>5
<1>5. Total(v) = length
  <2>1. Ahead(v, k + 1) = Ahead(v, k) + v.arr[v.first + k].len
    BY AheadSteps
  <2> QED BY <1>2, <1>3, <1>4, <2>1 DEF Total
<1>6. ASSUME NEW i \in 1..length PROVE Addresses(v)[i] = Addresses(w)[i]
  <2>1. PICK j \in Nat : /\ j < v.n /\ Ahead(v, j) < i /\ i <= Ahead(v, j + 1)
                         /\ Addresses(v)[i] = v.arr[v.first + j].base + i - Ahead(v, j) - 1
    BY <1>5, AddressIs
  <2>2. j <= k /\ j \in 0..k /\ j < w.n /\ j + 1 \in 0..w.n /\ i \in Nat
    BY <1>1, <2>1
  <2>3. Ahead(v, j) = Ahead(w, j) /\ Ahead(w, j + 1) \in Nat
    BY <1>4, <2>2, AheadGrows
  <2>4. i <= Ahead(w, j + 1)
    <3>1. CASE j = k
      BY <1>3, <3>1
    <3>2. CASE j # k
      <4>1. j + 1 \in 0..k
        BY <2>2, <3>2
      <4> QED BY <1>4, <2>1, <4>1
    <3> QED BY <3>1, <3>2
  <2>5. v.arr[v.first + j].base = w.arr[w.first + j].base
    BY <2>2
  <2>6. Addresses(w)[i] = w.arr[w.first + j].base + i - Ahead(w, j) - 1
    BY <2>1, <2>2, <2>3, <2>4, AddressAt
  <2> QED BY <2>1, <2>3, <2>5, <2>6
<1> QED BY <1>3, <1>5, <1>6

\* The first element whose end is at or behind n (m = FALSE), or behind it (m = TRUE)
LEMMA FirstReaching ==
    ASSUME NEW w, IsWindow(w), w.n > 0, NEW T, NEW x \in Nat,
           T = {j \in 1..w.n : Ahead(w, j) > x} \/ T = {j \in 1..w.n : Ahead(w, j) >= x},
           T # {}
    PROVE  \E k \in Nat : /\ k < w.n /\ Min(T) = k + 1 /\ k + 1 \in T
                          /\ Ahead(w, k) <= x
                          /\ Ahead(w, k) \in Nat /\ Ahead(w, k + 1) \in Nat
<1>0. w.n \in Nat
  BY DEF IsWindow
<1>1. T \in SUBSET Nat
  OBVIOUS
<1>2. Min(T) \in T /\ \A y \in T : Min(T) <= y
  BY <1>1, Least
<1> DEFINE k == Min(T) - 1
<1>3. k \in Nat /\ k < w.n /\ Min(T) = k + 1 /\ k \in 0..w.n /\ k + 1 \in 0..w.n
  BY <1>0, <1>2
<1> HIDE DEF k
<1>4. Ahead(w, k) \in Nat /\ Ahead(w, k + 1) \in Nat
  BY <1>3, AheadGrows
<1>5. Ahead(w, k) <= x
  <2>1. CASE k = 0
    BY <2>1, AheadSteps
  <2>2. CASE k # 0
    <3>1. k \notin T /\ k \in 1..w.n
      BY <1>0, <1>1, <1>2, <1>3, <2>2
    <3> QED BY <1>4, <3>1
  <2> QED BY <2>1, <2>2
<1> QED BY <1>2, <1>3, <1>4, <1>5

\* Positions in an array of l elements that has a window of n elements from f on
LEMMA Positions ==
    ASSUME NEW f \in Nat, f >= 1, NEW n \in Nat, NEW l \in Nat, f + n <= l + 1, NEW k \in Nat, k < n
    PROVE  /\ f + k \in 1..l /\ f + k \in Nat \ {0} /\ n - k \in Nat
           /\ (f + k) + (n - k) <= l + 1 /\ f + (k + 1) <= l + 1
           /\ \A i \in Nat : i < n - k => (f + k) + i = f + (k + i) /\ f + (k + i) \in 1..l
           /\ \A i \in Nat : i < k => f + i \in 1..l /\ f + i # f + k
OBVIOUS

LEMMA Nonempty ==
    ASSUME NEW w, IsWindow(w), NEW x \in Nat, x < Total(w)
    PROVE  w.n > 0 /\ w.n \in Nat
<1>1. w.n \in Nat
  BY DEF IsWindow
<1>2. CASE w.n = 0
  BY <1>2, AheadSteps DEF Total
<1> QED BY <1>1, <1>2

\* modify_iov, first part: what is before offset goes (util.c:1123-1167).
LEMMA FromProperties ==
    ASSUME NEW w, IsWindow(w), NEW offset \in Nat, offset < Total(w)
    PROVE  /\ IsWindow(From(w, offset)) /\ From(w, offset).n > 0
           /\ Total(From(w, offset)) = Total(w) - offset
           /\ \A i \in 1..Total(w) - offset : Addresses(From(w, offset))[i] = Addresses(w)[offset + i]
<1>1. w.n > 0 /\ w.n \in Nat /\ w.n \in 1..w.n
  BY Nonempty
<1> DEFINE T == {j \in 1..w.n : Ahead(w, j) > offset}
<1>2. T # {}
  BY <1>1 DEF Total
<1>3. PICK k \in Nat : /\ k < w.n /\ Min(T) = k + 1 /\ k + 1 \in T
                       /\ Ahead(w, k) <= offset
                       /\ Ahead(w, k) \in Nat /\ Ahead(w, k + 1) \in Nat
  <2> HIDE DEF T
  <2>1. T = {j \in 1..w.n : Ahead(w, j) > offset}
    BY DEF T
  <2> QED BY <1>1, <1>2, <2>1, FirstReaching
<1>4. offset < Ahead(w, k + 1)
  BY <1>3
<1> HIDE DEF T
<1> DEFINE disp == offset - Ahead(w, k)
           at == w.first + k
           v == From(w, offset)
<1>5. w.first \in Nat /\ w.first + (k + 1) - 1 = at /\ (k + 1) - 1 = k /\ w.n - (k + 1) + 1 = w.n - k
  BY <1>1, <1>3 DEF IsWindow
<1>6. v = [arr |-> [w.arr EXCEPT ![at] = [base |-> @.base + disp, len |-> @.len - disp]],
           first |-> at, n |-> w.n - k]
  <2> HIDE DEF at
  <2> QED BY <1>3, <1>5 DEF From, T
<1>7. at \in 1..Len(w.arr) /\ w.arr \in Seq(Element) /\ w.first + w.n <= Len(w.arr) + 1 /\ w.first >= 1
      /\ Len(w.arr) \in Nat
  BY <1>1, <1>3 DEF IsWindow
<1>8. /\ w.arr[at].len \in Nat /\ w.arr[at].base \in Nat
      /\ Ahead(w, k + 1) = Ahead(w, k) + w.arr[at].len
  BY <1>3, ElementLen, AheadSteps DEF Element
<1>9. disp \in Nat /\ w.arr[at].len - disp \in Nat /\ w.arr[at].base + disp \in Nat
  <2> HIDE DEF at
  <2> QED BY <1>3, <1>4, <1>8
<1> DEFINE e == [base |-> w.arr[at].base + disp, len |-> w.arr[at].len - disp]
<1>10. e \in Element
  BY <1>9 DEF Element
<1> HIDE DEF disp, at, v
<1>11. v.arr = [w.arr EXCEPT ![at] = e] /\ v.first = at /\ v.n = w.n - k
       /\ v = [arr |-> v.arr, first |-> v.first, n |-> v.n]
  BY <1>6
<1>12. /\ v.arr \in Seq(Element) /\ Len(v.arr) = Len(w.arr)
       /\ \A j \in 1..Len(w.arr) : v.arr[j] = IF j = at THEN e ELSE w.arr[j]
  <2> HIDE DEF e
  <2> QED BY <1>7, <1>10, <1>11, ExceptSeq
<1>13. IsWindow(v)
  <2>1. /\ w.first + k \in Nat \ {0} /\ w.n - k \in Nat
        /\ (w.first + k) + (w.n - k) <= Len(w.arr) + 1
    BY <1>1, <1>3, <1>5, <1>7, Positions
  <2> QED BY <1>11, <1>12, <2>1 DEF IsWindow, at
<1>14. v.first = w.first + k /\ k + v.n = w.n
  BY <1>1, <1>3, <1>11 DEF at
<1>15. /\ v.arr[v.first].base = w.arr[w.first + k].base + (offset - Ahead(w, k))
       /\ v.arr[v.first].len = w.arr[w.first + k].len - (offset - Ahead(w, k))
  BY <1>7, <1>11, <1>12 DEF at, disp
<1>16. ASSUME NEW i \in Nat, 0 < i, i < v.n PROVE v.arr[v.first + i] = w.arr[w.first + (k + i)]
  <2>0. v.n = w.n - k /\ v.first = w.first + k /\ at = w.first + k
    BY <1>11 DEF at
  <2>1. i < w.n - k
    BY <1>16, <2>0
  <2>2. (w.first + k) + i = w.first + (k + i) /\ w.first + (k + i) \in 1..Len(w.arr)
    BY <1>1, <1>3, <1>5, <1>7, <2>1, Positions
  <2>3. w.first + (k + i) # at
    BY <1>5, <1>16, <2>0
  <2>4. v.arr[w.first + (k + i)] = w.arr[w.first + (k + i)]
    BY <1>12, <2>2, <2>3
  <2> QED BY <2>0, <2>2, <2>4
<1>17. v.n > 0
  BY <1>1, <1>3, <1>11
<1> QED BY <1>3, <1>4, <1>13, <1>14, <1>15, <1>16, <1>17, Dropped DEF v

\* modify_iov, second part: length remains.
LEMMA UpToProperties ==
    ASSUME NEW w, IsWindow(w), w.n > 0, NEW length \in Nat, length <= Total(w)
    PROVE  /\ IsWindow(UpTo(w, length)) /\ UpTo(w, length).n > 0 /\ Total(UpTo(w, length)) = length
           /\ \A i \in 1..length : Addresses(UpTo(w, length))[i] = Addresses(w)[i]
<1>1. w.n \in Nat /\ w.n \in 1..w.n
  BY DEF IsWindow
<1> DEFINE T == {j \in 1..w.n : Ahead(w, j) >= length}
<1>2. T # {}
  BY <1>1 DEF Total
<1>3. PICK k \in Nat : /\ k < w.n /\ Min(T) = k + 1 /\ k + 1 \in T
                       /\ Ahead(w, k) <= length
                       /\ Ahead(w, k) \in Nat /\ Ahead(w, k + 1) \in Nat
  <2> HIDE DEF T
  <2>1. T = {j \in 1..w.n : Ahead(w, j) >= length}
    BY DEF T
  <2> QED BY <1>1, <1>2, <2>1, FirstReaching
<1>4. length <= Ahead(w, k + 1)
  BY <1>3
<1> HIDE DEF T
<1> DEFINE at == w.first + k
           v == UpTo(w, length)
           e == [w.arr[at] EXCEPT !.len = @ - (Ahead(w, k + 1) - length)]
<1>5. w.first \in Nat /\ w.first + (k + 1) - 1 = at
  BY <1>1, <1>3 DEF IsWindow
<1>6. v = [w EXCEPT !.arr[at].len = @ - (Ahead(w, k + 1) - length), !.n = k + 1]
  <2> HIDE DEF at
  <2> QED BY <1>3, <1>5 DEF UpTo, T
<1>7. /\ at \in 1..Len(w.arr) /\ w.arr \in Seq(Element) /\ w.first + w.n <= Len(w.arr) + 1
      /\ w.first >= 1 /\ Len(w.arr) \in Nat
  BY <1>1, <1>3 DEF IsWindow
<1>8. /\ w.arr[at] \in Element /\ w.arr[at].len \in Nat /\ w.arr[at].base \in Nat
      /\ Ahead(w, k + 1) = Ahead(w, k) + w.arr[at].len
  BY <1>3, ElementLen, AheadSteps DEF Element
<1>9. e \in Element /\ e.base = w.arr[at].base /\ e.len = length - Ahead(w, k)
  <2>1. w.arr[at].len - (Ahead(w, k + 1) - length) = length - Ahead(w, k) /\ length - Ahead(w, k) \in Nat
    <3> HIDE DEF at
    <3> QED BY <1>3, <1>4, <1>8
  <2> HIDE DEF at
  <2> QED BY <1>8, <2>1 DEF Element
<1> HIDE DEF at, e, v
<1>10. v.arr = [w.arr EXCEPT ![at] = e] /\ v.first = w.first /\ v.n = k + 1
       /\ v = [arr |-> v.arr, first |-> v.first, n |-> v.n]
  <2>1. w \in [arr : Seq(Element), first : Nat \ {0}, n : Nat]
    BY DEF IsWindow
  <2> QED BY <1>6, <2>1 DEF e
<1>11. /\ v.arr \in Seq(Element) /\ Len(v.arr) = Len(w.arr)
       /\ \A j \in 1..Len(w.arr) : v.arr[j] = IF j = at THEN e ELSE w.arr[j]
  BY <1>7, <1>9, <1>10, ExceptSeq
<1>12. IsWindow(v)
  <2>1. w.first \in Nat \ {0} /\ k + 1 \in Nat /\ w.first + (k + 1) <= Len(w.arr) + 1
    BY <1>1, <1>3, <1>5, <1>7, Positions
  <2> QED BY <1>10, <1>11, <2>1 DEF IsWindow
<1>13. v.arr[v.first + k].len = length - Ahead(w, k) /\ v.arr[v.first + k].base = w.arr[w.first + k].base
  BY <1>7, <1>9, <1>10, <1>11 DEF at
<1>14. ASSUME NEW i \in Nat, i < k PROVE v.arr[v.first + i] = w.arr[w.first + i]
  <2>0. w.first >= 1 /\ w.first + w.n <= Len(w.arr) + 1 /\ Len(w.arr) \in Nat /\ w.first \in Nat
        /\ k < w.n
    BY <1>3, <1>5, <1>7
  <2>1. w.first + i \in 1..Len(w.arr) /\ w.first + i # w.first + k
    BY <1>1, <1>14, <2>0, Positions
  <2>2. at = w.first + k
    BY DEF at
  <2> QED BY <1>10, <1>11, <2>1, <2>2
<1>15. v.n > 0
  BY <1>3, <1>10
<1>16. k < w.n /\ Ahead(w, k) <= length /\ v.n = k + 1
  BY <1>3, <1>10
<1>17. Total(v) = length /\ \A i \in 1..length : Addresses(v)[i] = Addresses(w)[i]
  BY <1>4, <1>12, <1>13, <1>14, <1>16, Cut
<1> QED BY <1>12, <1>15, <1>17 DEF v

\* modify_iov leaves exactly the length addresses from offset on, in their order, for every list
\* and window that has them: its two passes skip, cut and drop elements, also empty ones.
THEOREM ModifyIov ==
    ASSUME NEW w, IsWindow(w), NEW offset \in Nat, NEW length \in Nat, Fits(w, offset, length)
    PROVE  /\ IsWindow(modify_iov(w, offset, length)) /\ Total(modify_iov(w, offset, length)) = length
           /\ \A i \in 1..length : Addresses(modify_iov(w, offset, length))[i] = Addresses(w)[offset + i]
<1>1. offset < Total(w) /\ offset + length <= Total(w) /\ Total(w) \in Nat
  BY AddressesSeq DEF Fits
<1> DEFINE v == From(w, offset)
<1>2. /\ IsWindow(v) /\ v.n > 0 /\ Total(v) = Total(w) - offset
      /\ \A i \in 1..Total(w) - offset : Addresses(v)[i] = Addresses(w)[offset + i]
  BY <1>1, FromProperties
<1>3. length <= Total(v) /\ 1..length \subseteq 1..Total(w) - offset
  BY <1>1, <1>2
<1> HIDE DEF v
<1>4. /\ IsWindow(UpTo(v, length)) /\ Total(UpTo(v, length)) = length
      /\ \A i \in 1..length : Addresses(UpTo(v, length))[i] = Addresses(v)[i]
  BY <1>2, <1>3, UpToProperties
<1> QED BY <1>2, <1>3, <1>4 DEF modify_iov, v

-----------------------------------------------------------------------------
(***************************************************************************)
(* Messages: padding, slices and what is left of a list                      *)
(***************************************************************************)

\* Units that a message of len units takes
Need(len) == IF len % 2 = 0 THEN len ELSE len + 1

LEMMA NeedProperties ==
    ASSUME NEW len \in Nat
    PROVE  /\ Need(len) \in Nat /\ Need(len) >= len /\ (len > 0 => Need(len) > 0)
           /\ Need(len) = len \/ Need(len) = len + 1
BY DEF Need

\* iscsi_sock_msg: the message's addresses, and then one that is padding
LEMMA PaddedProperties ==
    ASSUME NEW w, IsWindow(w), NEW len \in Nat, Total(w) = len
    PROVE  /\ IsWindow(Padded(w, len)) /\ Total(Padded(w, len)) = Need(len)
           /\ \A i \in 1..len : Addresses(Padded(w, len))[i] = Addresses(w)[i]
           /\ \A i \in len + 1..Need(len) : Addresses(Padded(w, len))[i] = 0
<1>1. CASE len % 2 = 0
  <2>1. Padded(w, len) = w /\ Need(len) = len
    BY <1>1 DEF Padded, Need, Align
  <2> QED BY <2>1
<1>2. CASE len % 2 # 0
  <2> DEFINE pad == [base |-> 0, len |-> 1]
             sub == SubSeq(w.arr, w.first, w.first + w.n - 1)
             v == Padded(w, len)
  <2>1. len % 2 = 1 /\ Need(len) = len + 1
    BY <1>2 DEF Need
  <2>2. v = Window(sub \o <<pad>>)
    BY <2>1 DEF Padded, Align
  <2>3. pad \in Element
    BY DEF Element
  <2> HIDE DEF pad, v
  <2>4. w.arr \in Seq(Element) /\ w.first \in Nat /\ w.n \in Nat /\ w.first >= 1
        /\ Len(w.arr) \in Nat /\ w.first + w.n <= Len(w.arr) + 1
    BY DEF IsWindow
  <2>5. \A i \in w.first..w.first + w.n - 1 : w.arr[i] \in Element
    BY <2>4
  <2>6. /\ sub \in Seq(Element) /\ Len(sub) = w.n
        /\ \A i \in 1..w.n : sub[i] = w.arr[w.first + i - 1]
    <3>1. (IF w.first <= w.first + w.n - 1 THEN (w.first + w.n - 1) - w.first + 1 ELSE 0) = w.n
          /\ (w.first + w.n - 1) - w.first + 1 = w.n
          /\ w.first \in Int /\ w.first + w.n - 1 \in Int
      BY <2>4
    <3> QED BY <2>5, <3>1, SubSeqProperties
  <2> HIDE DEF sub
  <2>7. <<pad>> \in Seq(Element) /\ Len(<<pad>>) = 1 /\ <<pad>>[1] = pad
    BY <2>3
  <2>8. /\ sub \o <<pad>> \in Seq(Element) /\ Len(sub \o <<pad>>) = w.n + 1
        /\ \A i \in 1..w.n + 1 : (sub \o <<pad>>)[i] = IF i <= w.n THEN sub[i] ELSE <<pad>>[i - w.n]
    BY <2>6, <2>7, ConcatProperties
  <2>9. /\ v.first = 1 /\ v.n = w.n + 1 /\ v.arr = sub \o <<pad>>
        /\ v = [arr |-> v.arr, first |-> v.first, n |-> v.n]
    BY <2>2, <2>8 DEF Window
  <2>10. IsWindow(v)
    <3>1. v.n \in Nat /\ v.first \in Nat \ {0} /\ v.first + v.n <= Len(v.arr) + 1
      BY <2>4, <2>8, <2>9
    <3> QED BY <2>8, <2>9, <3>1 DEF IsWindow
  <2>11. ASSUME NEW k \in Nat, k < w.n PROVE v.arr[v.first + k] = w.arr[w.first + k]
    <3>1. v.first + k \in 1..w.n + 1 /\ v.first + k <= w.n /\ v.first + k \in 1..w.n
          /\ w.first + (v.first + k) - 1 = w.first + k
      BY <2>4, <2>9, <2>11
    <3> QED BY <2>6, <2>8, <2>9, <3>1
  <2>12. v.arr[v.first + w.n] = pad
    <3>1. v.first + w.n \in 1..w.n + 1 /\ ~(v.first + w.n <= w.n) /\ (v.first + w.n) - w.n = 1
      BY <2>4, <2>9
    <3> QED BY <2>7, <2>8, <2>9, <3>1
  <2>13. \A k \in 0..w.n : Ahead(v, k) = Ahead(w, k)
    <3>1. \A k \in Nat : 0 <= k /\ k < w.n => v.arr[v.first + k].len = w.arr[w.first + (0 + k)].len
      BY <2>11
    <3>2. 0 \in 0..v.n /\ w.n \in 0..v.n /\ 0 + w.n <= w.n /\ 0 <= w.n /\ 0 \in Nat /\ 0 \in Int
      BY <2>4, <2>9
    <3>3. Ahead(v, 0) = Ahead(w, 0 + 0) + 0
      BY <2>10, AheadSteps
    <3>4. \A k \in 0..w.n : Ahead(v, k) = Ahead(w, 0 + k) + 0
      BY <2>10, <3>1, <3>2, <3>3, AheadShift
    <3>5. ASSUME NEW k \in 0..w.n PROVE Ahead(v, k) = Ahead(w, k)
      <4>1. 0 + k = k /\ Ahead(w, k) \in Nat
        BY AheadGrows
      <4> QED BY <3>4, <4>1
    <3> QED BY <3>5
  <2>14. Ahead(v, w.n) = len /\ Ahead(v, w.n + 1) = len + 1
    <3>1. Ahead(v, w.n + 1) = Ahead(v, w.n) + v.arr[v.first + w.n].len
      BY <2>4, <2>10, AheadSteps
    <3>2. w.n \in 0..w.n
      BY <2>4
    <3> QED BY <2>12, <2>13, <3>1, <3>2 DEF Total, pad
  <2>15. Total(v) = Need(len)
    BY <2>1, <2>9, <2>14 DEF Total
  <2>16. ASSUME NEW i \in 1..len PROVE Addresses(v)[i] = Addresses(w)[i]
    <3>1. PICK j \in Nat : /\ j < w.n /\ Ahead(w, j) < i /\ i <= Ahead(w, j + 1)
                           /\ Addresses(w)[i] = w.arr[w.first + j].base + i - Ahead(w, j) - 1
      BY AddressIs
    <3>2. j \in 0..w.n /\ j + 1 \in 0..w.n /\ j < v.n
      BY <2>4, <2>9, <3>1
    <3>3. Ahead(v, j) = Ahead(w, j) /\ Ahead(v, j + 1) = Ahead(w, j + 1)
      BY <2>13, <3>2
    <3>4. Addresses(v)[i] = v.arr[v.first + j].base + i - Ahead(v, j) - 1
      BY <2>10, <3>1, <3>2, <3>3, AddressAt
    <3> QED BY <2>11, <3>1, <3>3, <3>4
  <2>17. Addresses(v)[len + 1] = 0
    <3>1. w.n < v.n
      BY <2>4, <2>9
    <3>2. Addresses(v)[len + 1] = v.arr[v.first + w.n].base + (len + 1) - Ahead(v, w.n) - 1
      <4>1. w.n \in Nat /\ len + 1 \in Nat /\ Ahead(v, w.n) < len + 1 /\ len + 1 <= Ahead(v, w.n + 1)
        BY <2>4, <2>14
      <4> QED BY <2>10, <3>1, <4>1, AddressAt
    <3> QED BY <2>12, <2>14, <3>2 DEF pad
  <2>18. \A i \in len + 1..Need(len) : i = len + 1
    BY <2>1
  <2> QED BY <2>10, <2>15, <2>16, <2>17, <2>18 DEF v
<1> QED BY <1>1, <1>2

\* The window of a whole list
LEMMA WholeWindow ==
    ASSUME NEW list \in Seq(Element)
    PROVE  IsWindow(Window(list))
BY DEF IsWindow, Window

\* The window for len units at off
LEMMA SliceProperties ==
    ASSUME NEW list \in Seq(Element), NEW off \in Nat, NEW len \in Nat, NEW total \in Nat, len > 0,
           IF len = total THEN off = 0 /\ Total(Window(list)) = len ELSE Fits(Window(list), off, len)
    PROVE  /\ IsWindow(Slice(list, off, len, total)) /\ Total(Slice(list, off, len, total)) = Need(len)
           /\ \A i \in 1..len : Addresses(Slice(list, off, len, total))[i] = Addresses(Window(list))[off + i]
           /\ \A i \in len + 1..Need(len) : Addresses(Slice(list, off, len, total))[i] = 0
<1> DEFINE w == IF len = total THEN Window(list) ELSE modify_iov(Window(list), off, len)
<1>1. IsWindow(Window(list))
  BY WholeWindow
<1>2. /\ IsWindow(w) /\ Total(w) = len
      /\ \A i \in 1..len : Addresses(w)[i] = Addresses(Window(list))[off + i]
  <2>1. CASE len = total
    BY <1>1, <2>1
  <2>2. CASE len # total
    BY <1>1, <2>2, ModifyIov
  <2> QED BY <2>1, <2>2
<1> HIDE DEF w
<1>3. /\ IsWindow(Padded(w, len)) /\ Total(Padded(w, len)) = Need(len)
      /\ \A i \in 1..len : Addresses(Padded(w, len))[i] = Addresses(w)[i]
      /\ \A i \in len + 1..Need(len) : Addresses(Padded(w, len))[i] = 0
  BY <1>2, PaddedProperties
<1>4. Slice(list, off, len, total) = Padded(w, len)
  BY DEF Slice, w
<1> QED BY <1>2, <1>3, <1>4

\* A list of one element
LEMMA OneElement ==
    ASSUME NEW base \in Nat, NEW len \in Nat
    PROVE  LET list == <<[base |-> base, len |-> len]>> IN
           /\ list \in Seq(Element) /\ IsWindow(Window(list)) /\ Total(Window(list)) = len
           /\ \A i \in 1..len : Addresses(Window(list))[i] = base + i - 1
<1> DEFINE e == [base |-> base, len |-> len]
           list == <<e>>
           w == Window(list)
<1>1. e \in Element
  BY DEF Element
<1> HIDE DEF e
<1>2. list \in Seq(Element) /\ Len(list) = 1 /\ list[1] = e
  BY <1>1
<1>3. w.arr = list /\ w.first = 1 /\ w.n = 1
  BY <1>2 DEF Window
<1>4. IsWindow(w)
  <2> HIDE DEF list
  <2> QED BY <1>2, WholeWindow
<1> HIDE DEF list, w
<1>5. Ahead(w, 0) = 0 /\ Ahead(w, 1) = len
  <2>1. Ahead(w, 0 + 1) = Ahead(w, 0) + w.arr[w.first + 0].len /\ Ahead(w, 0) = 0
    BY <1>4, AheadSteps
  <2>2. 0 + 1 = 1 /\ w.first + 0 = 1 /\ e.len = len
    BY <1>3 DEF e
  <2> QED BY <1>2, <1>3, <2>1, <2>2
<1>6. Total(w) = len
  BY <1>3, <1>5 DEF Total
<1>7. ASSUME NEW i \in 1..len PROVE Addresses(w)[i] = base + i - 1
  <2>1. 0 < w.n /\ Ahead(w, 0) < i /\ i <= Ahead(w, 0 + 1) /\ i \in Nat
    BY <1>3, <1>5
  <2>2. Addresses(w)[i] = w.arr[w.first + 0].base + i - Ahead(w, 0) - 1
    BY <1>4, <2>1, AddressAt
  <2>3. w.first + 0 = 1 /\ e.base = base
    BY <1>3 DEF e
  <2> QED BY <1>2, <1>3, <1>5, <2>2, <2>3
<1> QED BY <1>2, <1>4, <1>6, <1>7 DEF w, list, e

\* What remains when k units of a window are transferred
LEMMA RestProperties ==
    ASSUME NEW w, IsWindow(w), NEW k \in Nat, k < Total(w)
    PROVE  /\ IsWindow(Rest(w, k)) /\ Total(Rest(w, k)) = Total(w) - k
           /\ \A i \in 1..Total(w) - k : Addresses(Rest(w, k))[i] = Addresses(w)[k + i]
<1>1. Total(w) \in Nat
  BY AddressesSeq
<1>2. Total(w) - k \in Nat /\ Fits(w, k, Total(w) - k)
  BY <1>1 DEF Fits
<1> QED BY <1>2, ModifyIov DEF Rest

\* What data of c at off is sent from: the units that begin with off.
LEMMA SentWindow ==
    ASSUME NEW c, dev[c].length \in Nat, NEW off \in Nat, NEW len \in Nat, NEW total \in Nat, len > 0,
           IF len = total THEN off = 0 /\ len = dev[c].length ELSE Fits(Window(Gather(c)), off, len)
    PROVE  LET w == Slice(Gather(c), off, len, total) IN
           /\ IsWindow(w) /\ Total(w) = Need(len)
           /\ \A i \in 1..len : Addresses(w)[i] = off + i
           /\ \A i \in len + 1..Need(len) : Addresses(w)[i] = 0
<1> DEFINE list == Gather(c)
           w == Slice(list, off, len, total)
<1>1. /\ list \in Seq(Element) /\ IsWindow(Window(list)) /\ Total(Window(list)) = dev[c].length
      /\ \A i \in 1..dev[c].length : Addresses(Window(list))[i] = 1 + i - 1
  BY OneElement DEF Gather
<1> HIDE DEF list
<1>2. IF len = total THEN off = 0 /\ Total(Window(list)) = len ELSE Fits(Window(list), off, len)
  BY <1>1 DEF list
<1>3. /\ IsWindow(w) /\ Total(w) = Need(len)
      /\ \A i \in 1..len : Addresses(w)[i] = Addresses(Window(list))[off + i]
      /\ \A i \in len + 1..Need(len) : Addresses(w)[i] = 0
  BY <1>1, <1>2, SliceProperties
<1> HIDE DEF w
<1>4. off + len <= dev[c].length
  BY <1>1, <1>2 DEF Fits
<1>5. ASSUME NEW i \in 1..len PROVE Addresses(w)[i] = off + i
  <2>1. off + i \in 1..dev[c].length /\ 1 + (off + i) - 1 = off + i
    BY <1>4
  <2>2. Addresses(Window(list))[off + i] = 1 + (off + i) - 1
    BY <1>1, <2>1
  <2> QED BY <1>3, <2>1, <2>2
<1> QED BY <1>3, <1>5 DEF w, list

\* The caller's buffer: an address for every unit, none of them the padding's
LEMMA BufferProperties ==
    ASSUME NEW c, req[c] \in Requests
    PROVE  /\ req[c].transLen \in Nat /\ DOMAIN Buffer(c) = 1..req[c].transLen
           /\ \A i \in 1..req[c].transLen : Buffer(c)[i] \in Nat \ {0}
           /\ req[c].list # <<>> =>
                /\ req[c].list \in Seq(Element) /\ Total(Window(req[c].list)) = req[c].transLen
                /\ Buffer(c) = Addresses(Window(req[c].list))
<1> DEFINE list == req[c].list
           n == req[c].transLen
<1>1. n \in Nat /\ list \in Seq([base : Nat \ {0}, len : Nat]) /\ (list # <<>> => Total(Window(list)) = n)
  BY RequestsAssumption
<1>2. CASE list = <<>>
  BY <1>1, <1>2 DEF Buffer
<1>3. CASE list # <<>>
  <2> DEFINE w == Window(list)
  <2>0. [base : Nat \ {0}, len : Nat] \subseteq Element
    BY DEF Element
  <2>1. list \in Seq(Element)
    BY <1>1, <2>0, SeqMonotonic
  <2>2. IsWindow(w)
    BY <2>1, WholeWindow
  <2>3. Total(w) = n /\ Buffer(c) = Addresses(w)
    BY <1>1, <1>3 DEF Buffer
  <2>4. w.arr = list /\ w.first = 1 /\ w.n = Len(list) /\ Len(list) \in Nat
    BY <1>1 DEF Window
  <2> HIDE DEF w
  <2>5. DOMAIN Buffer(c) = 1..n
    BY <2>2, <2>3, AddressesSeq
  <2>6. ASSUME NEW i \in 1..n PROVE Buffer(c)[i] \in Nat \ {0}
    <3>1. PICK j \in Nat : /\ j < w.n /\ Ahead(w, j) < i /\ i <= Ahead(w, j + 1)
                           /\ Addresses(w)[i] = w.arr[w.first + j].base + i - Ahead(w, j) - 1
      BY <2>2, <2>3, AddressIs
    <3>2. w.first + j \in 1..Len(list) /\ j \in 0..w.n
      BY <2>4, <3>1
    <3>3. w.arr[w.first + j].base \in Nat \ {0}
      <4>1. list[w.first + j] \in [base : Nat \ {0}, len : Nat]
        <5> HIDE DEF list
        <5> QED BY <1>1, <3>2, ElementOfSeq
      <4> QED BY <2>4, <4>1
    <3>4. Ahead(w, j) \in Nat
      BY <2>2, <3>2, AheadGrows
    <3> QED BY <1>1, <2>3, <3>1, <3>3, <3>4
  <2> QED BY <1>1, <2>1, <2>3, <2>5, <2>6 DEF w
<1> QED BY <1>2, <1>3

\* Where data of c at off is read to: the buffer, from off on.
LEMMA RecvWindowProperties ==
    ASSUME NEW c, req[c] \in Requests, NEW off \in Nat, NEW len \in Nat, len > 0,
           off + len <= req[c].transLen
    PROVE  /\ IsWindow(RecvWindow(c, off, len)) /\ Total(RecvWindow(c, off, len)) = Need(len)
           /\ \A i \in 1..len : Addresses(RecvWindow(c, off, len))[i] = Buffer(c)[off + i]
           /\ \A i \in len + 1..Need(len) : Addresses(RecvWindow(c, off, len))[i] = 0
<1> DEFINE n == req[c].transLen
<1>0. n \in Nat
  BY BufferProperties
<1>1. CASE req[c].list = <<>>
  <2> DEFINE list == <<[base |-> off + 1, len |-> len]>>
             w == Window(list)
  <2>1. /\ IsWindow(w) /\ Total(w) = len
        /\ \A i \in 1..len : Addresses(w)[i] = (off + 1) + i - 1
    BY OneElement
  <2>2. RecvWindow(c, off, len) = Padded(w, len)
    BY <1>1 DEF RecvWindow
  <2> HIDE DEF w
  <2>3. /\ IsWindow(Padded(w, len)) /\ Total(Padded(w, len)) = Need(len)
        /\ \A i \in 1..len : Addresses(Padded(w, len))[i] = Addresses(w)[i]
        /\ \A i \in len + 1..Need(len) : Addresses(Padded(w, len))[i] = 0
    BY <2>1, PaddedProperties
  <2>4. ASSUME NEW i \in 1..len PROVE Buffer(c)[off + i] = (off + 1) + i - 1
    <3>1. off + i \in 1..n /\ (off + 1) + i - 1 = off + i
      BY <1>0
    <3> QED BY <1>1, <3>1 DEF Buffer
  <2> QED BY <2>1, <2>2, <2>3, <2>4
<1>2. CASE req[c].list # <<>>
  <2> DEFINE list == req[c].list
  <2>1. list \in Seq(Element) /\ Total(Window(list)) = n /\ Buffer(c) = Addresses(Window(list))
    BY <1>2, BufferProperties
  <2>2. IF len = n THEN off = 0 /\ Total(Window(list)) = len ELSE Fits(Window(list), off, len)
    BY <1>0, <2>1 DEF Fits
  <2>3. RecvWindow(c, off, len) = Slice(list, off, len, n)
    BY <1>2 DEF RecvWindow
  <2> HIDE DEF list, n
  <2> QED BY <1>0, <2>1, <2>2, <2>3, SliceProperties
<1> QED BY <1>1, <1>2

-----------------------------------------------------------------------------
(***************************************************************************)
(* What is on the way to the initiator                                       *)
(***************************************************************************)

UnitAt(off, len, j) == IF j <= len THEN off + j ELSE 0
Unit(c, u) == [kind |-> "unit", cmd |-> c, unit |-> u]
Items ==
    [kind : {"data"}, cmd : Cmds, off : Nat, len : Nat \ {0}]
      \union [kind : {"response"}, cmd : Cmds, status : Nat, sn : Nat]
      \union [kind : {"unit"}, cmd : Cmds, unit : Nat]

\* The units of a header's data are behind it, with the padding.
Framed(F) ==
    \A i \in DOMAIN F : F[i].kind = "data" =>
        /\ i + Need(F[i].len) <= Len(F)
        /\ \A j \in 1..Need(F[i].len) : F[i + j] = Unit(F[i].cmd, UnitAt(F[i].off, F[i].len, j))
\* The data of a command comes in the order of its offsets, ...
Ordered(F) ==
    \A i, j \in DOMAIN F :
        i < j /\ F[i].kind = "data" /\ F[j].kind = "data" /\ F[i].cmd = F[j].cmd
            => F[i].off + F[i].len <= F[j].off
\* ... and nothing of a command comes behind its response.
Closed(F) == \A i, j \in DOMAIN F : i < j /\ F[i].kind = "response" => F[j].cmd # F[i].cmd

Chunks(F, c) == {h \in Range(F) : h.kind = "data" /\ h.cmd = c}
Replies(F, c) == {h \in Range(F) : h.kind = "response" /\ h.cmd = c}
Offs(F, c) == {o \in 0..req[c].transLen : \E h \in Chunks(F, c) : h.off = o}

\* The first k items are gone.
Behind(G, F, k) ==
    /\ G \in Seq(Items) /\ Len(G) = Len(F) - k
    /\ \A i \in 1..Len(G) : G[i] = F[k + i]

LEMMA ItemKinds ==
    ASSUME NEW h \in Items
    PROVE  /\ h.kind \in {"data", "response", "unit"} /\ h.cmd \in Cmds
           /\ h.kind = "data" => h.off \in Nat /\ h.len \in Nat \ {0}
           /\ h.kind = "response" => h.status \in Nat /\ h.sn \in Nat
           /\ h.kind = "unit" => h.unit \in Nat
BY DEF Items

LEMMA RangeItems ==
    ASSUME NEW F \in Seq(Items)
    PROVE  /\ Range(F) \subseteq Items
           /\ \A h : h \in Range(F) <=> \E i \in 1..Len(F) : F[i] = h
<1>1. DOMAIN F = 1..Len(F) /\ \A i \in 1..Len(F) : F[i] \in Items
  BY LenProperties, ElementOfSeq
<1> QED BY <1>1 DEF Range

LEMMA BehindRange ==
    ASSUME NEW F \in Seq(Items), NEW k \in 0..Len(F), NEW G, Behind(G, F, k)
    PROVE  /\ Range(G) \subseteq Range(F)
           /\ \A h \in Range(F) : h \in Range(G) \/ \E i \in 1..k : F[i] = h
<1>1. Len(F) \in Nat /\ G \in Seq(Items) /\ Len(G) = Len(F) - k /\ Len(G) \in Nat /\ k \in Nat
  BY LenProperties DEF Behind
<1>2. ASSUME NEW h \in Range(G) PROVE h \in Range(F)
  <2>1. PICK i \in 1..Len(G) : G[i] = h
    BY <1>1, RangeItems
  <2>2. k + i \in 1..Len(F) /\ F[k + i] = h
    BY <1>1, <2>1 DEF Behind
  <2> QED BY <2>2, RangeItems
<1>3. ASSUME NEW h \in Range(F) PROVE h \in Range(G) \/ \E i \in 1..k : F[i] = h
  <2>1. PICK i \in 1..Len(F) : F[i] = h
    BY RangeItems
  <2>2. CASE i <= k
    BY <2>1, <2>2
  <2>3. CASE ~(i <= k)
    <3>1. i - k \in 1..Len(G) /\ k + (i - k) = i
      BY <1>1, <2>3
    <3>2. G[i - k] = h
      BY <2>1, <3>1 DEF Behind
    <3> QED BY <1>1, <3>1, <3>2, RangeItems
  <2> QED BY <2>2, <2>3
<1> QED BY <1>2, <1>3

LEMMA BehindKeeps ==
    ASSUME NEW F \in Seq(Items), NEW k \in 0..Len(F), NEW G, Behind(G, F, k),
           Framed(F), Ordered(F), Closed(F)
    PROVE  Framed(G) /\ Ordered(G) /\ Closed(G)
<1>1. Len(F) \in Nat /\ G \in Seq(Items) /\ Len(G) = Len(F) - k /\ Len(G) \in Nat /\ k \in Nat
      /\ DOMAIN G = 1..Len(G) /\ DOMAIN F = 1..Len(F)
  BY LenProperties DEF Behind
<1>2. \A i \in DOMAIN G : i \in Nat /\ k + i \in DOMAIN F /\ G[i] = F[k + i] /\ G[i] \in Items
  BY <1>1, ElementOfSeq DEF Behind
<1>3. Framed(G)
  <2> SUFFICES ASSUME NEW i \in DOMAIN G, G[i].kind = "data"
               PROVE  /\ i + Need(G[i].len) <= Len(G)
                      /\ \A j \in 1..Need(G[i].len) : G[i + j] = Unit(G[i].cmd, UnitAt(G[i].off, G[i].len, j))
    BY DEF Framed
  <2> DEFINE n == Need(G[i].len)
  <2>1. n \in Nat
    BY <1>2, ItemKinds, NeedProperties
  <2>2. /\ (k + i) + n <= Len(F)
        /\ \A j \in 1..n : F[(k + i) + j] = Unit(G[i].cmd, UnitAt(G[i].off, G[i].len, j))
    BY <1>2 DEF Framed
  <2> HIDE DEF n
  <2>3. i + n <= Len(G)
    BY <1>1, <1>2, <2>1, <2>2
  <2>4. ASSUME NEW j \in 1..n PROVE G[i + j] = F[(k + i) + j]
    <3>1. i + j \in 1..Len(G) /\ k + (i + j) = (k + i) + j
      BY <1>1, <1>2, <2>1, <2>3
    <3> QED BY <3>1 DEF Behind
  <2> QED BY <2>2, <2>3, <2>4 DEF n
<1>4. \A i, j \in DOMAIN G : i < j => k + i < k + j
  BY <1>1
<1>5. Ordered(G)
  BY <1>2, <1>4 DEF Ordered
<1>6. Closed(G)
  BY <1>2, <1>4 DEF Closed
<1> QED BY <1>3, <1>5, <1>6

LEMMA AppendRange ==
    ASSUME NEW F \in Seq(Items), NEW G \in Seq(Items)
    PROVE  F \o G \in Seq(Items) /\ Range(F \o G) = Range(F) \union Range(G)
<1>1. /\ F \o G \in Seq(Items) /\ Len(F \o G) = Len(F) + Len(G)
      /\ \A i \in 1..Len(F) + Len(G) : (F \o G)[i] = IF i <= Len(F) THEN F[i] ELSE G[i - Len(F)]
  BY ConcatProperties
<1>2. Len(F) \in Nat /\ Len(G) \in Nat
  OBVIOUS
<1>3. ASSUME NEW h \in Range(F \o G) PROVE h \in Range(F) \union Range(G)
  <2>1. PICK i \in 1..Len(F) + Len(G) : (F \o G)[i] = h
    BY <1>1, RangeItems
  <2>2. (i \in 1..Len(F) /\ F[i] = h) \/ (i - Len(F) \in 1..Len(G) /\ G[i - Len(F)] = h)
    BY <1>1, <1>2, <2>1
  <2> QED BY <2>2, RangeItems
<1>4. ASSUME NEW h \in Range(F) PROVE h \in Range(F \o G)
  <2>1. PICK i \in 1..Len(F) : F[i] = h
    BY RangeItems
  <2>2. i \in 1..Len(F) + Len(G) /\ i <= Len(F)
    BY <1>2
  <2> QED BY <1>1, <2>1, <2>2, RangeItems
<1>5. ASSUME NEW h \in Range(G) PROVE h \in Range(F \o G)
  <2>1. PICK i \in 1..Len(G) : G[i] = h
    BY RangeItems
  <2>2. Len(F) + i \in 1..Len(F) + Len(G) /\ ~(Len(F) + i <= Len(F)) /\ (Len(F) + i) - Len(F) = i
    BY <1>2
  <2> QED BY <1>1, <2>1, <2>2, RangeItems
<1> QED BY <1>1, <1>3, <1>4, <1>5

LEMMA AppendKeeps ==
    ASSUME NEW F \in Seq(Items), NEW G \in Seq(Items),
           Framed(F), Ordered(F), Closed(F), Framed(G), Ordered(G), Closed(G),
           \A f \in Range(F) : \A g \in Range(G) :
             /\ f.kind = "data" /\ g.kind = "data" /\ f.cmd = g.cmd => f.off + f.len <= g.off
             /\ f.kind = "response" => f.cmd # g.cmd
    PROVE  Framed(F \o G) /\ Ordered(F \o G) /\ Closed(F \o G)
<1> DEFINE E == F \o G
           m == Len(F)
           n == Len(G)
<1>0. m \in Nat /\ n \in Nat /\ DOMAIN F = 1..m /\ DOMAIN G = 1..n
  OBVIOUS
<1>1. /\ E \in Seq(Items) /\ Len(E) = m + n /\ DOMAIN E = 1..m + n
      /\ \A i \in 1..m + n : E[i] = IF i <= m THEN F[i] ELSE G[i - m]
  BY ConcatProperties
<1> HIDE DEF E
<1>2. \A i \in DOMAIN E :
        /\ i \in Nat
        /\ (i \in DOMAIN F /\ E[i] = F[i]) \/ (i > m /\ i - m \in DOMAIN G /\ E[i] = G[i - m])
  BY <1>0, <1>1
<1>3. \A i \in DOMAIN F : F[i] \in Range(F) /\ F[i] \in Items
  BY RangeItems, <1>0
<1>4. \A i \in DOMAIN G : G[i] \in Range(G) /\ G[i] \in Items
  BY RangeItems, <1>0
<1>5. Framed(E)
  <2> SUFFICES ASSUME NEW i \in DOMAIN E, E[i].kind = "data"
               PROVE  /\ i + Need(E[i].len) <= Len(E)
                      /\ \A j \in 1..Need(E[i].len) : E[i + j] = Unit(E[i].cmd, UnitAt(E[i].off, E[i].len, j))
    BY DEF Framed
  <2>1. CASE i \in DOMAIN F /\ E[i] = F[i]
    <3> DEFINE k == Need(F[i].len)
    <3>1. k \in Nat
      BY <1>3, <2>1, ItemKinds, NeedProperties
    <3>2. i + k <= m /\ \A j \in 1..k : F[i + j] = Unit(F[i].cmd, UnitAt(F[i].off, F[i].len, j))
      BY <2>1 DEF Framed
    <3> HIDE DEF k
    <3>3. \A j \in 1..k : E[i + j] = F[i + j]
      <4> TAKE j \in 1..k
      <4>1. i + j \in 1..m + n /\ i + j <= m
        BY <1>0, <2>1, <3>1, <3>2
      <4> QED BY <1>1, <4>1
    <3>4. i + k <= Len(E)
      BY <1>0, <1>1, <2>1, <3>1, <3>2
    <3> QED BY <2>1, <3>2, <3>3, <3>4 DEF k
  <2>2. CASE i > m /\ i - m \in DOMAIN G /\ E[i] = G[i - m]
    <3> DEFINE k == Need(G[i - m].len)
    <3>1. k \in Nat
      BY <1>4, <2>2, ItemKinds, NeedProperties
    <3>2. /\ (i - m) + k <= n
          /\ \A j \in 1..k : G[(i - m) + j] = Unit(G[i - m].cmd, UnitAt(G[i - m].off, G[i - m].len, j))
      BY <2>2 DEF Framed
    <3> HIDE DEF k
    <3>3. \A j \in 1..k : E[i + j] = G[(i - m) + j]
      <4> TAKE j \in 1..k
      <4>1. i + j \in 1..m + n /\ ~(i + j <= m) /\ (i + j) - m = (i - m) + j
        BY <1>0, <1>1, <2>2, <3>1, <3>2
      <4> QED BY <1>1, <4>1
    <3>4. i + k <= Len(E)
      BY <1>0, <1>1, <2>2, <3>1, <3>2
    <3> QED BY <2>2, <3>2, <3>3, <3>4 DEF k
  <2> QED BY <1>2, <2>1, <2>2
<1>6. ASSUME NEW i \in DOMAIN E, NEW j \in DOMAIN E, i < j
      PROVE  /\ E[i].kind = "data" /\ E[j].kind = "data" /\ E[i].cmd = E[j].cmd => E[i].off + E[i].len <= E[j].off
             /\ E[i].kind = "response" => E[j].cmd # E[i].cmd
  <2>1. CASE i \in DOMAIN F /\ E[i] = F[i] /\ j \in DOMAIN F /\ E[j] = F[j]
    BY <1>6, <2>1 DEF Ordered, Closed
  <2>2. CASE i \in DOMAIN F /\ E[i] = F[i] /\ j - m \in DOMAIN G /\ E[j] = G[j - m]
    BY <1>3, <1>4, <2>2
  <2>3. CASE i - m \in DOMAIN G /\ E[i] = G[i - m] /\ j - m \in DOMAIN G /\ E[j] = G[j - m]
    <3>1. i - m < j - m
      BY <1>0, <1>1, <1>6
    <3> QED BY <2>3, <3>1 DEF Ordered, Closed
  <2>4. ~(i > m /\ j \in DOMAIN F)
    BY <1>0, <1>1, <1>6
  <2> QED BY <1>2, <2>1, <2>2, <2>3, <2>4
<1>7. Ordered(E)
  BY <1>6 DEF Ordered
<1>8. Closed(E)
  BY <1>6 DEF Closed
<1> QED BY <1>5, <1>7, <1>8 DEF E

LEMMA UnitsProperties ==
    ASSUME NEW c \in Cmds, NEW a \in Seq(Nat)
    PROVE  /\ Units(c, a) \in Seq(Items) /\ Len(Units(c, a)) = Len(a)
           /\ \A i \in 1..Len(a) : Units(c, a)[i] = Unit(c, a[i])
<1>1. DOMAIN a = 1..Len(a) /\ Len(a) \in Nat /\ \A i \in 1..Len(a) : a[i] \in Nat
  BY LenProperties, ElementOfSeq
<1>2. Units(c, a) = [i \in 1..Len(a) |-> Unit(c, a[i])]
  BY <1>1 DEF Units, Unit
<1>3. \A i \in 1..Len(a) : Unit(c, a[i]) \in Items
  BY <1>1 DEF Unit, Items
<1> HIDE DEF Unit
<1> QED BY <1>1, <1>2, <1>3

\* A header and its data
LEMMA FrameProperties ==
    ASSUME NEW c \in Cmds, NEW off \in Nat, NEW len \in Nat, len > 0, NEW a \in Seq(Nat), Len(a) = Need(len),
           \A i \in 1..Need(len) : a[i] = UnitAt(off, len, i)
    PROVE  LET G == Header(c, off, len) \o Units(c, a)
               h == [kind |-> "data", cmd |-> c, off |-> off, len |-> len]
           IN  /\ Header(c, off, len) \in Seq(Items)
               /\ G \in Seq(Items) /\ Framed(G) /\ Ordered(G) /\ Closed(G)
               /\ h \in Range(G) /\ \A g \in Range(G) : g.cmd = c /\ (g = h \/ g.kind = "unit")
<1> DEFINE H == Header(c, off, len)
           U == Units(c, a)
           G == H \o U
           h == [kind |-> "data", cmd |-> c, off |-> off, len |-> len]
           n == Need(len)
<1>0. n \in Nat
  BY NeedProperties
<1>1. h \in Items /\ h.kind = "data" /\ h.cmd = c /\ h.off = off /\ h.len = len
  BY DEF Items
<1>2. H = <<h>>
  BY DEF Header
<1> HIDE DEF h, H
<1>3. H \in Seq(Items) /\ Len(H) = 1 /\ H[1] = h
  BY <1>1, <1>2
<1>4. U \in Seq(Items) /\ Len(U) = n /\ \A i \in 1..n : U[i] = Unit(c, a[i])
  BY UnitsProperties
<1> HIDE DEF U
<1>5. /\ G \in Seq(Items) /\ Len(G) = 1 + n
      /\ \A i \in 1..1 + n : G[i] = IF i <= 1 THEN H[i] ELSE U[i - 1]
  <2>1. H \in Seq(Items) /\ U \in Seq(Items) /\ Len(H) = 1 /\ Len(U) = n
    BY <1>3, <1>4
  <2> HIDE DEF n
  <2>2. /\ H \o U \in Seq(Items) /\ Len(H \o U) = Len(H) + Len(U)
        /\ \A i \in 1..Len(H) + Len(U) : (H \o U)[i] = IF i <= Len(H) THEN H[i] ELSE U[i - Len(H)]
    BY <2>1, ConcatProperties
  <2> QED BY <2>1, <2>2
<1> HIDE DEF G, n
<1>6. DOMAIN G = 1..1 + n
  BY <1>5, LenProperties
<1>7. G[1] = h /\ \A i \in 1..1 + n : i # 1 => i - 1 \in 1..n /\ G[i] = Unit(c, a[i - 1])
  <2>1. G[1] = h
    <3>1. 1 \in 1..1 + n /\ 1 <= 1
      BY <1>0
    <3> QED BY <1>3, <1>5, <3>1
  <2>2. ASSUME NEW i \in 1..1 + n, i # 1 PROVE i - 1 \in 1..n /\ G[i] = Unit(c, a[i - 1])
    <3>1. i - 1 \in 1..n /\ ~(i <= 1)
      BY <1>0, <2>2
    <3> QED BY <1>4, <1>5, <3>1
  <2> QED BY <2>1, <2>2
<1>8. \A i \in DOMAIN G : G[i].kind = "data" => i = 1
  BY <1>6, <1>7 DEF Unit
<1>9. \A i \in DOMAIN G : G[i].kind # "response" /\ G[i].cmd = c /\ (G[i] = h \/ G[i].kind = "unit")
  BY <1>1, <1>6, <1>7 DEF Unit
<1>10. Framed(G)
  <2> SUFFICES /\ 1 + Need(h.len) <= Len(G)
               /\ \A j \in 1..Need(h.len) : G[1 + j] = Unit(h.cmd, UnitAt(h.off, h.len, j))
    BY <1>7, <1>8 DEF Framed
  <2>1. Need(h.len) = n
    BY <1>1 DEF n
  <2>2. ASSUME NEW j \in 1..n PROVE G[1 + j] = Unit(c, UnitAt(off, len, j))
    <3>1. 1 + j \in 1..1 + n /\ 1 + j # 1 /\ (1 + j) - 1 = j
      BY <1>0
    <3>2. a[j] = UnitAt(off, len, j)
      BY DEF n
    <3> QED BY <1>7, <3>1, <3>2
  <2>3. 1 + n <= Len(G)
    BY <1>0, <1>5
  <2> QED BY <1>1, <2>1, <2>2, <2>3
<1>11. Ordered(G)
  BY <1>8 DEF Ordered
<1>12. Closed(G)
  BY <1>9 DEF Closed
<1>13. h \in Range(G)
  <2>1. 1 \in 1..Len(G)
    BY <1>0, <1>5
  <2> QED BY <1>5, <1>7, <2>1, RangeItems
<1>14. \A g \in Range(G) : g.cmd = c /\ (g = h \/ g.kind = "unit")
  BY <1>5, <1>6, <1>9, RangeItems
<1> QED BY <1>3, <1>5, <1>10, <1>11, <1>12, <1>13, <1>14 DEF G, H, U, h

\* Two parts of the same units
LEMMA UnitsParts ==
    ASSUME NEW c \in Cmds, NEW a \in Seq(Nat), NEW b \in Seq(Nat), NEW k \in 1..Len(a), Len(b) = Len(a) - k,
           \A i \in 1..Len(b) : b[i] = a[k + i]
    PROVE  Units(c, SubSeq(a, 1, k)) \in Seq(Items)
           /\ Units(c, SubSeq(a, 1, k)) \o Units(c, b) = Units(c, a)
<1> DEFINE s == SubSeq(a, 1, k)
<1>0. Len(a) \in Nat /\ k \in Nat /\ k <= Len(a) /\ Len(b) \in Nat
  OBVIOUS
<1>1. s \in Seq(Nat) /\ Len(s) = k /\ \A i \in 1..k : s[i] = a[i]
  <2>1. \A i \in 1..k : a[i] \in Nat
    BY <1>0, ElementOfSeq
  <2>2. k \in Int /\ 1 \in Int /\ (IF 1 <= k THEN k - 1 + 1 ELSE 0) = k /\ k - 1 + 1 = k
    BY <1>0
  <2>3. s \in Seq(Nat) /\ Len(s) = k /\ \A i \in 1..k : s[i] = a[1 + i - 1]
    BY <2>1, <2>2, SubSeqProperties
  <2> QED BY <2>3
<1> HIDE DEF s
<1>2. /\ Units(c, s) \in Seq(Items) /\ Len(Units(c, s)) = k
      /\ \A i \in 1..k : Units(c, s)[i] = Unit(c, a[i])
  BY <1>1, UnitsProperties
<1>3. /\ Units(c, b) \in Seq(Items) /\ Len(Units(c, b)) = Len(b)
      /\ \A i \in 1..Len(b) : Units(c, b)[i] = Unit(c, a[k + i])
  BY UnitsProperties
<1>4. /\ Units(c, a) \in Seq(Items) /\ Len(Units(c, a)) = Len(a)
      /\ \A i \in 1..Len(a) : Units(c, a)[i] = Unit(c, a[i])
  BY UnitsProperties
<1> DEFINE G == Units(c, s) \o Units(c, b)
<1>5. /\ G \in Seq(Items) /\ Len(G) = k + Len(b)
      /\ \A i \in 1..k + Len(b) : G[i] = IF i <= k THEN Units(c, s)[i] ELSE Units(c, b)[i - k]
  <2> DEFINE x == Units(c, s)
             y == Units(c, b)
  <2>1. x \in Seq(Items) /\ y \in Seq(Items) /\ Len(x) = k /\ Len(y) = Len(b)
    BY <1>2, <1>3
  <2> HIDE DEF x, y
  <2>2. /\ x \o y \in Seq(Items) /\ Len(x \o y) = Len(x) + Len(y)
        /\ \A i \in 1..Len(x) + Len(y) : (x \o y)[i] = IF i <= Len(x) THEN x[i] ELSE y[i - Len(x)]
    BY <2>1, ConcatProperties
  <2> QED BY <2>1, <2>2 DEF x, y
<1> HIDE DEF G
<1>6. Len(G) = Len(a)
  BY <1>0, <1>5
<1>7. ASSUME NEW i \in 1..Len(a) PROVE G[i] = Units(c, a)[i]
  <2>1. i \in 1..k + Len(b)
    BY <1>0
  <2>2. CASE i <= k
    BY <1>0, <1>2, <1>4, <1>5, <2>1, <2>2
  <2>3. CASE ~(i <= k)
    <3>1. i - k \in 1..Len(b) /\ k + (i - k) = i
      BY <1>0, <2>3
    <3> QED BY <1>3, <1>4, <1>5, <2>1, <2>3, <3>1
  <2> QED BY <2>2, <2>3
<1>8. G = Units(c, a)
  BY <1>4, <1>5, <1>6, <1>7, SeqEqual
<1> QED BY <1>2, <1>8 DEF G, s

-----------------------------------------------------------------------------
(***************************************************************************)
(* Staging buffers                                                           *)
(***************************************************************************)

DevFields == {"at", "status", "length", "fromdev", "buf", "off", "win", "sn"}
IniFields == {"status", "bytes", "pdus", "sn", "list"}

Shape ==
    /\ DOMAIN dev = Cmds /\ \A c \in Cmds : DOMAIN dev[c] = DevFields
    /\ DOMAIN ini = Cmds /\ \A c \in Cmds : DOMAIN ini[c] = IniFields
    /\ staging \in [Luns -> Int]
    /\ \A c \in Cmds : req[c].lun \in Luns

\* The commands of a LUN that have a staging buffer
Buffered(l) == {c \in Cmds : req[c].lun = l /\ dev[c].buf}

\* A command has none before it is executed, and while it has one command_done finds
\* it in gather_list, but for a failing ioctl.
BufferPlace(c) ==
    /\ dev[c].at \in {"idle", "execute"} => ~dev[c].buf
    /\ ini[c].status = None => dev[c].at = "idle"
    /\ c \notin IoErrors /\ dev[c].buf => dev[c].fromdev /\ dev[c].at # "finished"

Balanced == \A l \in Luns : staging[l] + Cardinality(Buffered(l)) = NStaging

StagingInv == Shape /\ Balanced /\ \A c \in Cmds : BufferPlace(c)

LEMMA BufferedFinite == \A l : IsFiniteSet(Buffered(l)) /\ Cardinality(Buffered(l)) \in Nat
<1> TAKE l
<1>1. Buffered(l) \subseteq Cmds
  BY DEF Buffered
<1>2. IsFiniteSet(Cmds)
  BY ConstantsAssumption
<1>3. IsFiniteSet(Buffered(l))
  BY <1>1, <1>2, FS_Subset
<1> QED BY <1>3, FS_CardinalityType

\* What is true of every command in a step that takes and gives no buffer
Keeps(c) ==
    /\ dev'[c].buf = dev[c].buf /\ dev'[c].fromdev = dev[c].fromdev
    /\ \/ dev'[c].at = dev[c].at
       \/ dev'[c].at \notin {"idle", "execute", "finished"}
       \/ dev[c].at = "idle" /\ dev'[c].at = "execute"
    /\ ini'[c].status = None => ini[c].status = None
    /\ ini'[c].status = None => dev'[c].at = dev[c].at

LEMMA BufferFrame ==
    ASSUME StagingInv, Shape', UNCHANGED req, UNCHANGED staging, \A c \in Cmds : Keeps(c)
    PROVE  StagingInv'
<1>1. \A l \in Luns : Buffered(l)' = Buffered(l)
  BY DEF Buffered, Keeps
<1>2. Balanced'
  BY <1>1 DEF StagingInv, Balanced
<1>3. \A c \in Cmds : BufferPlace(c)'
  BY DEF StagingInv, BufferPlace, Keeps
<1> QED BY <1>2, <1>3 DEF StagingInv

\* A command takes a buffer.
LEMMA TakeBuffer ==
    ASSUME StagingInv, Shape', UNCHANGED req, NEW c \in Cmds,
           ~dev[c].buf, dev'[c].buf, \A d \in Cmds \ {c} : dev'[d].buf = dev[d].buf,
           staging' = [staging EXCEPT ![req[c].lun] = @ - 1]
    PROVE  Balanced'
<1> SUFFICES ASSUME NEW l \in Luns PROVE staging'[l] + Cardinality(Buffered(l)') = NStaging
  BY DEF Balanced
<1>1. IsFiniteSet(Buffered(l)) /\ Cardinality(Buffered(l)) \in Nat
  BY BufferedFinite
<1>2. staging[l] \in Int /\ staging[l] + Cardinality(Buffered(l)) = NStaging
  BY DEF StagingInv, Balanced, Shape
<1>3. CASE l = req[c].lun
  <2>1. Buffered(l)' = Buffered(l) \union {c} /\ c \notin Buffered(l)
    BY <1>3 DEF Buffered
  <2>2. Cardinality(Buffered(l)') = Cardinality(Buffered(l)) + 1
    BY <1>1, <2>1, FS_AddElement
  <2>3. staging'[l] = staging[l] - 1
    BY <1>3 DEF StagingInv, Shape
  <2> QED BY <1>1, <1>2, <2>2, <2>3
<1>4. CASE l # req[c].lun
  <2>1. Buffered(l)' = Buffered(l)
    BY <1>4 DEF Buffered
  <2>2. staging'[l] = staging[l]
    BY <1>4 DEF StagingInv, Shape
  <2> QED BY <1>2, <2>1, <2>2
<1> QED BY <1>3, <1>4

\* A command gives its buffer back.
LEMMA GiveBuffer ==
    ASSUME StagingInv, Shape', UNCHANGED req, NEW c \in Cmds,
           dev[c].buf, ~dev'[c].buf, \A d \in Cmds \ {c} : dev'[d].buf = dev[d].buf,
           staging' = [staging EXCEPT ![req[c].lun] = @ + 1]
    PROVE  Balanced'
<1> SUFFICES ASSUME NEW l \in Luns PROVE staging'[l] + Cardinality(Buffered(l)') = NStaging
  BY DEF Balanced
<1>1. IsFiniteSet(Buffered(l)) /\ Cardinality(Buffered(l)) \in Nat
  BY BufferedFinite
<1>2. staging[l] \in Int /\ staging[l] + Cardinality(Buffered(l)) = NStaging
  BY DEF StagingInv, Balanced, Shape
<1>3. CASE l = req[c].lun
  <2>1. Buffered(l)' = Buffered(l) \ {c} /\ c \in Buffered(l)
    BY <1>3 DEF Buffered
  <2>2. Cardinality(Buffered(l)') = Cardinality(Buffered(l)) - 1
    BY <1>1, <2>1, FS_RemoveElement
  <2>3. staging'[l] = staging[l] + 1
    BY <1>3 DEF StagingInv, Shape
  <2> QED BY <1>1, <1>2, <2>2, <2>3
<1>4. CASE l # req[c].lun
  <2>1. Buffered(l)' = Buffered(l)
    BY <1>4 DEF Buffered
  <2>2. staging'[l] = staging[l]
    BY <1>4 DEF StagingInv, Shape
  <2> QED BY <1>2, <2>1, <2>2
<1> QED BY <1>3, <1>4

\* What the workers do to other commands: nothing.
DevShape == DOMAIN dev = Cmds /\ \A c \in Cmds : DOMAIN dev[c] = DevFields
Only(c) == DevShape' /\ \A d \in Cmds \ {c} : dev'[d] = dev[d]

\* A step of a worker that moves a command on, and nothing that concerns its buffer
Moved(c) ==
    /\ Only(c) /\ dev'[c].buf = dev[c].buf /\ dev'[c].fromdev = dev[c].fromdev
    /\ dev'[c].at = dev[c].at \/ dev'[c].at \notin {"idle", "execute", "finished"}

LEMMA MovedKeeps ==
    ASSUME StagingInv, NEW c \in Cmds, Moved(c), dev[c].at # "idle", UNCHANGED <<req, ini, staging>>
    PROVE  StagingInv'
<1>1. Shape'
  BY DEF StagingInv, Shape, Moved, Only, DevShape
<1>2. \A d \in Cmds : ini[d].status = None => d # c
  BY DEF StagingInv, BufferPlace
<1>3. \A d \in Cmds : Keeps(d)
  BY <1>2 DEF Moved, Only, Keeps
<1> QED BY <1>1, <1>3, BufferFrame

LEMMA ExecutedProperties ==
    ASSUME DevShape, NEW c \in Cmds, NEW o, NEW buf, Executed(c, o, buf)
    PROVE  Only(c) /\ dev'[c].at = "done" /\ dev'[c].fromdev = o.fromdev /\ dev'[c].buf = buf
  BY DEF DevShape, DevFields, Only, Executed

\* Executing a command: a read takes a buffer and has it in gather_list, if no ioctl fails.
LEMMA ExecuteKeeps ==
    ASSUME StagingInv, NEW c \in Cmds, ExecuteControl(c) \/ ExecuteRead(c) \/ ExecuteReadFails(c)
    PROVE  StagingInv'
<1> USE DEF StagingInv
<1>1. DevShape
  BY DEF Shape, DevShape
<1>2. dev[c].at = "execute" /\ ~dev[c].buf /\ UNCHANGED <<req, ini>>
  BY DEF ExecuteControl, ExecuteRead, ExecuteReadFails, BufferPlace, iniVars
<1>3. ini[c].status # None
  BY <1>2 DEF BufferPlace
<1>4. PICK o, buf : /\ Executed(c, o, buf)
                    /\ buf /\ c \notin IoErrors => o.fromdev
                    /\ \/ buf /\ staging' = [staging EXCEPT ![req[c].lun] = @ - 1]
                       \/ ~buf /\ staging' = staging
  <2>1. CASE ExecuteControl(c)
    BY <2>1 DEF ExecuteControl
  <2>2. CASE ExecuteRead(c)
    <3>1. CASE Staged
      BY <2>2, <3>1 DEF ExecuteRead, FromDev
    <3>2. CASE ~Staged
      <4>1. staging' = staging
        BY <2>2, <3>2 DEF ExecuteRead, Shape
      <4> QED BY <2>2, <3>2, <4>1 DEF ExecuteRead
    <3> QED BY <3>1, <3>2
  <2>3. CASE ExecuteReadFails(c)
    <3>1. PICK taken \in BOOLEAN :
             /\ taken => c \in IoErrors
             /\ staging' = [staging EXCEPT ![req[c].lun] = IF taken THEN @ - 1 ELSE @]
             /\ Executed(c, NoData(2), taken)
      BY <2>3 DEF ExecuteReadFails
    <3>2. CASE taken
      BY <3>1, <3>2
    <3>3. CASE ~taken
      <4>1. staging' = staging
        BY <3>1, <3>3 DEF Shape
      <4> QED BY <3>1, <3>3, <4>1
    <3> QED BY <3>2, <3>3
  <2> QED BY <2>1, <2>2, <2>3
<1>5. Only(c) /\ dev'[c].at = "done" /\ dev'[c].fromdev = o.fromdev /\ dev'[c].buf = buf
  BY <1>1, <1>4, ExecutedProperties
<1>6. Shape'
  BY <1>2, <1>4, <1>5 DEF Shape, Only, DevShape
<1>7. \A d \in Cmds : BufferPlace(d)'
  BY <1>2, <1>3, <1>4, <1>5 DEF BufferPlace, Only
<1>8. Balanced'
  <2>1. CASE buf /\ staging' = [staging EXCEPT ![req[c].lun] = @ - 1]
    BY <1>2, <1>5, <1>6, <2>1, TakeBuffer DEF Only
  <2>2. CASE ~buf /\ staging' = staging
    <3>1. \A l \in Luns : Buffered(l)' = Buffered(l)
      BY <1>2, <1>5, <2>2 DEF Buffered, Only
    <3> QED BY <2>2, <3>1 DEF Balanced
  <2> QED BY <1>4, <2>1, <2>2
<1> QED BY <1>6, <1>7, <1>8

\* command_done: what is in gather_list goes back.
LEMMA CleanUpKeeps ==
    ASSUME StagingInv, NEW c \in Cmds, CleanUp(c)
    PROVE  StagingInv'
<1> USE DEF StagingInv
<1>1. dev[c].at = "cleanup" /\ UNCHANGED <<req, ini>>
  BY DEF CleanUp, iniVars
<1>2. ini[c].status # None
  BY <1>1 DEF BufferPlace
<1>3. PICK r : r = [Idle EXCEPT !.at = "finished", !.buf = dev[c].buf /\ ~GivesBack(c)]
  OBVIOUS
<1>4. DOMAIN r = DevFields /\ r.at = "finished" /\ (r.buf <=> dev[c].buf /\ ~GivesBack(c))
  BY <1>3 DEF Idle, DevFields
<1>5. dev' = [dev EXCEPT ![c] = r]
  BY <1>3 DEF CleanUp
<1>6. Only(c) /\ dev'[c] = r
  BY <1>4, <1>5 DEF Only, DevShape, Shape
<1>7. staging' = [staging EXCEPT ![req[c].lun] = IF GivesBack(c) THEN @ + 1 ELSE @]
  BY DEF CleanUp
<1>8. Shape'
  BY <1>1, <1>6, <1>7 DEF Shape, Only, DevShape
<1>9. \A d \in Cmds : BufferPlace(d)'
  BY <1>1, <1>2, <1>4, <1>6 DEF BufferPlace, Only, GivesBack
<1>10. Balanced'
  <2>1. CASE GivesBack(c)
    <3>1. staging' = [staging EXCEPT ![req[c].lun] = @ + 1]
      BY <1>7, <2>1
    <3> QED BY <1>1, <1>4, <1>6, <1>8, <2>1, <3>1, GiveBuffer DEF GivesBack, Only
  <2>2. CASE ~GivesBack(c)
    <3>1. \A l \in Luns : Buffered(l)' = Buffered(l)
      BY <1>1, <1>4, <1>6, <2>2 DEF Buffered, Only
    <3>2. staging' = staging
      BY <1>7, <2>2 DEF Shape
    <3> QED BY <3>1, <3>2 DEF Balanced
  <2> QED BY <2>1, <2>2
<1> QED BY <1>8, <1>9, <1>10

\* The other steps of a worker
LEMMA SendKeeps ==
    ASSUME StagingInv, NEW c \in Cmds,
           LockStats(c) \/ SendHeader(c) \/ SendUnits(c) \/ Respond(c) \/ SendFails(c)
    PROVE  StagingInv'
<1>1. DevShape
  BY DEF StagingInv, Shape, DevShape
<1>2. UNCHANGED <<req, ini, staging>> /\ dev[c].at # "idle"
  BY DEF LockStats, SendHeader, SendUnits, Respond, SendFails, iniVars
<1>3. Moved(c)
  <2>1. CASE LockStats(c)
    <3>1. PICK at : at \in {"data", "respond"} /\ dev' = [dev EXCEPT ![c].at = at]
      BY <2>1 DEF LockStats
    <3> QED BY <1>1, <3>1 DEF Moved, Only, DevShape, DevFields
  <2>2. CASE SendHeader(c)
    <3>1. (\E w : dev' = [dev EXCEPT ![c].at = "send", ![c].sn = @ + 1, ![c].win = w]) \/ dev' = dev
      BY <2>2 DEF SendHeader
    <3> QED BY <1>1, <3>1 DEF Moved, Only, DevShape, DevFields
  <2>3. CASE SendUnits(c)
    <3>1. \/ \E w : dev' = [dev EXCEPT ![c].win = w]
          \/ \E off, w, at : /\ at \in {"data", "respond"}
                             /\ dev' = [dev EXCEPT ![c].off = off, ![c].win = w, ![c].at = at]
      <4>1. PICK a, k :
               IF k < Len(a)
               THEN dev' = [dev EXCEPT ![c].win = Rest(@, k)]
               ELSE LET off == dev[c].off + DataLength(c) IN
                    dev' = [dev EXCEPT ![c].off = off, ![c].win = Window(<<>>),
                                       ![c].at = IF MoreData(c, off) THEN "data" ELSE "respond"]
        BY <2>3 DEF SendUnits
      <4> HIDE DEF Rest, DataLength, MoreData, Window
      <4> QED BY <4>1
    <3> QED BY <1>1, <3>1 DEF Moved, Only, DevShape, DevFields
  <2>4. CASE Respond(c)
    BY <1>1, <2>4 DEF Respond, Moved, Only, DevShape, DevFields
  <2>5. CASE SendFails(c)
    BY <1>1, <2>5 DEF SendFails, Moved, Only, DevShape
  <2> QED BY <2>1, <2>2, <2>3, <2>4, <2>5
<1> QED BY <1>2, <1>3, MovedKeeps

\* The initiator's steps, and the end of the connection
LEMMA InitiatorKeeps ==
    ASSUME StagingInv,
           RxThread \/ Break \/ CloseAtExit \/ Done \/ \E c \in Cmds : Issue(c)
    PROVE  StagingInv'
<1> USE DEF StagingInv
<1>1. CASE \E c \in Cmds : Issue(c)
  <2>1. PICK c \in Cmds : Issue(c)
    BY <1>1
  <2>2. /\ ini' = [ini EXCEPT ![c].status = "pending"] /\ dev' = [dev EXCEPT ![c].at = "execute"]
        /\ ini[c].status = None /\ UNCHANGED <<req, staging>>
    BY <2>1 DEF Issue
  <2>3. dev[c].at = "idle"
    BY <2>2 DEF BufferPlace
  <2>4. Shape'
    BY <2>2 DEF Shape, DevFields, IniFields
  <2>5. \A d \in Cmds : Keeps(d)
    BY <2>2, <2>3 DEF Keeps, Shape, DevFields, IniFields, None
  <2> QED BY <2>2, <2>4, <2>5, BufferFrame
<1>2. CASE UNCHANGED <<req, staging, dev, ini>>
  <2>1. Shape' /\ \A c \in Cmds : Keeps(c)
    BY <1>2 DEF Shape, Keeps
  <2> QED BY <1>2, <2>1, BufferFrame
<1>3. CASE RecvUnits /\ ~UNCHANGED ini
  <2>1. PICK r : ini' = [ini EXCEPT ![r.cmd].bytes = @ + Received(r.len), ![r.cmd].pdus = @ + 1,
                                    ![r.cmd].list = IF r.own THEN Restored(r.win, @) ELSE @]
    BY <1>3 DEF RecvUnits
  <2>2. PICK x, y, z : ini' = [ini EXCEPT ![r.cmd].bytes = x, ![r.cmd].pdus = y, ![r.cmd].list = z]
    BY <2>1
  <2>3. UNCHANGED <<req, staging, dev>>
    BY <1>3 DEF RecvUnits
  <2>4. DOMAIN ini' = Cmds /\ \A c \in Cmds : DOMAIN ini'[c] = IniFields /\ ini'[c].status = ini[c].status
    BY <2>2 DEF Shape, IniFields
  <2>5. Shape' /\ \A c \in Cmds : Keeps(c)
    BY <2>3, <2>4 DEF Shape, Keeps
  <2> QED BY <2>3, <2>5, BufferFrame
<1>4. CASE RecvResponse
  <2>1. PICK e, sn, status : /\ ini' = [ini EXCEPT ![e].status = status, ![e].sn = sn]
                             /\ status \in {"good", "check"}
    BY <1>4 DEF RecvResponse
  <2>2. UNCHANGED <<req, staging, dev>>
    BY <1>4 DEF RecvResponse
  <2>3. /\ DOMAIN ini' = Cmds
        /\ \A d \in Cmds :
             /\ DOMAIN ini'[d] = IniFields
             /\ ini'[d].status = None => ini[d].status = None
    BY <2>1 DEF Shape, IniFields, None
  <2>4. Shape' /\ \A c \in Cmds : Keeps(c)
    BY <2>2, <2>3 DEF Shape, Keeps
  <2> QED BY <2>2, <2>4, BufferFrame
<1>5. \/ UNCHANGED <<req, staging, dev, ini>>
      \/ RecvUnits /\ ~UNCHANGED ini
      \/ RecvResponse
      \/ \E c \in Cmds : Issue(c)
  <2>1. CASE RecvHeader
    BY <2>1 DEF RecvHeader
  <2>2. CASE RecvUnits
    <3>1. UNCHANGED <<req, staging, dev>>
      BY <2>2 DEF RecvUnits
    <3> QED BY <2>2, <3>1
  <2>3. CASE Break \/ CloseAtExit
    BY <2>3 DEF Break, CloseAtExit, Down
  <2>4. CASE Done
    BY <2>4 DEF Done, vars, iniVars
  <2> QED BY <2>1, <2>2, <2>3, <2>4 DEF RxThread
<1> QED BY <1>1, <1>2, <1>3, <1>4, <1>5

LEMMA InitStaging == Init => StagingInv
<1> SUFFICES ASSUME Init PROVE StagingInv
  OBVIOUS
<1>1. /\ dev = [c \in Cmds |-> Idle] /\ staging = [l \in Luns |-> NStaging]
      /\ req \in [Cmds -> Requests] /\ DOMAIN ini = Cmds
      /\ \A c \in Cmds : ini[c] = [status |-> None, bytes |-> 0, pdus |-> 0, sn |-> 0, list |-> req[c].list]
  BY DEF Init
<1>2. \A c \in Cmds : DOMAIN dev[c] = DevFields /\ dev[c].at = "idle" /\ ~dev[c].buf
  BY <1>1 DEF Idle, DevFields
<1>3. \A c \in Cmds : DOMAIN ini[c] = IniFields
  BY <1>1 DEF IniFields
<1>4. NStaging \in Int
  BY ConstantsAssumption
<1>5. Shape
  BY <1>1, <1>2, <1>3, <1>4 DEF Shape, Luns
<1>6. Balanced
  <2>1. \A l \in Luns : Buffered(l) = {}
    BY <1>2 DEF Buffered
  <2>2. Cardinality({}) = 0
    BY FS_EmptySet
  <2>3. \A l \in Luns : staging[l] = NStaging
    BY <1>1
  <2>4. ASSUME NEW l \in Luns PROVE staging[l] + Cardinality(Buffered(l)) = NStaging
    <3>1. Cardinality(Buffered(l)) = 0
      BY <2>1, <2>2
    <3> QED BY <1>4, <2>3, <3>1
  <2> QED BY <2>4 DEF Balanced
<1> QED BY <1>2, <1>5, <1>6 DEF StagingInv, BufferPlace

LEMMA NextStaging == StagingInv /\ [Next]_vars => StagingInv'
<1> SUFFICES ASSUME StagingInv, [Next]_vars PROVE StagingInv'
  OBVIOUS
<1>1. CASE UNCHANGED vars
  <2>1. UNCHANGED <<req, staging, dev, ini>>
    BY <1>1 DEF vars, iniVars
  <2>2. Shape' /\ \A c \in Cmds : Keeps(c)
    BY <2>1 DEF StagingInv, Shape, Keeps
  <2> QED BY <2>1, <2>2, BufferFrame
<1>2. CASE Next
  BY <1>2, ExecuteKeeps, CleanUpKeeps, SendKeeps, InitiatorKeeps DEF Next, Worker
<1> QED BY <1>1, <1>2

\* A staging buffer is free or belongs to one command, and a command that is finished has none,
\* whatever failed, except for an ioctl of an SG disk: the buffer that it was to fill is
\* lost (disk-alpha.c, disk_read), and such commands (IoErrors) are excepted.
THEOREM BuffersComeBack == Spec => []StagingBack
<1>1. StagingInv => StagingBack
  BY DEF StagingInv, StagingBack, Balanced, Buffered, BufferPlace
<1> QED BY InitStaging, NextStaging, <1>1, PTL DEF Spec

-----------------------------------------------------------------------------
(***************************************************************************)
(* The invariant                                                             *)
(***************************************************************************)

\* What writev has still to take, and all that the initiator will find
Unsent == IF slock = None THEN <<>> ELSE Units(slock, Addresses(dev[slock].win))
Full == stream \o Unsent

Responded(c) == dev[c].at \in {"cleanup", "finished"}
HasUnit(c, u) == \E p \in mem : p.cmd = c /\ p.unit = u

\* The target's loop: where a command is and how much it has sent
DevOK(c) ==
    /\ dev[c].at \in Places
    /\ dev[c].status \in Nat /\ dev[c].length \in Nat /\ dev[c].sn \in Nat
    /\ IsWindow(dev[c].win)
    /\ dev[c].off \in 0..req[c].transLen
    /\ dev[c].at \in {"idle", "execute", "done"} => dev[c].off = 0 /\ dev[c].sn = 0
    /\ dev[c].at \in {"data", "send"} => dev[c].off < req[c].transLen
    /\ dev[c].at = "done" /\ dev[c].status = 0 => dev[c].fromdev \/ req[c].transLen = 0
    /\ dev[c].at = "respond" /\ dev[c].status = 0 => dev[c].off = req[c].transLen
    /\ dev[c].at = "send" => Total(dev[c].win) > 0

\* The initiator's command: bytes_fromdev counts units that are in the buffer.
IniOK(c) ==
    /\ ini[c].status \in {None, "pending", "good", "check"}
    /\ ini[c].bytes \in 0..req[c].transLen /\ ini[c].pdus \in Nat
    /\ Answered(c) => Responded(c)
    /\ ini[c].status = "good" => ini[c].bytes = req[c].transLen /\ ini[c].pdus = ini[c].sn
    /\ \A u \in 1..ini[c].bytes : HasUnit(c, u)

Placed(p) ==
    /\ p.cmd \in Cmds /\ p.from = p.cmd /\ p.unit \in DOMAIN Buffer(p.cmd)
    /\ Buffer(p.cmd)[p.unit] = p.at

Reads(c) == rx # <<>> /\ rx[1].cmd = c
Expected(c) == ini[c].bytes + (IF Reads(c) THEN rx[1].len ELSE 0)
Pdus(c) == ini[c].pdus + (IF Reads(c) THEN 1 ELSE 0)
Sent(c) == dev[c].off + (IF dev[c].at = "send" THEN DataLength(c) ELSE 0)

\* Whoever is in the middle of a message holds slock, ...
LockOK ==
    /\ slock # None => slock \in Cmds /\ dev[slock].at = "send"
    /\ \A c \in Cmds : dev[c].at = "send" => slock = c

\* ... what the rx thread reads next is the rest of the message it is at, d units of
\* which are read, ...
ReadAt(r, F, b) ==
    /\ {"cmd", "len", "win"} \subseteq DOMAIN r
    /\ r.cmd \in Cmds /\ r.len \in Nat \ {0} /\ IsWindow(r.win)
    /\ b + r.len <= req[r.cmd].transLen
    /\ \E d \in 0..Need(r.len) :
         /\ d + Total(r.win) = Need(r.len) /\ Total(r.win) > 0 /\ Total(r.win) <= Len(F)
         /\ \A j \in 1..Total(r.win) :
              /\ F[j] = Unit(r.cmd, UnitAt(b, r.len, d + j))
              /\ Addresses(r.win)[j] = IF d + j <= r.len THEN Buffer(r.cmd)[b + (d + j)] ELSE 0
         /\ \A i \in 1..r.len : i <= d => HasUnit(r.cmd, b + i)
RxOK == rx = <<>> \/ \E r : rx = <<r>> /\ ReadAt(r, Full, ini[r.cmd].bytes)

\* ... the data of a command that is on the way goes from unit e to unit N without a
\* gap, ...
Tiled(F, c, e, N) ==
    /\ e <= N
    /\ \A h \in Chunks(F, c) : e <= h.off /\ h.off + h.len <= N
    /\ \A u \in e + 1..N : \E h \in Chunks(F, c) : h.off < u /\ u <= h.off + h.len

\* ... and is as much, in as many PDUs, as the target's loop or its response says.
Counted(F, c, N) ==
    /\ ~Responded(c) => N = Sent(c) /\ Pdus(c) + Cardinality(Offs(F, c)) = dev[c].sn
    /\ \A h \in Replies(F, c) :
         /\ Responded(c)
         /\ h.status = 0 => N = req[c].transLen
         /\ Pdus(c) + Cardinality(Offs(F, c)) = h.sn
Awaited(F, c) ==
    (Chunks(F, c) # {} \/ Replies(F, c) # {} \/ Reads(c)) => ini[c].status = "pending"
FlowOK(F, c) ==
    /\ Awaited(F, c)
    /\ \E N \in 0..req[c].transLen : Tiled(F, c, Expected(c), N) /\ Counted(F, c, N)

StreamOK ==
    /\ LockOK /\ stream \in Seq(Items)
    /\ Framed(Full) /\ Ordered(Full) /\ Closed(Full)
    /\ RxOK
    /\ \A c \in Cmds : FlowOK(Full, c)

LocalInv ==
    /\ StagingInv /\ staging \in [Luns -> Nat]
    /\ req \in [Cmds -> Requests] /\ seg \in Nat
    /\ slock \in Cmds \union {None}
    /\ stats \in [Luns -> Cmds \union {None}]
    /\ \A c \in Cmds : DevOK(c) /\ IniOK(c)
    /\ \A p \in mem : Placed(p)

ReadInv == LocalInv /\ (up => StreamOK)

LEMMA OffsFinite ==
    ASSUME NEW F, NEW c, req[c].transLen \in Nat
    PROVE  IsFiniteSet(Offs(F, c)) /\ Cardinality(Offs(F, c)) \in Nat
<1>1. IsFiniteSet(0..req[c].transLen)
  <2> DEFINE n == req[c].transLen
  <2>1. 0 \in Int /\ n \in Int
    OBVIOUS
  <2> HIDE DEF n
  <2>2. IsFiniteSet(0..n)
    BY <2>1, FS_Interval
  <2> QED BY <2>2 DEF n
<1>2. Offs(F, c) \subseteq 0..req[c].transLen
  BY DEF Offs
<1>3. IsFiniteSet(Offs(F, c))
  BY <1>1, <1>2, FS_Subset
<1> QED BY <1>3, FS_CardinalityType

LEMMA Requested ==
    ASSUME LocalInv, NEW c \in Cmds
    PROVE  req[c] \in Requests /\ req[c].transLen \in Nat
<1>1. req[c] \in Requests
  BY DEF LocalInv
<1> QED BY <1>1, RequestsAssumption

LEMMA FullItems ==
    ASSUME LocalInv, LockOK, stream \in Seq(Items)
    PROVE  Unsent \in Seq(Items) /\ Full \in Seq(Items)
<1>1. CASE slock = None
  BY <1>1 DEF Unsent, Full
<1>2. CASE slock # None
  <2>1. slock \in Cmds /\ IsWindow(dev[slock].win)
    BY <1>2 DEF LockOK, LocalInv, DevOK
  <2>2. Addresses(dev[slock].win) \in Seq(Nat)
    BY <2>1, AddressesSeq
  <2>3. Units(slock, Addresses(dev[slock].win)) \in Seq(Items)
    BY <2>1, <2>2, UnitsProperties
  <2> QED BY <1>2, <2>3 DEF Unsent, Full
<1> QED BY <1>1, <1>2

LEMMA DataLengthProperties ==
    ASSUME LocalInv, NEW c \in Cmds, dev[c].off < req[c].transLen
    PROVE  /\ DataLength(c) \in Nat /\ DataLength(c) > 0
           /\ dev[c].off + DataLength(c) <= req[c].transLen
           /\ DataLength(c) = req[c].transLen => dev[c].off = 0
<1>1. req[c].transLen \in Nat /\ seg \in Nat /\ dev[c].off \in 0..req[c].transLen
  BY Requested DEF LocalInv, DevOK
<1> QED BY <1>1 DEF DataLength

\* A step that changes nothing in the flow of a command
LEMMA FlowSame ==
    ASSUME NEW c \in Cmds, FlowOK(Full, c), UNCHANGED req,
           Chunks(Full, c)' = Chunks(Full, c), Replies(Full, c)' \subseteq Replies(Full, c),
           Expected(c)' = Expected(c), Pdus(c)' = Pdus(c), Reads(c)' => Reads(c),
           ini[c].status = "pending" => ini'[c].status = "pending",
           Responded(c) => Responded(c)',
           ~Responded(c)' => Sent(c)' = Sent(c) /\ dev'[c].sn = dev[c].sn
    PROVE  FlowOK(Full, c)'
<1>1. Offs(Full, c)' = Offs(Full, c)
  BY DEF Offs
<1>2. Awaited(Full, c)'
  BY DEF FlowOK, Awaited
<1>3. PICK N \in 0..req[c].transLen : Tiled(Full, c, Expected(c), N) /\ Counted(Full, c, N)
  BY DEF FlowOK
<1>4. Tiled(Full, c, Expected(c), N)'
  BY <1>3 DEF Tiled
<1>5. Counted(Full, c, N)'
  BY <1>1, <1>3 DEF Counted
<1> QED BY <1>2, <1>4, <1>5 DEF FlowOK

\* What is read next does not change when more is sent.
LEMMA RxKeeps ==
    ASSUME RxOK, UNCHANGED <<req, rx, mem>>, \A c \in Cmds : ini'[c].bytes = ini[c].bytes,
           Full \in Seq(Items), NEW G \in Seq(Items), Full' = Full \o G
    PROVE  RxOK'
<1> SUFFICES ASSUME NEW r, rx = <<r>>, ReadAt(r, Full, ini[r.cmd].bytes)
             PROVE  ReadAt(r, Full, ini[r.cmd].bytes)'
  BY DEF RxOK
<1>1. Buffer(r.cmd)' = Buffer(r.cmd) /\ \A u : HasUnit(r.cmd, u)' = HasUnit(r.cmd, u)
  BY DEF Buffer, HasUnit
<1>2. /\ Len(Full) \in Nat /\ Len(Full') \in Nat /\ Len(Full) <= Len(Full')
      /\ \A j \in 1..Len(Full) : Full'[j] = Full[j]
  <2>1. Len(G) \in Nat /\ Len(Full) \in Nat
    OBVIOUS
  <2>2. /\ Len(Full \o G) = Len(Full) + Len(G)
        /\ \A i \in 1..Len(Full) + Len(G) : (Full \o G)[i] = IF i <= Len(Full) THEN Full[i] ELSE G[i - Len(Full)]
    BY ConcatProperties
  <2> QED BY <2>1, <2>2
<1>3. /\ r.cmd \in Cmds /\ r.len \in Nat \ {0} /\ ini[r.cmd].bytes + r.len <= req[r.cmd].transLen
      /\ IsWindow(r.win) /\ {"cmd", "len", "win"} \subseteq DOMAIN r
  BY DEF ReadAt
<1>4. Total(r.win) \in Nat
  BY <1>3, AddressesSeq
<1>5. PICK d \in 0..Need(r.len) :
       /\ d + Total(r.win) = Need(r.len) /\ Total(r.win) > 0 /\ Total(r.win) <= Len(Full)
       /\ \A j \in 1..Total(r.win) :
            /\ Full[j] = Unit(r.cmd, UnitAt(ini[r.cmd].bytes, r.len, d + j))
            /\ Addresses(r.win)[j] = IF d + j <= r.len THEN Buffer(r.cmd)[ini[r.cmd].bytes + (d + j)] ELSE 0
       /\ \A i \in 1..r.len : i <= d => HasUnit(r.cmd, ini[r.cmd].bytes + i)
  BY DEF ReadAt
<1>6. Total(r.win) <= Len(Full') /\ \A j \in 1..Total(r.win) : Full'[j] = Full[j]
  BY <1>2, <1>4, <1>5
<1>7. UNCHANGED req /\ ini'[r.cmd].bytes = ini[r.cmd].bytes
  BY <1>3
<1> HIDE DEF Unit, UnitAt
<1> QED BY <1>1, <1>3, <1>5, <1>6, <1>7 DEF ReadAt

\* A step of which the connection sees nothing
LEMMA StreamFrame ==
    ASSUME LocalInv, StreamOK, UNCHANGED <<seg, req, rx, stream, slock, mem>>,
           \A c \in Cmds :
             /\ ini'[c].bytes = ini[c].bytes /\ ini'[c].pdus = ini[c].pdus
             /\ ini[c].status = "pending" => ini'[c].status = "pending"
             /\ dev[c].at = "send" <=> dev'[c].at = "send"
             /\ dev[c].at = "send" => dev'[c].win = dev[c].win
             /\ Responded(c) => Responded(c)'
             /\ ~Responded(c)' => dev'[c].off = dev[c].off /\ dev'[c].sn = dev[c].sn
    PROVE  StreamOK'
<1>1. LockOK'
  BY DEF StreamOK, LockOK
<1>2. Unsent' = Unsent
  <2>1. CASE slock = None
    BY <2>1 DEF Unsent
  <2>2. CASE slock # None
    <3>1. dev'[slock].win = dev[slock].win
      BY <2>2 DEF StreamOK, LockOK
    <3> QED BY <2>2, <3>1 DEF Unsent
  <2> QED BY <2>1, <2>2
<1>3. Full' = Full
  BY <1>2 DEF Full
<1>4. RxOK'
  <2>1. Full \in Seq(Items)
    BY FullItems DEF StreamOK
  <2>2. <<>> \in Seq(Items) /\ Full' = Full \o <<>>
    BY <1>3, <2>1
  <2> QED BY <2>1, <2>2, RxKeeps DEF StreamOK
<1>5. ASSUME NEW c \in Cmds PROVE FlowOK(Full, c)'
  <2>1. FlowOK(Full, c) /\ Chunks(Full, c)' = Chunks(Full, c) /\ Replies(Full, c)' = Replies(Full, c)
    BY <1>3 DEF StreamOK, Chunks, Replies
  <2>2. Expected(c)' = Expected(c) /\ Pdus(c)' = Pdus(c) /\ Reads(c)' = Reads(c)
    BY DEF Expected, Pdus, Reads
  <2>3. ~Responded(c)' => Sent(c)' = Sent(c)
    BY DEF Sent, DataLength
  <2> QED BY <2>1, <2>2, <2>3, FlowSame
<1> QED BY <1>1, <1>3, <1>4, <1>5 DEF StreamOK

-----------------------------------------------------------------------------
(***************************************************************************)
(* The target sends                                                          *)
(***************************************************************************)

\* What SendHeader does, if the data is there
LEMMA HeaderSent ==
    ASSUME LocalInv, NEW c \in Cmds, SendHeader(c), UNCHANGED exited
    PROVE  \E len, w :
             /\ up /\ dev[c].at = "data" /\ slock = None /\ slock' = c
             /\ len = DataLength(c)
             /\ IsWindow(w) /\ Total(w) = Need(len)
             /\ \A i \in 1..Need(len) : Addresses(w)[i] = UnitAt(dev[c].off, len, i)
             /\ stream' = stream \o Header(c, dev[c].off, len)
             /\ dev' = [dev EXCEPT ![c].at = "send", ![c].sn = @ + 1, ![c].win = w]
             /\ UNCHANGED <<seg, req, ini, mem, rx, up, stats, staging>>
<1> DEFINE len == DataLength(c)
           off == dev[c].off
           total == req[c].transLen
           w == Slice(Gather(c), off, len, total)
           enough == IF len = total THEN len = dev[c].length ELSE Fits(Window(Gather(c)), off, len)
<1>1. dev[c].at = "data" /\ dev[c].off < req[c].transLen /\ ~exited
  BY DEF SendHeader, LocalInv, DevOK
<1>2. len \in Nat /\ len > 0 /\ off \in Nat /\ total \in Nat /\ (len = total => off = 0)
  BY <1>1, DataLengthProperties, Requested DEF LocalInv, DevOK
<1>3. /\ up /\ slock = None /\ enough /\ slock' = c
      /\ stream' = stream \o Header(c, off, len)
      /\ dev' = [dev EXCEPT ![c].at = "send", ![c].sn = @ + 1, ![c].win = w]
      /\ UNCHANGED <<seg, req, ini, mem, rx, up, stats, staging>>
  <2> HIDE DEF len, w
  <2>1. w = Slice(Gather(c), off, len, total) /\ len = DataLength(c)
    BY DEF w, len
  <2>2. CASE enough
    BY <2>1, <2>2 DEF SendHeader, iniVars
  <2>3. CASE ~enough
    BY <1>1, <2>1, <2>3 DEF SendHeader
  <2> QED BY <2>2, <2>3
<1> HIDE DEF len, off, total
<1>4. dev[c].length \in Nat
  BY DEF LocalInv, DevOK
<1>5. IF len = total THEN off = 0 /\ len = dev[c].length ELSE Fits(Window(Gather(c)), off, len)
  BY <1>2, <1>3
<1>6. /\ IsWindow(w) /\ Total(w) = Need(len)
      /\ \A i \in 1..len : Addresses(w)[i] = off + i
      /\ \A i \in len + 1..Need(len) : Addresses(w)[i] = 0
  BY <1>2, <1>4, <1>5, SentWindow
<1> HIDE DEF w
<1>7. ASSUME NEW i \in 1..Need(len) PROVE Addresses(w)[i] = UnitAt(off, len, i)
  <2>1. Need(len) \in Nat
    BY <1>2, NeedProperties
  <2>2. CASE i <= len
    BY <1>2, <1>6, <2>1, <2>2 DEF UnitAt
  <2>3. CASE ~(i <= len)
    <3>1. i \in len + 1..Need(len)
      BY <1>2, <2>1, <2>3
    <3> QED BY <1>6, <2>3, <3>1 DEF UnitAt
  <2> QED BY <2>2, <2>3
<1> QED BY <1>1, <1>3, <1>6, <1>7 DEF len, off

LEMMA HeaderStream ==
    ASSUME LocalInv, StreamOK, NEW c \in Cmds, SendHeader(c), UNCHANGED exited
    PROVE  StreamOK'
<1>1. PICK len, w :
             /\ up /\ dev[c].at = "data" /\ slock = None /\ slock' = c
             /\ len = DataLength(c)
             /\ IsWindow(w) /\ Total(w) = Need(len)
             /\ \A i \in 1..Need(len) : Addresses(w)[i] = UnitAt(dev[c].off, len, i)
             /\ stream' = stream \o Header(c, dev[c].off, len)
             /\ dev' = [dev EXCEPT ![c].at = "send", ![c].sn = @ + 1, ![c].win = w]
             /\ UNCHANGED <<seg, req, ini, mem, rx, up, stats, staging>>
  BY HeaderSent
<1>0. PICK off : off = dev[c].off
  OBVIOUS
<1> DEFINE h == [kind |-> "data", cmd |-> c, off |-> off, len |-> len]
           U == Units(c, Addresses(w))
           G == Header(c, off, len) \o U
<1>2. /\ dev'[c].at = "send" /\ dev'[c].sn = dev[c].sn + 1 /\ dev'[c].win = w /\ dev'[c].off = off
      /\ \A d \in Cmds \ {c} : dev'[d] = dev[d]
  BY <1>0, <1>1 DEF LocalInv, StagingInv, Shape, DevFields
<1>3. /\ len \in Nat /\ len > 0 /\ off \in Nat /\ req[c].transLen \in Nat
      /\ off + len <= req[c].transLen /\ dev[c].sn \in Nat
  <2>1. dev[c].off < req[c].transLen /\ dev[c].off \in 0..req[c].transLen /\ dev[c].sn \in Nat
    BY <1>1 DEF LocalInv, DevOK
  <2> QED BY <1>0, <1>1, <2>1, DataLengthProperties, Requested
<1>4. Addresses(w) \in Seq(Nat) /\ Len(Addresses(w)) = Need(len)
  BY <1>1, AddressesSeq
<1>5. /\ Header(c, off, len) \in Seq(Items)
      /\ G \in Seq(Items) /\ Framed(G) /\ Ordered(G) /\ Closed(G)
      /\ h \in Range(G) /\ \A g \in Range(G) : g.cmd = c /\ (g = h \/ g.kind = "unit")
  BY <1>0, <1>1, <1>3, <1>4, FrameProperties
<1>6. U \in Seq(Items)
  BY <1>4, UnitsProperties
<1>7. h.kind = "data" /\ h.cmd = c /\ h.off = off /\ h.len = len
  OBVIOUS
<1> HIDE DEF h, U
<1>8. stream \in Seq(Items) /\ Full = stream
  BY <1>1 DEF StreamOK, Full, Unsent
<1>9. None \notin Cmds
  BY ConstantsAssumption DEF None
<1>10. Unsent' = U
  BY <1>1, <1>2, <1>9 DEF Unsent, U
<1>11. Full' = Full \o G
  BY <1>1, <1>5, <1>6, <1>8, <1>10, ConcatAssociative, <1>0 DEF Full
<1> HIDE DEF G
<1>12. Full \in Seq(Items)
  BY <1>8
<1>13. Full' \in Seq(Items) /\ Range(Full') = Range(Full) \union Range(G)
  BY <1>5, <1>11, <1>12, AppendRange
<1>14. FlowOK(Full, c) /\ ~Responded(c) /\ Sent(c) = off
  BY <1>0, <1>1, <1>3 DEF StreamOK, Responded, Sent
<1>15. PICK N \in 0..req[c].transLen : Tiled(Full, c, Expected(c), N) /\ Counted(Full, c, N)
  BY <1>14 DEF FlowOK
<1>16. N = off /\ Replies(Full, c) = {} /\ Pdus(c) + Cardinality(Offs(Full, c)) = dev[c].sn
  BY <1>14, <1>15 DEF Counted
<1>17. \A g \in Chunks(Full, c) : Expected(c) <= g.off /\ g.off + g.len <= off
  BY <1>15, <1>16 DEF Tiled
<1>18. LockOK'
  BY <1>1, <1>2, <1>9 DEF StreamOK, LockOK
<1>19. stream' \in Seq(Items)
  BY <1>0, <1>1, <1>5, <1>8
<1>20. Framed(Full') /\ Ordered(Full') /\ Closed(Full')
  <2>1. ASSUME NEW f \in Range(Full), NEW g \in Range(G)
        PROVE  /\ f.kind = "data" /\ g.kind = "data" /\ f.cmd = g.cmd => f.off + f.len <= g.off
               /\ f.kind = "response" => f.cmd # g.cmd
    <3>1. g.cmd = c /\ (g = h \/ g.kind = "unit")
      BY <1>5
    <3>2. f.kind = "data" /\ f.cmd = c => f \in Chunks(Full, c)
      BY DEF Chunks
    <3>3. f.kind = "response" /\ f.cmd = c => f \in Replies(Full, c)
      BY DEF Replies
    <3> QED BY <1>7, <1>16, <1>17, <3>1, <3>2, <3>3
  <2>2. Framed(Full) /\ Ordered(Full) /\ Closed(Full)
    BY DEF StreamOK
  <2> QED BY <1>5, <1>11, <1>12, <2>1, <2>2, AppendKeeps
<1>21. RxOK'
  BY <1>1, <1>5, <1>11, <1>12, RxKeeps DEF StreamOK
<1>22. ASSUME NEW d \in Cmds \ {c} PROVE FlowOK(Full, d)'
  <2>1. Chunks(Full, d)' = Chunks(Full, d) /\ Replies(Full, d)' = Replies(Full, d)
    BY <1>5, <1>7, <1>13 DEF Chunks, Replies
  <2>2. Expected(d)' = Expected(d) /\ Pdus(d)' = Pdus(d) /\ Reads(d)' = Reads(d)
    BY <1>1 DEF Expected, Pdus, Reads
  <2>3. Sent(d)' = Sent(d) /\ dev'[d] = dev[d]
    <3>1. dev'[d] = dev[d] /\ UNCHANGED <<seg, req>>
      BY <1>1, <1>2
    <3> QED BY <3>1 DEF Sent, DataLength
  <2> QED BY <1>1, <2>1, <2>2, <2>3, FlowSame DEF StreamOK, Responded
<1>23. FlowOK(Full, c)'
  <2>1. Chunks(Full, c)' = Chunks(Full, c) \union {h} /\ Replies(Full, c)' = {}
    BY <1>5, <1>7, <1>13, <1>16 DEF Chunks, Replies
  <2>2. Expected(c)' = Expected(c) /\ Pdus(c)' = Pdus(c) /\ Reads(c)' = Reads(c)
    BY <1>1 DEF Expected, Pdus, Reads
  <2>3. Sent(c)' = off + len /\ ~Responded(c)'
    <3>1. DataLength(c)' = DataLength(c)
      <4>1. dev'[c].off = dev[c].off /\ UNCHANGED <<seg, req>>
        BY <1>0, <1>1, <1>2
      <4> QED BY <4>1 DEF DataLength
    <3> QED BY <1>1, <1>2, <3>1 DEF Sent, Responded
  <2>4. ini'[c].status = "pending"
    <3>1. ini[c].status # None
      BY <1>1 DEF LocalInv, StagingInv, BufferPlace
    <3>2. ini[c].status = "pending"
      BY <1>14, <3>1 DEF LocalInv, IniOK, Answered
    <3> QED BY <1>1, <3>2
  <2>5. off + len \in 0..req'[c].transLen
    BY <1>1, <1>3
  <2>6. Tiled(Full, c, Expected(c), off + len)'
    <3>1. Expected(c) <= off /\ Expected(c) \in Nat
      <4>1. Expected(c) <= off
        BY <1>15, <1>16 DEF Tiled
      <4>2. Expected(c) \in Nat
        <5>1. ini[c].bytes \in Nat
          BY <1>3 DEF LocalInv, IniOK
        <5>2. Reads(c) => rx[1].len \in Nat
          BY DEF StreamOK, RxOK, Reads, ReadAt
        <5> QED BY <5>1, <5>2 DEF Expected
      <4> QED BY <4>1, <4>2
    <3>2. \A g \in Chunks(Full, c) \union {h} : Expected(c) <= g.off /\ g.off + g.len <= off + len
      <4> TAKE g \in Chunks(Full, c) \union {h}
      <4>1. CASE g = h
        BY <1>3, <1>7, <3>1, <4>1
      <4>2. CASE g \in Chunks(Full, c)
        <5>1. g.off \in Nat /\ g.len \in Nat
          BY <1>12, <4>2, RangeItems, ItemKinds DEF Chunks
        <5> QED BY <1>3, <1>17, <4>2, <5>1
      <4> QED BY <4>1, <4>2
    <3>3. ASSUME NEW u \in Expected(c) + 1..off + len
          PROVE  \E g \in Chunks(Full, c) \union {h} : g.off < u /\ u <= g.off + g.len
      <4>1. CASE u <= off
        <5>1. u \in Expected(c) + 1..N
          BY <1>3, <1>16, <3>1, <4>1
        <5> QED BY <1>15, <5>1 DEF Tiled
      <4>2. CASE ~(u <= off)
        BY <1>3, <1>7, <3>1, <4>2
      <4> QED BY <4>1, <4>2
    <3>4. Expected(c) <= off + len
      BY <1>3, <3>1
    <3> QED BY <2>1, <2>2, <3>2, <3>3, <3>4, <1>3 DEF Tiled
  <2>7. Counted(Full, c, off + len)'
    <3>1. Offs(Full, c)' = Offs(Full, c) \union {off}
      BY <1>1, <1>3, <1>7, <2>1 DEF Offs
    <3>2. off \notin Offs(Full, c)
      <4> SUFFICES ASSUME NEW g \in Chunks(Full, c), g.off = off PROVE FALSE
        BY DEF Offs
      <4>1. g.off \in Nat /\ g.len \in Nat \ {0}
        BY <1>12, RangeItems, ItemKinds DEF Chunks
      <4> QED BY <1>17, <4>1
    <3>3. Cardinality(Offs(Full, c)') = Cardinality(Offs(Full, c)) + 1 /\ Cardinality(Offs(Full, c)) \in Nat
      BY <1>3, <3>1, <3>2, OffsFinite, FS_AddElement
    <3>4. Pdus(c) \in Nat
      BY <1>3 DEF LocalInv, IniOK, Pdus
    <3>5. Pdus(c)' + Cardinality(Offs(Full, c)') = dev'[c].sn
      BY <1>2, <1>16, <2>2, <3>3, <3>4
    <3> QED BY <2>1, <2>3, <3>5 DEF Counted
  <2> QED BY <2>4, <2>5, <2>6, <2>7 DEF FlowOK, Awaited
<1> QED BY <1>18, <1>19, <1>20, <1>21, <1>22, <1>23 DEF StreamOK

\* The units of a message go one after the other: what the initiator will find is the
\* same, also with the last one.
LEMMA UnitsStream ==
    ASSUME LocalInv, StreamOK, NEW c \in Cmds, SendUnits(c)
    PROVE  StreamOK' /\ DevOK(c)'
<1>1. PICK a, k :
         /\ a = Addresses(dev[c].win) /\ k \in 1..Len(a)
         /\ stream' = stream \o Units(c, SubSeq(a, 1, k))
         /\ IF k < Len(a)
            THEN dev' = [dev EXCEPT ![c].win = Rest(@, k)] /\ UNCHANGED slock
            ELSE LET off == dev[c].off + DataLength(c) IN
                 /\ slock' = None
                 /\ dev' = [dev EXCEPT
                              ![c].off = off, ![c].win = Window(<<>>),
                              ![c].at = IF MoreData(c, off) THEN "data" ELSE "respond"]
  BY DEF SendUnits
<1>2. dev[c].at = "send" /\ UNCHANGED <<seg, req, ini, mem, rx, up>>
  BY DEF SendUnits, iniVars
<1>3. PICK off, w, at, lock :
         /\ dev' = [dev EXCEPT ![c].off = off, ![c].win = w, ![c].at = at] /\ slock' = lock
         /\ \/ /\ k < Len(a) /\ w = Rest(dev[c].win, k) /\ off = dev[c].off /\ at = "send" /\ lock = slock
            \/ /\ ~(k < Len(a)) /\ w = Window(<<>>) /\ off = dev[c].off + DataLength(c)
               /\ at = IF MoreData(c, off) THEN "data" ELSE "respond"
               /\ lock = None
  <2> HIDE DEF Rest, Window, MoreData, DataLength
  <2>1. CASE k < Len(a)
    <3>1. dev' = [dev EXCEPT ![c].off = dev[c].off, ![c].win = Rest(dev[c].win, k), ![c].at = "send"]
      BY <1>1, <1>2, <2>1 DEF LocalInv, StagingInv, Shape, DevFields
    <3> QED BY <1>1, <2>1, <3>1
  <2>2. CASE ~(k < Len(a))
    <3> DEFINE o == dev[c].off + DataLength(c)
               t == IF MoreData(c, o) THEN "data" ELSE "respond"
    <3>1. dev' = [dev EXCEPT ![c].off = o, ![c].win = Window(<<>>), ![c].at = t] /\ slock' = None
      BY <1>1, <2>2
    <3> QED BY <2>2, <3>1
  <2> QED BY <2>1, <2>2
<1>4. /\ dev'[c].off = off /\ dev'[c].win = w /\ dev'[c].at = at
      /\ dev'[c].sn = dev[c].sn /\ dev'[c].status = dev[c].status /\ dev'[c].length = dev[c].length
      /\ \A d \in Cmds \ {c} : dev'[d] = dev[d]
  BY <1>3 DEF LocalInv, StagingInv, Shape, DevFields
<1>5. slock = c /\ c # None
  BY <1>2, ConstantsAssumption DEF StreamOK, LockOK, None
<1>6. /\ IsWindow(dev[c].win) /\ a \in Seq(Nat) /\ Len(a) = Total(dev[c].win) /\ Len(a) \in Nat
      /\ dev[c].off < req[c].transLen /\ req[c].transLen \in Nat /\ dev[c].off \in Nat
  <2>1. IsWindow(dev[c].win) /\ dev[c].off < req[c].transLen /\ dev[c].off \in 0..req[c].transLen
    BY <1>2 DEF LocalInv, DevOK
  <2>2. req[c].transLen \in Nat
    BY Requested
  <2>3. a \in Seq(Nat) /\ Len(a) = Total(dev[c].win) /\ Len(a) \in Nat
    BY <1>1, <2>1, AddressesSeq
  <2> QED BY <2>1, <2>2, <2>3
<1>7. DataLength(c) \in Nat /\ dev[c].off + DataLength(c) <= req[c].transLen
  BY <1>6, DataLengthProperties
\* What is left of the window
<1>8. PICK b : /\ b \in Seq(Nat) /\ Len(b) = Len(a) - k /\ \A i \in 1..Len(b) : b[i] = a[k + i]
               /\ Unsent' = IF k < Len(a) THEN Units(c, b) ELSE <<>>
               /\ IsWindow(w) /\ (k < Len(a) => b = Addresses(w) /\ Total(w) > 0)
  <2>1. CASE k < Len(a)
    <3>1. k \in Nat /\ k < Total(dev[c].win)
      BY <1>6, <2>1, <1>1
    <3>2. /\ IsWindow(w) /\ Total(w) = Len(a) - k
          /\ \A i \in 1..Len(a) - k : Addresses(w)[i] = a[k + i]
      BY <1>1, <1>3, <1>6, <2>1, <3>1, RestProperties
    <3>3. Addresses(w) \in Seq(Nat) /\ Len(Addresses(w)) = Len(a) - k
      BY <3>2, AddressesSeq
    <3>4. Unsent' = Units(c, Addresses(w))
      BY <1>3, <1>4, <1>5, <2>1 DEF Unsent
    <3>5. Total(w) > 0
      BY <1>1, <1>6, <2>1, <3>1, <3>2
    <3> DEFINE b == Addresses(w)
    <3>6. /\ b \in Seq(Nat) /\ Len(b) = Len(a) - k /\ \A i \in 1..Len(b) : b[i] = a[k + i]
          /\ Unsent' = IF k < Len(a) THEN Units(c, b) ELSE <<>>
          /\ IsWindow(w) /\ (k < Len(a) => b = Addresses(w) /\ Total(w) > 0)
      BY <2>1, <3>2, <3>3, <3>4, <3>5
    <3> QED BY <3>6
  <2>2. CASE ~(k < Len(a))
    <3>1. Len(a) - k = 0
      BY <1>1, <1>6, <2>2
    <3>2. <<>> \in Seq(Nat) /\ Len(<<>>) = 0
      OBVIOUS
    <3>3. Unsent' = <<>>
      BY <1>3, <2>2 DEF Unsent
    <3>4. IsWindow(w)
      <4>1. <<>> \in Seq(Element)
        OBVIOUS
      <4> QED BY <1>3, <2>2, <4>1, WholeWindow
    <3> DEFINE b == <<>>
    <3>5. b \in Seq(Nat) /\ Len(b) = 0
      OBVIOUS
    <3>6. Unsent' = b
      BY <3>3
    <3> HIDE DEF b
    <3>7. Len(b) = Len(a) - k /\ \A i \in 1..Len(b) : b[i] = a[k + i]
      BY <3>1, <3>5
    <3>8. Unsent' = IF k < Len(a) THEN Units(c, b) ELSE <<>>
      BY <2>2, <3>3
    <3> QED BY <2>2, <3>4, <3>5, <3>7, <3>8
  <2> QED BY <2>1, <2>2
<1>9. stream \in Seq(Items) /\ Full = stream \o Units(c, a)
  BY <1>1, <1>5 DEF StreamOK, Full, Unsent
<1>10. Units(c, SubSeq(a, 1, k)) \in Seq(Items) /\ Units(c, b) \in Seq(Items)
       /\ Units(c, SubSeq(a, 1, k)) \o Units(c, b) = Units(c, a)
  <2>1. k \in 1..Len(a) /\ a \in Seq(Nat) /\ b \in Seq(Nat) /\ Len(b) = Len(a) - k
        /\ \A i \in 1..Len(b) : b[i] = a[k + i]
    BY <1>1, <1>6, <1>8
  <2>2. Units(c, b) \in Seq(Items)
    BY <2>1, UnitsProperties
  <2>3. Units(c, SubSeq(a, 1, k)) \in Seq(Items) /\ Units(c, SubSeq(a, 1, k)) \o Units(c, b) = Units(c, a)
    BY <2>1, UnitsParts
  <2> QED BY <2>2, <2>3
<1>11. stream' \in Seq(Items)
  BY <1>1, <1>9, <1>10
<1>12. Unsent' = Units(c, b)
  <2>1. CASE k < Len(a)
    BY <1>8, <2>1
  <2>2. CASE ~(k < Len(a))
    <3>1. Len(b) = 0
      BY <1>1, <1>6, <1>8, <2>2
    <3>2. Len(Units(c, b)) = 0 /\ Units(c, b) \in Seq(Items)
      BY <1>8, <3>1, UnitsProperties
    <3>3. Units(c, b) = <<>>
      BY <3>2, EmptySeq
    <3> QED BY <1>8, <2>2, <3>3
  <2> QED BY <2>1, <2>2
<1>13. Full' = Full
  <2> DEFINE s == Units(c, SubSeq(a, 1, k))
             t == Units(c, b)
  <2>1. s \in Seq(Items) /\ t \in Seq(Items) /\ s \o t = Units(c, a)
    BY <1>10
  <2>2. Full' = (stream \o s) \o t
    BY <1>1, <1>12 DEF Full
  <2> HIDE DEF s, t
  <2>3. (stream \o s) \o t = stream \o (s \o t)
    <3>1. stream \in Seq(Items) /\ s \in Seq(Items) /\ t \in Seq(Items)
      BY <1>9, <2>1
    <3> QED BY ONLY <3>1, ConcatAssociative
  <2> QED BY <1>9, <2>1, <2>2, <2>3
<1>14. Full \in Seq(Items)
  BY FullItems DEF StreamOK
<1>15. LockOK'
  <2>1. \A d \in Cmds \ {c} : dev[d].at # "send"
    BY <1>5 DEF StreamOK, LockOK
  <2>2. at \in {"send", "data", "respond"} /\ (at = "send" <=> k < Len(a))
    BY <1>3
  <2>3. at = "send" => slock' = c
    BY <1>3, <1>5, <2>2
  <2>4. at # "send" => slock' = None
    BY <1>3
  <2> QED BY <1>4, <1>5, <2>1, <2>3, <2>4 DEF LockOK
<1>16. RxOK'
  <2>1. <<>> \in Seq(Items) /\ Full' = Full \o <<>>
    BY <1>13, <1>14
  <2> QED BY <1>2, <1>14, <2>1, RxKeeps DEF StreamOK
<1>17. ASSUME NEW d \in Cmds PROVE FlowOK(Full, d)'
  <2>1. Chunks(Full, d)' = Chunks(Full, d) /\ Replies(Full, d)' = Replies(Full, d)
    BY <1>13 DEF Chunks, Replies
  <2>2. Expected(d)' = Expected(d) /\ Pdus(d)' = Pdus(d) /\ Reads(d)' = Reads(d)
    BY <1>2 DEF Expected, Pdus, Reads
  <2>3. Sent(d)' = Sent(d) /\ dev'[d].sn = dev[d].sn /\ (Responded(d) => Responded(d)')
    <3>1. CASE d # c
      <4>1. dev'[d] = dev[d] /\ UNCHANGED <<seg, req>>
        BY <1>2, <1>4, <3>1
      <4> QED BY <4>1 DEF Sent, DataLength, Responded
    <3>2. CASE d = c
      <4>1. ~Responded(c)
        BY <1>2 DEF Responded
      <4>2. Sent(c) = dev[c].off + DataLength(c)
        BY <1>2 DEF Sent
      <4>3. CASE k < Len(a)
        <5>1. dev'[c].off = dev[c].off /\ dev'[c].at = "send" /\ UNCHANGED <<seg, req>>
          BY <1>2, <1>3, <1>4, <4>3
        <5>2. DataLength(c)' = DataLength(c)
          BY <5>1 DEF DataLength
        <5> QED BY <1>4, <3>2, <4>1, <4>2, <5>1, <5>2 DEF Sent
      <4>4. CASE ~(k < Len(a))
        <5>1. dev'[c].off = dev[c].off + DataLength(c) /\ dev'[c].at # "send"
          BY <1>3, <1>4, <4>4
        <5>2. Sent(c)' = (dev[c].off + DataLength(c)) + 0
          BY <5>1 DEF Sent
        <5> QED BY <1>4, <1>6, <1>7, <3>2, <4>1, <4>2, <5>2
      <4> QED BY <4>3, <4>4
    <3> QED BY <3>1, <3>2
  <2> QED BY <1>2, <2>1, <2>2, <2>3, FlowSame DEF StreamOK
<1>18. StreamOK'
  <2>1. Framed(Full') /\ Ordered(Full') /\ Closed(Full')
    BY <1>13 DEF StreamOK
  <2> QED BY <1>11, <1>15, <1>16, <1>17, <2>1 DEF StreamOK
<1>19. DevOK(c)'
  <2>1. /\ dev[c].status \in Nat /\ dev[c].length \in Nat /\ dev[c].sn \in Nat
    BY DEF LocalInv, DevOK
  <2>2. at \in {"send", "data", "respond"} /\ (at = "send" <=> k < Len(a))
    BY <1>3
  <2>3. /\ off \in 0..req[c].transLen
        /\ at \in {"data", "send"} => off < req[c].transLen
        /\ at = "respond" => off = req[c].transLen
    <3>1. CASE k < Len(a)
      BY <1>3, <1>6, <3>1
    <3>2. CASE ~(k < Len(a))
      <4>1. off = dev[c].off + DataLength(c) /\ at = IF MoreData(c, off) THEN "data" ELSE "respond"
        BY <1>3, <3>2
      <4>2. off \in Nat /\ off <= req[c].transLen
        BY <1>6, <1>7, <4>1
      <4> QED BY <1>6, <4>1, <4>2 DEF MoreData
    <3> QED BY <3>1, <3>2
  <2>4. at = "send" => Total(w) > 0
    BY <1>8, <2>2
  <2> QED BY <1>2, <1>4, <1>8, <2>1, <2>2, <2>3, <2>4 DEF DevOK, Places
<1> QED BY <1>18, <1>19

\* The response goes behind all of the command's data.
LEMMA ResponseStream ==
    ASSUME LocalInv, StreamOK, NEW c \in Cmds, Respond(c)
    PROVE  StreamOK'
<1>1. /\ up /\ dev[c].at = "respond" /\ slock = None
      /\ stream' = stream \o Response(c)
      /\ UNCHANGED <<seg, req, ini, mem, rx, up, slock>>
  BY DEF Respond, iniVars
<1>2. /\ dev'[c].at = "cleanup" /\ dev'[c].sn = dev[c].sn /\ dev'[c].off = dev[c].off
      /\ \A d \in Cmds \ {c} : dev'[d] = dev[d]
  BY DEF Respond, LocalInv, StagingInv, Shape, DevFields
<1>3. PICK h : h = [kind |-> "response", cmd |-> c, status |-> dev[c].status, sn |-> dev[c].sn]
  OBVIOUS
<1>4. h.kind = "response" /\ h.cmd = c /\ h.status = dev[c].status /\ h.sn = dev[c].sn
  BY <1>3
<1>5. h \in Items
  BY <1>3 DEF LocalInv, DevOK, Items
<1> DEFINE G == <<h>>
<1>6. Response(c) = G
  BY <1>3 DEF Response
<1>7. G \in Seq(Items) /\ Len(G) = 1 /\ DOMAIN G = {1} /\ G[1] = h
  BY <1>5
<1>8. Range(G) = {h}
  BY <1>7 DEF Range
<1> HIDE DEF G
<1>9. stream \in Seq(Items) /\ Full = stream /\ Full' = Full \o G /\ stream' \in Seq(Items)
  <2>1. stream \in Seq(Items)
    BY DEF StreamOK
  <2>2. stream \o G \in Seq(Items) /\ stream \o <<>> = stream /\ (stream \o G) \o <<>> = stream \o G
    BY <1>7, <2>1
  <2> QED BY <1>1, <1>6, <2>1, <2>2 DEF Full, Unsent
<1>10. Range(Full') = Range(Full) \union {h}
  BY <1>7, <1>8, <1>9, AppendRange
<1>11. LockOK'
  BY <1>1, <1>2 DEF StreamOK, LockOK
<1>12. FlowOK(Full, c) /\ ~Responded(c) /\ Sent(c) = dev[c].off + 0
  BY <1>1 DEF StreamOK, Responded, Sent
<1>13. PICK N \in 0..req[c].transLen : Tiled(Full, c, Expected(c), N) /\ Counted(Full, c, N)
  BY <1>12 DEF FlowOK
<1>14. N = dev[c].off /\ Replies(Full, c) = {} /\ Pdus(c) + Cardinality(Offs(Full, c)) = dev[c].sn
  BY <1>12, <1>13 DEF Counted, LocalInv, DevOK
<1>15. Framed(Full') /\ Ordered(Full') /\ Closed(Full')
  <2>1. Framed(G) /\ Ordered(G) /\ Closed(G)
    BY <1>4, <1>7 DEF Framed, Ordered, Closed
  <2>2. ASSUME NEW f \in Range(Full), NEW g \in Range(G)
        PROVE  /\ f.kind = "data" /\ g.kind = "data" /\ f.cmd = g.cmd => f.off + f.len <= g.off
               /\ f.kind = "response" => f.cmd # g.cmd
    <3>1. f.kind = "response" /\ f.cmd = c => f \in Replies(Full, c)
      BY DEF Replies
    <3> QED BY <1>4, <1>8, <1>14, <3>1
  <2>3. Framed(Full) /\ Ordered(Full) /\ Closed(Full)
    BY DEF StreamOK
  <2> QED BY <1>7, <1>9, <2>1, <2>2, <2>3, AppendKeeps
<1>16. RxOK'
  BY <1>1, <1>7, <1>9, RxKeeps DEF StreamOK
<1>17. ASSUME NEW d \in Cmds \ {c} PROVE FlowOK(Full, d)'
  <2>1. Chunks(Full, d)' = Chunks(Full, d) /\ Replies(Full, d)' = Replies(Full, d)
    BY <1>4, <1>10 DEF Chunks, Replies
  <2>2. Expected(d)' = Expected(d) /\ Pdus(d)' = Pdus(d) /\ Reads(d)' = Reads(d)
    BY <1>1 DEF Expected, Pdus, Reads
  <2>3. dev'[d] = dev[d] /\ UNCHANGED <<seg, req>>
    BY <1>1, <1>2
  <2>4. Sent(d)' = Sent(d)
    BY <2>3 DEF Sent, DataLength
  <2> QED BY <1>1, <2>1, <2>2, <2>3, <2>4, FlowSame DEF StreamOK, Responded
<1>18. FlowOK(Full, c)'
  <2>1. Chunks(Full, c)' = Chunks(Full, c) /\ Replies(Full, c)' = {h}
    BY <1>4, <1>10, <1>14 DEF Chunks, Replies
  <2>2. Expected(c)' = Expected(c) /\ Pdus(c)' = Pdus(c) /\ Reads(c)' = Reads(c)
    BY <1>1 DEF Expected, Pdus, Reads
  <2>3. ini'[c].status = "pending"
    <3>1. ini[c].status # None
      BY <1>1 DEF LocalInv, StagingInv, BufferPlace
    <3>2. ini[c].status = "pending"
      BY <1>12, <3>1 DEF LocalInv, IniOK, Answered
    <3> QED BY <1>1, <3>2
  <2>4. Responded(c)'
    BY <1>2 DEF Responded
  <2>5. dev[c].status = 0 => N = req[c].transLen
    BY <1>1, <1>14 DEF LocalInv, DevOK
  <2>6. Offs(Full, c)' = Offs(Full, c)
    BY <1>1, <2>1 DEF Offs
  <2>7. Counted(Full, c, N)'
    BY <1>1, <1>4, <1>14, <2>1, <2>2, <2>4, <2>5, <2>6 DEF Counted
  <2>8. Tiled(Full, c, Expected(c), N)'
    BY <1>13, <2>1, <2>2 DEF Tiled
  <2> QED BY <1>1, <2>3, <2>7, <2>8 DEF FlowOK, Awaited
<1> QED BY <1>9, <1>11, <1>15, <1>16, <1>17, <1>18 DEF StreamOK

\* A step of the rx thread that takes the first k items, and what the workers send
LEMMA FullBehind ==
    ASSUME LocalInv, StreamOK, UNCHANGED <<dev, slock>>, NEW k \in 1..Len(stream),
           stream' = SubSeq(stream, k + 1, Len(stream))
    PROVE  /\ stream' \in Seq(Items) /\ Unsent' = Unsent
           /\ Full \in Seq(Items) /\ k \in 0..Len(Full) /\ Behind(Full', Full, k)
           /\ \A i \in 1..k : Full[i] = stream[i]
           /\ Framed(Full') /\ Ordered(Full') /\ Closed(Full')
<1> DEFINE m == Len(stream)
           s == SubSeq(stream, k + 1, m)
<1>0. stream \in Seq(Items) /\ m \in Nat /\ k \in 1..m
  BY DEF StreamOK
<1>1. Unsent \in Seq(Items) /\ Full \in Seq(Items)
  BY FullItems DEF StreamOK
<1>2. Unsent' = Unsent
  BY DEF Unsent
<1> HIDE DEF m
<1>3. s \in Seq(Items) /\ Len(s) = m - k /\ \A i \in 1..m - k : s[i] = stream[k + i]
  <2>1. ASSUME NEW i \in k + 1..m PROVE stream[i] \in Items
    <3>1. i \in 1..m
      BY <1>0
    <3> QED BY <1>0, <3>1, ElementOfSeq DEF m
  <2>2. k + 1 \in Int /\ m \in Int /\ m - (k + 1) + 1 = m - k /\ (IF k + 1 <= m THEN m - (k + 1) + 1 ELSE 0) = m - k
    BY <1>0
  <2>3. s \in Seq(Items) /\ Len(s) = m - k /\ \A i \in 1..m - k : s[i] = stream[(k + 1) + i - 1]
    BY <2>1, <2>2, SubSeqProperties
  <2>4. \A i \in 1..m - k : (k + 1) + i - 1 = k + i
    BY <1>0
  <2> QED BY <2>3, <2>4
<1>4. stream' = s
  BY DEF m
<1> HIDE DEF s
<1> DEFINE n == Len(Unsent)
<1>5. /\ Len(Full) = m + n /\ n \in Nat
      /\ \A i \in 1..m + n : Full[i] = IF i <= m THEN stream[i] ELSE Unsent[i - m]
  <2>1. n \in Nat
    BY <1>1
  <2>2. /\ Len(stream \o Unsent) = Len(stream) + Len(Unsent)
        /\ \A i \in 1..Len(stream) + Len(Unsent) :
             (stream \o Unsent)[i] = IF i <= Len(stream) THEN stream[i] ELSE Unsent[i - Len(stream)]
    BY <1>0, <1>1, ConcatProperties
  <2> QED BY <2>1, <2>2 DEF Full, m
<1>6. /\ Full' \in Seq(Items) /\ Len(Full') = (m - k) + n
      /\ \A i \in 1..(m - k) + n : Full'[i] = IF i <= m - k THEN s[i] ELSE Unsent[i - (m - k)]
  <2>1. Full' = s \o Unsent
    BY <1>2, <1>4 DEF Full
  <2>2. /\ s \o Unsent \in Seq(Items)
        /\ Len(s \o Unsent) = Len(s) + Len(Unsent)
        /\ \A i \in 1..Len(s) + Len(Unsent) :
             (s \o Unsent)[i] = IF i <= Len(s) THEN s[i] ELSE Unsent[i - Len(s)]
    BY <1>1, <1>3, ConcatProperties
  <2> QED BY <1>3, <2>1, <2>2
<1> HIDE DEF n
<1>7. Behind(Full', Full, k)
  <2>1. ASSUME NEW i \in 1..Len(Full') PROVE Full'[i] = Full[k + i]
    <3>1. i \in 1..(m - k) + n /\ k + i \in 1..m + n
      BY <1>0, <1>5, <1>6
    <3>2. CASE i <= m - k
      <4>1. k + i <= m /\ i \in 1..m - k
        BY <1>0, <3>1, <3>2
      <4> QED BY <1>3, <1>5, <1>6, <3>1, <3>2, <4>1
    <3>3. CASE ~(i <= m - k)
      <4>1. ~(k + i <= m) /\ (k + i) - m = i - (m - k)
        BY <1>0, <3>1, <3>3
      <4> QED BY <1>5, <1>6, <3>1, <3>3, <4>1
    <3> QED BY <3>2, <3>3
  <2>2. Len(Full') = Len(Full) - k
    BY <1>0, <1>5, <1>6
  <2> QED BY <1>6, <2>1, <2>2 DEF Behind
<1>8. k \in 0..Len(Full) /\ \A i \in 1..k : i \in 1..m + n /\ i <= m
  BY <1>0, <1>5
<1>9. \A i \in 1..k : Full[i] = stream[i]
  BY <1>5, <1>8
<1>10. Framed(Full') /\ Ordered(Full') /\ Closed(Full')
  BY <1>1, <1>7, <1>8, BehindKeeps DEF StreamOK
<1> QED BY <1>1, <1>2, <1>3, <1>4, <1>7, <1>8, <1>9, <1>10

\* The same for the first item
LEMMA HeadGone ==
    ASSUME LocalInv, StreamOK, UNCHANGED <<dev, slock>>, stream # <<>>, stream' = Tail(stream)
    PROVE  /\ stream' \in Seq(Items) /\ Unsent' = Unsent
           /\ Full \in Seq(Items) /\ 1 \in 0..Len(Full) /\ Behind(Full', Full, 1)
           /\ Full[1] = Head(stream) /\ Head(stream) \in Items
           /\ Framed(Full') /\ Ordered(Full') /\ Closed(Full')
           /\ Range(Full) = Range(Full') \union {Head(stream)}
<1>1. stream \in Seq(Items) /\ Len(stream) \in Nat /\ Len(stream) > 0
  <2>1. stream \in Seq(Items)
    BY DEF StreamOK
  <2> QED BY <2>1, EmptySeq
<1>2. Tail(stream) = SubSeq(stream, 1 + 1, Len(stream)) /\ Head(stream) = stream[1]
  BY <1>1
<1>3. 1 \in 1..Len(stream)
  BY <1>1
<1>4. /\ stream' \in Seq(Items) /\ Unsent' = Unsent
      /\ Full \in Seq(Items) /\ 1 \in 0..Len(Full) /\ Behind(Full', Full, 1)
      /\ \A i \in 1..1 : Full[i] = stream[i]
      /\ Framed(Full') /\ Ordered(Full') /\ Closed(Full')
  BY <1>2, <1>3, FullBehind
<1>5. 1 \in 1..1 /\ 1 \in 1..Len(Full)
  BY <1>4
<1>6. Full[1] = Head(stream) /\ Head(stream) \in Items
  BY <1>1, <1>2, <1>3, <1>4, <1>5, ElementOfSeq
<1>7. Head(stream) \in Range(Full)
  BY <1>4, <1>5, <1>6, RangeItems
<1>8. \A i \in 1..1 : i = 1
  OBVIOUS
<1>9. Range(Full) = Range(Full') \union {Head(stream)}
  <2>1. /\ Range(Full') \subseteq Range(Full)
        /\ \A h \in Range(Full) : h \in Range(Full') \/ \E i \in 1..1 : Full[i] = h
    BY <1>4, BehindRange
  <2> QED BY <1>6, <1>7, <1>8, <2>1
<1> QED BY <1>4, <1>6, <1>9

-----------------------------------------------------------------------------
(***************************************************************************)
(* The initiator reads                                                       *)
(***************************************************************************)

LEMMA ExpectedNat ==
    ASSUME LocalInv, RxOK, NEW c \in Cmds
    PROVE  Expected(c) \in Nat /\ Pdus(c) \in Nat
<1>1. ini[c].bytes \in Nat /\ ini[c].pdus \in Nat
  BY Requested DEF LocalInv, IniOK
<1>2. Reads(c) => rx[1].len \in Nat
  BY DEF RxOK, Reads, ReadAt
<1> QED BY <1>1, <1>2 DEF Expected, Pdus

\* scsi_read_data_i is called for the data that the command expects next.
LEMMA RecvHeaderStream ==
    ASSUME LocalInv, StreamOK, RecvHeader
    PROVE  StreamOK'
<1>1. PICK h, r :
         /\ up /\ rx = <<>> /\ stream # <<>> /\ h = Head(stream) /\ h.kind = "data"
         /\ r.cmd = h.cmd /\ r.len = h.len /\ r.win = RecvWindow(h.cmd, h.off, h.len)
         /\ {"cmd", "len", "win"} \subseteq DOMAIN r
         /\ rx' = <<r>> /\ stream' = Tail(stream)
         /\ UNCHANGED <<seg, req, ini, mem, up, dev, slock>>
  <2> DEFINE h == Head(stream)
             w == RecvWindow(h.cmd, h.off, h.len)
             r == [cmd |-> h.cmd, len |-> h.len, win |-> w,
                   own |-> req[h.cmd].list # <<>> /\ h.len = req[h.cmd].transLen
                           /\ h.len % Align = 0]
  <2>1. rx' = <<r>>
    BY DEF RecvHeader
  <2>2. r.cmd = h.cmd /\ r.len = h.len /\ r.win = w /\ {"cmd", "len", "win"} \subseteq DOMAIN r
    OBVIOUS
  <2> HIDE DEF r
  <2> QED BY <2>1, <2>2 DEF RecvHeader
<1>2. /\ stream' \in Seq(Items) /\ Unsent' = Unsent
      /\ Full \in Seq(Items) /\ 1 \in 0..Len(Full) /\ Behind(Full', Full, 1)
      /\ Full[1] = h /\ h \in Items
      /\ Framed(Full') /\ Ordered(Full') /\ Closed(Full')
      /\ Range(Full) = Range(Full') \union {h}
  BY <1>1, HeadGone
<1> DEFINE c == h.cmd
<1>3. c \in Cmds /\ h.off \in Nat /\ h.len \in Nat \ {0}
  BY <1>1, <1>2, ItemKinds
<1>4. Full' \in Seq(Items) /\ Len(Full) \in Nat /\ Len(Full') \in Nat /\ Len(Full') = Len(Full) - 1
      /\ DOMAIN Full = 1..Len(Full) /\ \A i \in 1..Len(Full') : Full'[i] = Full[1 + i]
  <2>1. Full' \in Seq(Items) /\ Len(Full') = Len(Full) - 1 /\ \A i \in 1..Len(Full') : Full'[i] = Full[1 + i]
    BY <1>2 DEF Behind
  <2> QED BY <1>2, <2>1
\* All other data of the command is behind this.
<1>5. ASSUME NEW g \in Range(Full'), g.kind = "data", g.cmd = c PROVE h.off + h.len <= g.off
  <2>1. PICK i \in 1..Len(Full') : Full'[i] = g
    BY <1>4, RangeItems
  <2>2. 1 \in DOMAIN Full /\ 1 + i \in DOMAIN Full /\ 1 < 1 + i /\ Full[1 + i] = g
    BY <1>2, <1>4, <2>1
  <2> QED BY <1>1, <1>2, <1>5, <2>2 DEF StreamOK, Ordered
<1> HIDE DEF c
<1>6. h.cmd = c
  BY DEF c
<1>7. h \notin Range(Full')
  BY <1>1, <1>3, <1>5, <1>6
<1>8. /\ Chunks(Full, c)' = Chunks(Full, c) \ {h} /\ h \in Chunks(Full, c)
      /\ Replies(Full, c)' = Replies(Full, c)
  BY <1>1, <1>2, <1>6, <1>7 DEF Chunks, Replies
<1>9. PICK N \in 0..req[c].transLen : Tiled(Full, c, Expected(c), N) /\ Counted(Full, c, N)
  BY <1>3 DEF StreamOK, FlowOK
<1>10. PICK b : b = ini[c].bytes
  OBVIOUS
<1>11. Expected(c) = b /\ Pdus(c) = ini[c].pdus /\ b \in Nat /\ ini[c].pdus \in Nat /\ N \in Nat
       /\ req[c].transLen \in Nat /\ N <= req[c].transLen
  <2>1. b \in Nat /\ ini[c].pdus \in Nat /\ req[c].transLen \in Nat
    BY <1>3, <1>10, Requested DEF LocalInv, IniOK
  <2> QED BY <1>1, <1>10, <2>1 DEF Expected, Pdus, Reads
<1>12. b <= h.off /\ h.off + h.len <= N
  BY <1>8, <1>9, <1>11 DEF Tiled
<1>13. b = h.off
  <2>1. b + 1 \in b + 1..N
    BY <1>3, <1>11, <1>12
  <2>2. PICK g \in Chunks(Full, c) : g.off < b + 1 /\ b + 1 <= g.off + g.len
    BY <1>9, <1>11, <2>1 DEF Tiled
  <2>3. b <= g.off /\ g.off \in Nat
    <3>1. b <= g.off
      BY <1>9, <1>11 DEF Tiled
    <3>2. g \in Items /\ g.kind = "data"
      BY <1>2, RangeItems DEF Chunks
    <3> QED BY <3>1, <3>2, ItemKinds
  <2>4. CASE g = h
    BY <1>3, <1>11, <1>12, <2>2, <2>3, <2>4
  <2>5. CASE g # h
    <3>1. g \in Range(Full') /\ g.kind = "data" /\ g.cmd = c
      BY <1>2, <2>5 DEF Chunks
    <3>2. h.off + h.len <= g.off
      BY <1>5, <1>6, <3>1
    <3> QED BY <1>3, <1>11, <1>12, <2>2, <2>3, <3>2
  <2> QED BY <2>4, <2>5
<1>14. LockOK'
  BY <1>1 DEF StreamOK, LockOK
<1>15. RxOK'
  <2> DEFINE n == Need(h.len)
             w == r.win
  <2>1. n \in Nat /\ n > 0
    BY <1>3, NeedProperties
  <2>2. 1 + n <= Len(Full) /\ \A j \in 1..n : Full[1 + j] = Unit(c, UnitAt(h.off, h.len, j))
    <3>1. 1 \in DOMAIN Full
      BY <1>2, <1>4
    <3> QED BY <1>1, <1>2, <1>6, <3>1 DEF StreamOK, Framed
  <2>3. h.off + h.len <= req[c].transLen /\ req[c] \in Requests
    <3>1. req[c] \in Requests
      BY <1>3, Requested
    <3> QED BY <1>3, <1>11, <1>12, <3>1
  <2>4. /\ IsWindow(w) /\ Total(w) = n
        /\ \A i \in 1..h.len : Addresses(w)[i] = Buffer(c)[h.off + i]
        /\ \A i \in h.len + 1..n : Addresses(w)[i] = 0
    <3>1. w = RecvWindow(c, h.off, h.len)
      BY <1>1, <1>6
    <3>2. h.len \in Nat /\ h.len > 0
      BY <1>3
    <3> QED BY <1>3, <2>3, <3>1, <3>2, RecvWindowProperties
  <2> HIDE DEF n, w
  <2>5. n <= Len(Full') /\ \A j \in 1..n : Full'[j] = Unit(c, UnitAt(b, h.len, 0 + j))
    <3>1. n <= Len(Full')
      BY <1>4, <2>1, <2>2
    <3>2. ASSUME NEW j \in 1..n PROVE Full'[j] = Unit(c, UnitAt(b, h.len, 0 + j))
      <4>1. j \in 1..Len(Full') /\ 0 + j = j
        BY <1>4, <2>1, <3>1
      <4> QED BY <1>4, <1>13, <2>2, <4>1
    <3> QED BY <3>1, <3>2
  <2>6. \A j \in 1..n : Addresses(w)[j] = IF 0 + j <= h.len THEN Buffer(c)[b + (0 + j)] ELSE 0
    <3> TAKE j \in 1..n
    <3>1. CASE j <= h.len
      <4>1. j \in 1..h.len /\ b + (0 + j) = b + j /\ 0 + j = j
        BY <1>11, <2>1, <3>1, <1>3
      <4> QED BY <1>13, <2>4, <3>1, <4>1
    <3>2. CASE ~(j <= h.len)
      <4>1. j \in h.len + 1..n /\ 0 + j = j
        BY <1>3, <2>1, <3>2
      <4> QED BY <2>4, <3>2, <4>1
    <3> QED BY <3>1, <3>2
  <2>7. Buffer(c)' = Buffer(c) /\ UNCHANGED <<ini, req>>
    BY <1>1 DEF Buffer
  <2>8. \A i \in 1..h.len : ~(i <= 0)
    BY <1>3
  <2>9. r.cmd = c /\ r.len = h.len /\ rx' = <<r>> /\ n = Need(h.len) /\ w = r.win
    BY <1>1, <1>6 DEF n, w
  <2>10. 0 \in 0..n /\ 0 + n = n
    BY <2>1
  <2>11. /\ IsWindow(r.win) /\ Total(r.win) = n
         /\ \A j \in 1..n : Full'[j] = Unit(c, UnitAt(b, h.len, 0 + j))
                            /\ Addresses(r.win)[j] = IF 0 + j <= h.len THEN Buffer(c)'[b + (0 + j)] ELSE 0
    BY <2>4, <2>5, <2>6, <2>7, <2>9
  <2> DEFINE P(d) ==
         /\ d + Total(r.win) = Need(r.len) /\ Total(r.win) > 0 /\ Total(r.win) <= Len(Full')
         /\ \A j \in 1..Total(r.win) :
              /\ Full'[j] = Unit(r.cmd, UnitAt(b, r.len, d + j))
              /\ Addresses(r.win)[j] = IF d + j <= r.len THEN Buffer(r.cmd)'[b + (d + j)] ELSE 0
         /\ \A i \in 1..r.len : i <= d => HasUnit(r.cmd, b + i)'
  <2>12. P(0)
    BY <2>1, <2>5, <2>8, <2>9, <2>10, <2>11
  <2>13. b = ini'[r.cmd].bytes
    BY <1>10, <2>7, <2>9
  <2>14. \E d \in 0..Need(r.len) : P(d)
    <3> HIDE DEF P
    <3> QED BY <2>9, <2>10, <2>12
  <2>15. ini'[r.cmd].bytes + r.len <= req'[r.cmd].transLen
    BY <1>13, <2>3, <2>7, <2>9, <2>13
  <2>16. r.cmd \in Cmds /\ r.len \in Nat \ {0} /\ IsWindow(r.win)
    BY <1>3, <2>4, <2>9
  <2>18. {"cmd", "len", "win"} \subseteq DOMAIN r
    BY <1>1
  <2>17. ReadAt(r, Full, ini[r.cmd].bytes)'
    BY <2>13, <2>14, <2>15, <2>16, <2>18 DEF ReadAt
  <2> QED BY <2>9, <2>17 DEF RxOK
<1>16. ASSUME NEW d \in Cmds \ {c} PROVE FlowOK(Full, d)'
  <2>1. Chunks(Full, d)' = Chunks(Full, d) /\ Replies(Full, d)' = Replies(Full, d)
    BY <1>1, <1>2, <1>6 DEF Chunks, Replies
  <2>2. ~Reads(d) /\ ~Reads(d)'
    BY <1>1, <1>6 DEF Reads
  <2>3. Expected(d)' = Expected(d) /\ Pdus(d)' = Pdus(d)
    BY <1>1, <2>2 DEF Expected, Pdus
  <2>4. Sent(d)' = Sent(d) /\ Responded(d)' = Responded(d) /\ dev' = dev
    BY <1>1 DEF Sent, DataLength, Responded
  <2> QED BY <1>1, <2>1, <2>2, <2>3, <2>4, FlowSame DEF StreamOK
<1>17. FlowOK(Full, c)'
  <2>1. Reads(c)' /\ rx'[1].len = h.len
    BY <1>1, <1>6 DEF Reads
  <2>2. Expected(c)' = b + h.len /\ Pdus(c)' = ini[c].pdus + 1
    BY <1>1, <1>10, <2>1 DEF Expected, Pdus
  <2>3. Awaited(Full, c)'
    <3>1. ini[c].status = "pending"
      BY <1>3, <1>8 DEF StreamOK, FlowOK, Awaited
    <3> QED BY <1>1, <3>1 DEF Awaited
  <2>4. Tiled(Full, c, Expected(c), N)'
    <3>1. ASSUME NEW g \in Chunks(Full, c) \ {h}
          PROVE  b + h.len <= g.off /\ g.off + g.len <= N
      <4>1. g \in Range(Full') /\ g.kind = "data" /\ g.cmd = c
        BY <1>2 DEF Chunks
      <4>2. g.off + g.len <= N
        BY <1>9 DEF Tiled
      <4> QED BY <1>5, <1>6, <1>13, <4>1, <4>2
    <3>2. ASSUME NEW u \in (b + h.len) + 1..N
          PROVE  \E g \in Chunks(Full, c) \ {h} : g.off < u /\ u <= g.off + g.len
      <4>1. u \in b + 1..N
        BY <1>3, <1>11
      <4>2. PICK g \in Chunks(Full, c) : g.off < u /\ u <= g.off + g.len
        BY <1>9, <1>11, <4>1 DEF Tiled
      <4>3. g # h
        BY <1>3, <1>11, <1>13, <4>2
      <4> QED BY <4>2, <4>3
    <3>3. b + h.len <= N
      BY <1>12, <1>13
    <3> QED BY <1>8, <2>2, <3>1, <3>2, <3>3 DEF Tiled
  <2>5. Cardinality(Offs(Full, c)') = Cardinality(Offs(Full, c)) - 1 /\ Cardinality(Offs(Full, c)) \in Nat
    <3>1. h.off \in 0..req[c].transLen
      BY <1>3, <1>11, <1>12
    <3>2. h.off \in Offs(Full, c)
      BY <1>8, <3>1 DEF Offs
    <3>3. \A g \in Chunks(Full, c) \ {h} : g.off # h.off
      <4> TAKE g \in Chunks(Full, c) \ {h}
      <4>1. g \in Range(Full') /\ g.kind = "data" /\ g.cmd = c
        BY <1>2 DEF Chunks
      <4>2. h.off + h.len <= g.off
        BY <1>5, <1>6, <4>1
      <4> QED BY <1>3, <4>2
    <3>4. Offs(Full, c)' = Offs(Full, c) \ {h.off}
      BY <1>1, <1>8, <3>3 DEF Offs
    <3>5. IsFiniteSet(Offs(Full, c)) /\ Cardinality(Offs(Full, c)) \in Nat
      BY <1>11, OffsFinite
    <3> QED BY <3>2, <3>4, <3>5, FS_RemoveElement
  <2>6. Pdus(c)' + Cardinality(Offs(Full, c)') = Pdus(c) + Cardinality(Offs(Full, c))
    BY <1>11, <2>2, <2>5
  <2>7. /\ Sent(c)' = Sent(c) /\ Responded(c)' = Responded(c) /\ dev' = dev /\ req' = req
        /\ Replies(Full, c)' = Replies(Full, c)
    BY <1>1, <1>8 DEF Sent, DataLength, Responded
  <2>8. Counted(Full, c, N)'
    BY <1>9, <2>6, <2>7 DEF Counted
  <2> QED BY <2>3, <2>4, <2>7, <2>8 DEF FlowOK
<1> QED BY <1>2, <1>14, <1>15, <1>16, <1>17 DEF StreamOK

\* The response is behind all of the command's data: what was sent has been stored.
LEMMA RecvResponseKeeps ==
    ASSUME LocalInv, StreamOK, RecvResponse
    PROVE  StreamOK' /\ \A c \in Cmds : IniOK(c)'
<1>1. PICK h :
         /\ up /\ rx = <<>> /\ stream # <<>> /\ h = Head(stream) /\ h.kind = "response"
         /\ ini' = [ini EXCEPT ![h.cmd].status = IF h.status = 0 THEN "good" ELSE "check", ![h.cmd].sn = h.sn]
         /\ stream' = Tail(stream)
         /\ UNCHANGED <<seg, req, mem, rx, up, dev, slock>>
  BY DEF RecvResponse
<1>2. /\ stream' \in Seq(Items) /\ Unsent' = Unsent
      /\ Full \in Seq(Items) /\ 1 \in 0..Len(Full) /\ Behind(Full', Full, 1)
      /\ Full[1] = h /\ h \in Items
      /\ Framed(Full') /\ Ordered(Full') /\ Closed(Full')
      /\ Range(Full) = Range(Full') \union {h}
  BY <1>1, HeadGone
<1>3. PICK c \in Cmds : h.cmd = c
  BY <1>1, <1>2, ItemKinds
<1>4. Full' \in Seq(Items) /\ Len(Full) \in Nat /\ Len(Full') \in Nat /\ Len(Full') = Len(Full) - 1
      /\ DOMAIN Full = 1..Len(Full) /\ \A i \in 1..Len(Full') : Full'[i] = Full[1 + i]
  <2>1. Full' \in Seq(Items) /\ Len(Full') = Len(Full) - 1 /\ \A i \in 1..Len(Full') : Full'[i] = Full[1 + i]
    BY <1>2 DEF Behind
  <2> QED BY <1>2, <2>1
<1>5. ASSUME NEW g \in Range(Full') PROVE g.cmd # c
  <2>1. PICK i \in 1..Len(Full') : Full'[i] = g
    BY <1>4, RangeItems
  <2>2. 1 \in DOMAIN Full /\ 1 + i \in DOMAIN Full /\ 1 < 1 + i /\ Full[1 + i] = g
    BY <1>2, <1>4, <2>1
  <2> QED BY <1>1, <1>2, <1>3, <2>2 DEF StreamOK, Closed
<1>6. /\ Chunks(Full, c) = {} /\ h \in Replies(Full, c)
      /\ Chunks(Full, c)' = {} /\ Replies(Full, c)' = {}
  BY <1>1, <1>2, <1>3, <1>5 DEF Chunks, Replies
<1>7. PICK N \in 0..req[c].transLen : Tiled(Full, c, Expected(c), N) /\ Counted(Full, c, N)
  BY DEF StreamOK, FlowOK
<1>8. /\ Expected(c) = ini[c].bytes /\ Pdus(c) = ini[c].pdus
      /\ ini[c].bytes \in Nat /\ ini[c].pdus \in Nat /\ req[c].transLen \in Nat
      /\ ini[c].bytes \in 0..req[c].transLen
  <2>1. ini[c].bytes \in 0..req[c].transLen /\ ini[c].pdus \in Nat /\ req[c].transLen \in Nat
    BY Requested DEF LocalInv, IniOK
  <2> QED BY <1>1, <2>1 DEF Expected, Pdus, Reads
<1>9. Responded(c) /\ (h.status = 0 => N = req[c].transLen) /\ Pdus(c) + Cardinality(Offs(Full, c)) = h.sn
  BY <1>6, <1>7 DEF Counted
<1>10. ini[c].bytes = N
  <2>1. ini[c].bytes <= N /\ \A u \in ini[c].bytes + 1..N : FALSE
    BY <1>6, <1>7, <1>8 DEF Tiled
  <2>2. ini[c].bytes < N => ini[c].bytes + 1 \in ini[c].bytes + 1..N
    BY <1>8
  <2> QED BY <1>8, <2>1, <2>2
<1>11. ini[c].pdus = h.sn
  <2>1. Offs(Full, c) = {}
    BY <1>6 DEF Offs
  <2>2. Cardinality(Offs(Full, c)) = 0
    BY <2>1, FS_EmptySet
  <2> QED BY <1>8, <1>9, <2>2
<1>12. /\ ini'[c].status = IF h.status = 0 THEN "good" ELSE "check"
       /\ ini'[c].sn = h.sn /\ ini'[c].bytes = ini[c].bytes /\ ini'[c].pdus = ini[c].pdus
       /\ \A d \in Cmds \ {c} : ini'[d] = ini[d]
  BY <1>1, <1>3 DEF LocalInv, StagingInv, Shape, IniFields
<1>13. ASSUME NEW d \in Cmds PROVE IniOK(d)'
  <2>1. \A u : HasUnit(d, u)' = HasUnit(d, u)
    BY <1>1 DEF HasUnit
  <2>2. IniOK(d) /\ dev' = dev /\ req' = req
    BY <1>1 DEF LocalInv
  <2>3. CASE d # c
    <3>1. ini'[d] = ini[d]
      BY <1>12, <2>3
    <3> QED BY <2>1, <2>2, <3>1 DEF IniOK, Answered, Responded
  <2>4. CASE d = c
    <3>1. ini'[c].status = "good" => ini[c].bytes = req[c].transLen
      BY <1>9, <1>10, <1>12
    <3> QED BY <1>9, <1>11, <1>12, <2>1, <2>2, <2>4, <3>1 DEF IniOK, Answered, Responded
  <2> QED BY <2>3, <2>4
<1>14. LockOK' /\ RxOK'
  BY <1>1 DEF StreamOK, LockOK, RxOK
<1>15. ASSUME NEW d \in Cmds \ {c} PROVE FlowOK(Full, d)'
  <2>1. Chunks(Full, d)' = Chunks(Full, d) /\ Replies(Full, d)' = Replies(Full, d)
    BY <1>1, <1>2, <1>3 DEF Chunks, Replies
  <2>2. Expected(d)' = Expected(d) /\ Pdus(d)' = Pdus(d) /\ Reads(d)' = Reads(d) /\ ini'[d] = ini[d]
    BY <1>1, <1>12 DEF Expected, Pdus, Reads
  <2>3. Sent(d)' = Sent(d) /\ Responded(d)' = Responded(d) /\ dev' = dev
    BY <1>1 DEF Sent, DataLength, Responded
  <2> QED BY <1>1, <2>1, <2>2, <2>3, FlowSame DEF StreamOK
<1>16. FlowOK(Full, c)'
  <2>1. ~Reads(c)' /\ Expected(c)' = Expected(c) /\ Responded(c)' /\ req' = req
    BY <1>1, <1>9, <1>12 DEF Reads, Expected, Responded
  <2>2. Tiled(Full, c, Expected(c), N)'
    BY <1>6, <1>7, <2>1 DEF Tiled
  <2>3. Counted(Full, c, N)'
    BY <1>6, <2>1 DEF Counted
  <2>4. Awaited(Full, c)'
    BY <1>6, <2>1 DEF Awaited
  <2> QED BY <2>1, <2>2, <2>3, <2>4 DEF FlowOK
<1> QED BY <1>2, <1>13, <1>14, <1>15, <1>16 DEF StreamOK

\* readv stores units of the message, each where it belongs.
LEMMA RecvUnitsKeeps ==
    ASSUME LocalInv, StreamOK, RecvUnits
    PROVE  StreamOK' /\ (\A c \in Cmds : IniOK(c)') /\ \A p \in mem' : Placed(p)'
<1>1. PICK r, a, k :
         /\ up /\ r = rx[1] /\ rx # <<>> /\ a = Addresses(r.win) /\ k \in 1..Len(a)
         /\ k <= Len(stream) /\ \A i \in 1..k : stream[i].kind = "unit"
         /\ mem' = mem \union Stored(r.cmd, a, k)
         /\ stream' = SubSeq(stream, k + 1, Len(stream))
         /\ IF k < Len(a)
            THEN rx' = <<[r EXCEPT !.win = Rest(@, k)]>> /\ UNCHANGED ini
            ELSE /\ rx' = <<>>
                 /\ ini' = [ini EXCEPT
                              ![r.cmd].bytes = @ + Received(r.len), ![r.cmd].pdus = @ + 1,
                              ![r.cmd].list = IF r.own THEN Restored(r.win, @) ELSE @]
         /\ UNCHANGED <<seg, req, up, dev, slock>>
  BY DEF RecvUnits
<1>2. PICK c, b : c = r.cmd /\ b = ini[c].bytes
  OBVIOUS
<1>3. rx = <<r>> /\ ReadAt(r, Full, b)
  BY <1>1, <1>2 DEF StreamOK, RxOK
<1>4. /\ c \in Cmds /\ r.len \in Nat \ {0} /\ IsWindow(r.win) /\ {"cmd", "len", "win"} \subseteq DOMAIN r
      /\ b + r.len <= req[c].transLen
  BY <1>2, <1>3 DEF ReadAt
<1> DEFINE n == Total(r.win)
<1>5. PICK d \in 0..Need(r.len) :
         /\ d + n = Need(r.len) /\ n > 0 /\ n <= Len(Full)
         /\ \A j \in 1..n :
              /\ Full[j] = Unit(c, UnitAt(b, r.len, d + j))
              /\ a[j] = IF d + j <= r.len THEN Buffer(c)[b + (d + j)] ELSE 0
         /\ \A i \in 1..r.len : i <= d => HasUnit(c, b + i)
  BY <1>1, <1>2, <1>3 DEF ReadAt
<1>6. /\ a \in Seq(Nat) /\ Len(a) = n /\ n \in Nat /\ Need(r.len) \in Nat /\ d \in Nat /\ k \in 1..n
      /\ b \in Nat /\ req[c].transLen \in Nat /\ ini[c].pdus \in Nat /\ r.len <= Need(r.len)
  <2>1. a \in Seq(Nat) /\ Len(a) = n /\ n \in Nat
    BY <1>1, <1>4, AddressesSeq
  <2>2. Need(r.len) \in Nat /\ r.len <= Need(r.len)
    BY <1>4, NeedProperties
  <2>3. req[c].transLen \in Nat /\ b \in Nat /\ ini[c].pdus \in Nat
    BY <1>2, <1>4, Requested DEF LocalInv, IniOK
  <2> QED BY <1>1, <2>1, <2>2, <2>3
<1>7. k \in 1..Len(stream)
  <2>1. Len(stream) \in Nat
    BY DEF StreamOK
  <2> QED BY <1>1, <1>6, <2>1
<1>8. /\ stream' \in Seq(Items) /\ Unsent' = Unsent
      /\ Full \in Seq(Items) /\ k \in 0..Len(Full) /\ Behind(Full', Full, k)
      /\ \A i \in 1..k : Full[i] = stream[i]
      /\ Framed(Full') /\ Ordered(Full') /\ Closed(Full')
  BY <1>1, <1>7, FullBehind
<1> HIDE DEF n
\* What is stored
<1>9. \A i \in 1..k : /\ stream[i] = Unit(c, UnitAt(b, r.len, d + i))
                      /\ a[i] = IF d + i <= r.len THEN Buffer(c)[b + (d + i)] ELSE 0
  <2> TAKE i \in 1..k
  <2>1. i \in 1..n /\ i \in 1..k
    BY <1>6
  <2>2. /\ Full[i] = Unit(c, UnitAt(b, r.len, d + i))
        /\ a[i] = IF d + i <= r.len THEN Buffer(c)[b + (d + i)] ELSE 0
    BY <1>5, <2>1
  <2> QED BY <1>8, <2>1, <2>2
<1>10. ASSUME NEW i \in 1..k, d + i <= r.len
       PROVE  /\ b + (d + i) \in 1..req[c].transLen
              /\ [cmd |-> c, at |-> Buffer(c)[b + (d + i)], from |-> c, unit |-> b + (d + i)] \in mem'
  <2>1. b + (d + i) \in 1..req[c].transLen
    <3>1. i \in Nat /\ i >= 1 /\ d \in Nat /\ b \in Nat /\ r.len \in Nat /\ req[c].transLen \in Nat
      BY <1>4, <1>6
    <3> QED BY <1>4, <1>10, <3>1
  <2>2. Buffer(c)[b + (d + i)] # 0
    BY <1>4, <2>1, Requested, BufferProperties
  <2>3. stream[i].cmd = c /\ stream[i].unit = b + (d + i) /\ a[i] = Buffer(c)[b + (d + i)]
    <3>1. stream[i] = Unit(c, UnitAt(b, r.len, d + i)) /\ a[i] = Buffer(c)[b + (d + i)]
      BY <1>9, <1>10
    <3>2. UnitAt(b, r.len, d + i) = b + (d + i)
      BY <1>10 DEF UnitAt
    <3> QED BY <3>1, <3>2 DEF Unit
  <2>4. [cmd |-> r.cmd, at |-> a[i], from |-> stream[i].cmd, unit |-> stream[i].unit] \in Stored(r.cmd, a, k)
    BY <2>2, <2>3 DEF Stored
  <2> QED BY <1>1, <1>2, <2>1, <2>3, <2>4
<1>11. ASSUME NEW p \in mem' PROVE Placed(p)'
  <2>1. Buffer(p.cmd)' = Buffer(p.cmd)
    BY <1>1 DEF Buffer
  <2>2. CASE p \in mem
    BY <2>1, <2>2 DEF LocalInv, Placed
  <2>3. CASE p \in Stored(r.cmd, a, k)
    <3>1. PICK i \in 1..k : /\ a[i] # 0
                            /\ p = [cmd |-> r.cmd, at |-> a[i], from |-> stream[i].cmd, unit |-> stream[i].unit]
      BY <2>3 DEF Stored
    <3>2. d + i <= r.len /\ a[i] = Buffer(c)[b + (d + i)]
      BY <1>9, <3>1
    <3>3. stream[i].cmd = c /\ stream[i].unit = b + (d + i)
      <4>1. stream[i] = Unit(c, UnitAt(b, r.len, d + i))
        BY <1>9
      <4>2. UnitAt(b, r.len, d + i) = b + (d + i)
        BY <3>2 DEF UnitAt
      <4> QED BY <4>1, <4>2 DEF Unit
    <3>4. b + (d + i) \in 1..req[c].transLen
      BY <1>10, <3>2
    <3>5. DOMAIN Buffer(c) = 1..req[c].transLen
      BY <1>4, Requested, BufferProperties
    <3>6. p.cmd = c /\ p.from = c /\ p.unit = b + (d + i) /\ p.at = Buffer(c)[b + (d + i)]
      BY <1>2, <3>1, <3>2, <3>3, <3>4
    <3> QED BY <1>4, <2>1, <3>4, <3>5, <3>6 DEF Placed
  <2> QED BY <1>1, <2>2, <2>3
<1>12. \A e, u : HasUnit(e, u) => HasUnit(e, u)'
  BY <1>1 DEF HasUnit
<1>13. ASSUME NEW i \in 1..r.len, i <= d + k PROVE HasUnit(c, b + i)'
  <2>1. CASE i <= d
    <3>1. HasUnit(c, b + i)
      BY <1>5, <2>1
    <3> QED BY <1>12, <3>1
  <2>2. CASE ~(i <= d)
    <3>1. i - d \in 1..k /\ d + (i - d) <= r.len /\ b + (d + (i - d)) = b + i
      BY <1>4, <1>6, <1>13, <2>2
    <3>2. [cmd |-> c, at |-> Buffer(c)[b + i], from |-> c, unit |-> b + i] \in mem'
      BY <1>10, <3>1
    <3> QED BY <3>2 DEF HasUnit
  <2> QED BY <2>1, <2>2
<1>14. \A e : /\ Chunks(Full, e)' = Chunks(Full, e)
              /\ Replies(Full, e)' = Replies(Full, e)
  <2>1. /\ Range(Full') \subseteq Range(Full)
        /\ \A h \in Range(Full) : h \in Range(Full') \/ \E i \in 1..k : Full[i] = h
    BY <1>8, BehindRange
  <2>2. \A i \in 1..k : Full[i].kind = "unit"
    BY <1>1, <1>8
  <2> QED BY <2>1, <2>2 DEF Chunks, Replies
<1>15. LockOK'
  BY <1>1 DEF StreamOK, LockOK
\* The rx thread and its command
<1>16. CASE k < Len(a)
  <2>1. UNCHANGED <<ini, req, dev, seg>> /\ \E s : rx' = <<s>> /\ s = [r EXCEPT !.win = Rest(@, k)]
    BY <1>1, <1>16
  <2>2. PICK s : rx' = <<s>> /\ s = [r EXCEPT !.win = Rest(@, k)]
    BY <2>1
  <2>3. /\ s.cmd = c /\ s.len = r.len /\ s.win = Rest(r.win, k)
        /\ {"cmd", "len", "win"} \subseteq DOMAIN s
    <3> HIDE DEF Rest
    <3> QED BY <1>2, <1>4, <2>2
  <2>4. /\ IsWindow(s.win) /\ Total(s.win) = n - k
        /\ \A j \in 1..n - k : Addresses(s.win)[j] = a[k + j]
    <3>1. k \in Nat /\ k < n
      BY <1>6, <1>16
    <3> QED BY <1>1, <1>4, <2>3, <3>1, RestProperties DEF n
  <2>5. n - k > 0 /\ n - k \in Nat /\ d + k \in 0..Need(r.len) /\ (d + k) + (n - k) = Need(r.len)
        /\ n - k <= Len(Full')
    <3>1. Len(Full') = Len(Full) - k /\ Len(Full) \in Nat
      BY <1>8 DEF Behind
    <3> QED BY <1>5, <1>6, <1>16, <3>1
  <2>6. ASSUME NEW j \in 1..n - k
        PROVE  /\ Full'[j] = Unit(c, UnitAt(b, r.len, (d + k) + j))
               /\ Addresses(s.win)[j] = IF (d + k) + j <= r.len THEN Buffer(c)[b + ((d + k) + j)] ELSE 0
    <3>1. k + j \in 1..n /\ d + (k + j) = (d + k) + j
      BY <1>6
    <3>2. j \in 1..Len(Full')
      <4>1. Len(Full') \in Nat
        BY <1>8 DEF Behind
      <4> QED BY <2>5, <4>1
    <3>3. Full'[j] = Full[k + j]
      BY <1>8, <3>2 DEF Behind
    <3>4. /\ Full[k + j] = Unit(c, UnitAt(b, r.len, d + (k + j)))
          /\ a[k + j] = IF d + (k + j) <= r.len THEN Buffer(c)[b + (d + (k + j))] ELSE 0
      BY <1>5, <3>1
    <3> QED BY <2>4, <3>1, <3>3, <3>4
  <2>7. Buffer(c)' = Buffer(c)
    BY <1>1 DEF Buffer
  <2>8. /\ (d + k) + Total(s.win) = Need(s.len) /\ Total(s.win) > 0 /\ Total(s.win) <= Len(Full')
        /\ \A j \in 1..Total(s.win) :
             /\ Full'[j] = Unit(s.cmd, UnitAt(b, s.len, (d + k) + j))
             /\ Addresses(s.win)[j] = IF (d + k) + j <= s.len THEN Buffer(s.cmd)'[b + ((d + k) + j)] ELSE 0
        /\ \A i \in 1..s.len : i <= d + k => HasUnit(s.cmd, b + i)'
    BY <1>13, <2>3, <2>4, <2>5, <2>6, <2>7
  <2>9. d + k \in 0..Need(s.len) /\ b + s.len <= req'[s.cmd].transLen /\ s.cmd \in Cmds
        /\ s.len \in Nat \ {0} /\ ini'[s.cmd].bytes = b
    BY <1>2, <1>4, <2>1, <2>3, <2>5
  <2>10. ReadAt(s, Full, b)'
    BY <2>3, <2>4, <2>8, <2>9 DEF ReadAt
  <2>11. RxOK'
    <3>1. ReadAt(s, Full, ini[s.cmd].bytes)'
      BY <2>9, <2>10 DEF ReadAt
    <3> QED BY <2>2, <3>1 DEF RxOK
  <2>12. ASSUME NEW e \in Cmds PROVE FlowOK(Full, e)'
    <3>1. Reads(e)' = Reads(e)
      BY <1>2, <1>3, <2>2, <2>3 DEF Reads
    <3>2. Expected(e)' = Expected(e) /\ Pdus(e)' = Pdus(e)
      BY <1>3, <2>1, <2>2, <2>3, <3>1 DEF Expected, Pdus
    <3>3. Sent(e)' = Sent(e) /\ Responded(e)' = Responded(e)
      BY <2>1 DEF Sent, DataLength, Responded
    <3> QED BY <1>14, <2>1, <3>1, <3>2, <3>3, FlowSame DEF StreamOK
  <2>13. ASSUME NEW e \in Cmds PROVE IniOK(e)'
    <3>1. IniOK(e)
      BY DEF LocalInv
    <3> QED BY <1>12, <2>1, <3>1 DEF IniOK, Answered, Responded
  <2> QED BY <1>8, <1>11, <1>15, <2>11, <2>12, <2>13 DEF StreamOK
<1>17. CASE ~(k < Len(a))
  <2>1. PICK list, p : /\ ini' = [ini EXCEPT ![c].bytes = b + r.len, ![c].pdus = p, ![c].list = list]
                      /\ p = ini[c].pdus + 1
    BY <1>1, <1>2, <1>17 DEF Received
  <2>2. /\ ini'[c].bytes = b + r.len /\ ini'[c].pdus = ini[c].pdus + 1 /\ ini'[c].status = ini[c].status
        /\ ini'[c].sn = ini[c].sn /\ \A e \in Cmds \ {c} : ini'[e] = ini[e]
    <3>1. DOMAIN ini = Cmds /\ c \in Cmds /\ DOMAIN ini[c] = {"status", "bytes", "pdus", "sn", "list"}
      BY <1>4 DEF LocalInv, StagingInv, Shape, IniFields
    <3>2. PICK x : x = b + r.len
      OBVIOUS
    <3>3. ini' = [ini EXCEPT ![c].bytes = x, ![c].pdus = p, ![c].list = list]
      BY <2>1, <3>2
    <3>4. /\ ini'[c].bytes = x /\ ini'[c].pdus = p /\ ini'[c].status = ini[c].status
          /\ ini'[c].sn = ini[c].sn /\ \A e \in Cmds \ {c} : ini'[e] = ini[e]
      BY ONLY <3>1, <3>3
    <3> QED BY ONLY <2>1, <3>2, <3>4
  <2>3. rx' = <<>> /\ UNCHANGED <<req, dev, seg>>
    BY <1>1, <1>17
  <2>4. d + k = Need(r.len)
    <3>1. d + n = Need(r.len)
      BY <1>5
    <3>2. k = n
      BY <1>6, <1>17
    <3> QED BY <3>1, <3>2
  <2>5. Reads(c) /\ Expected(c) = b + r.len /\ Pdus(c) = ini[c].pdus + 1
    <3>1. Reads(c) /\ rx[1] = r
      BY <1>2, <1>3 DEF Reads
    <3> QED BY <1>2, <3>1 DEF Expected, Pdus
  <2>6. Expected(c)' = b + r.len /\ Pdus(c)' = ini[c].pdus + 1
    <3>1. ~Reads(c)'
      BY <2>3 DEF Reads
    <3>2. Expected(c)' = (b + r.len) + 0 /\ Pdus(c)' = (ini[c].pdus + 1) + 0
      BY <2>2, <3>1 DEF Expected, Pdus
    <3> QED BY <1>4, <1>6, <3>2
  <2>7. ini[c].status = "pending"
    BY <1>4, <2>5 DEF StreamOK, FlowOK, Awaited
  <2>8. ASSUME NEW e \in Cmds PROVE FlowOK(Full, e)'
    <3>1. Expected(e)' = Expected(e) /\ Pdus(e)' = Pdus(e) /\ ini'[e].status = ini[e].status
      <4>1. CASE e = c
        BY <2>2, <2>5, <2>6, <4>1
      <4>2. CASE e # c
        <5>1. ~Reads(e) /\ ~Reads(e)'
          BY <1>2, <1>3, <2>3, <4>2 DEF Reads
        <5> QED BY <2>2, <4>2, <5>1 DEF Expected, Pdus
      <4> QED BY <4>1, <4>2
    <3>2. ~Reads(e)'
      BY <2>3 DEF Reads
    <3>3. Sent(e)' = Sent(e) /\ Responded(e)' = Responded(e)
      BY <2>3 DEF Sent, DataLength, Responded
    <3> QED BY <1>14, <2>3, <3>1, <3>2, <3>3, FlowSame DEF StreamOK
  <2>9. ASSUME NEW e \in Cmds PROVE IniOK(e)'
    <3>1. IniOK(e)
      BY DEF LocalInv
    <3>2. CASE e # c
      <4>1. ini'[e] = ini[e]
        BY <2>2, <3>2
      <4> QED BY <1>12, <2>3, <3>1, <4>1 DEF IniOK, Answered, Responded
    <3>3. CASE e = c
      <4>1. \A u \in 1..b + r.len : HasUnit(c, u)'
        <5> TAKE u \in 1..b + r.len
        <5>1. CASE u <= b
          <6>1. u \in 1..ini[c].bytes
            BY <1>2, <1>6, <5>1
          <6>2. HasUnit(c, u)
            BY <3>1, <3>3, <6>1 DEF IniOK
          <6> QED BY <1>12, <6>2
        <5>2. CASE ~(u <= b)
          <6>1. u - b \in 1..r.len /\ u - b <= d + k /\ b + (u - b) = u
            BY <1>4, <1>6, <2>4, <5>2
          <6> QED BY <1>13, <6>1
        <5> QED BY <5>1, <5>2
      <4>2. b + r.len \in 0..req[c].transLen /\ ini[c].pdus + 1 \in Nat
        BY <1>4, <1>6
      <4> QED BY <2>2, <2>3, <2>7, <3>3, <4>1, <4>2 DEF IniOK, Answered
    <3> QED BY <3>2, <3>3
  <2>10. RxOK'
    BY <2>3 DEF RxOK
  <2> QED BY <1>8, <1>11, <1>15, <2>8, <2>9, <2>10 DEF StreamOK
<1> QED BY <1>16, <1>17

-----------------------------------------------------------------------------
(***************************************************************************)
(* Every step                                                                *)
(***************************************************************************)

LEMMA InitRead == Init => ReadInv
<1> SUFFICES ASSUME Init PROVE ReadInv
  OBVIOUS
<1>1. /\ seg \in Segs /\ req \in [Cmds -> Requests] /\ mem = {} /\ rx = <<>> /\ stream = <<>> /\ slock = None
      /\ staging = [l \in Luns |-> NStaging] /\ stats = [l \in Luns |-> None]
      /\ \A c \in Cmds :
           /\ dev[c] = Idle
           /\ ini[c] = [status |-> None, bytes |-> 0, pdus |-> 0, sn |-> 0, list |-> req[c].list]
  BY DEF Init
<1>2. StagingInv
  BY InitStaging
<1>3. seg \in Nat /\ staging \in [Luns -> Nat] /\ stats \in [Luns -> Cmds \union {None}]
  BY <1>1, ConstantsAssumption
<1>4. ASSUME NEW c \in Cmds PROVE req[c] \in Requests /\ req[c].transLen \in Nat
  <2>1. req[c] \in Requests
    BY <1>1
  <2> QED BY <2>1, RequestsAssumption
<1>5. IsWindow(Window(<<>>))
  <2>1. <<>> \in Seq(Element)
    OBVIOUS
  <2> QED BY <2>1, WholeWindow
<1>6. ASSUME NEW c \in Cmds
      PROVE  /\ dev[c].at = "idle" /\ dev[c].status = 0 /\ dev[c].length = 0 /\ dev[c].sn = 0
             /\ dev[c].off = 0 /\ dev[c].win = Window(<<>>)
  <2>1. PICK w : w = Window(<<>>)
    OBVIOUS
  <2>2. dev[c] = Idle
    BY <1>1
  <2>3. dev[c] = [at |-> "idle", status |-> 0, length |-> 0, fromdev |-> FALSE, buf |-> FALSE,
                  off |-> 0, win |-> w, sn |-> 0]
    BY ONLY <2>1, <2>2 DEF Idle
  <2> QED BY ONLY <2>1, <2>3
<1>7. ASSUME NEW c \in Cmds PROVE DevOK(c)
  BY <1>4, <1>5, <1>6 DEF DevOK, Places
<1>8. ASSUME NEW c \in Cmds PROVE IniOK(c)
  <2>1. PICK list : ini[c] = [status |-> None, bytes |-> 0, pdus |-> 0, sn |-> 0, list |-> list]
    BY <1>1
  <2>2. ini[c].status = "none" /\ ini[c].bytes = 0 /\ ini[c].pdus = 0
    BY ONLY <2>1 DEF None
  <2>3. 0 \in 0..req[c].transLen /\ 1..0 = {} /\ 0 \in Nat
    BY <1>4
  <2> QED BY <2>2, <2>3 DEF IniOK, Answered, None
<1>9. LocalInv
  BY <1>1, <1>2, <1>3, <1>7, <1>8 DEF LocalInv
<1>10. Full = <<>> /\ LockOK /\ RxOK
  BY <1>1, <1>6 DEF Full, Unsent, LockOK, RxOK
<1>11. Framed(Full) /\ Ordered(Full) /\ Closed(Full) /\ stream \in Seq(Items)
  BY <1>1, <1>10 DEF Framed, Ordered, Closed
<1>12. ASSUME NEW c \in Cmds PROVE FlowOK(Full, c)
  <2>1. Range(Full) = {}
    BY <1>10 DEF Range
  <2>2. Chunks(Full, c) = {} /\ Replies(Full, c) = {}
    BY <2>1 DEF Chunks, Replies
  <2>3. Offs(Full, c) = {} /\ Cardinality({}) = 0
    BY <2>2, FS_EmptySet DEF Offs
  <2>4. ~Reads(c) /\ Expected(c) = 0 /\ Pdus(c) = 0 /\ Sent(c) = 0
    <3>1. /\ ini[c].bytes = 0 /\ ini[c].pdus = 0 /\ dev[c].off = 0 /\ dev[c].at # "send" /\ ~Reads(c)
      <4>1. dev[c].off = 0 /\ dev[c].at # "send" /\ ~Reads(c)
        BY <1>1, <1>6 DEF Reads
      <4>2. PICK list : ini[c] = [status |-> None, bytes |-> 0, pdus |-> 0, sn |-> 0, list |-> list]
        BY <1>1
      <4>3. ini[c].bytes = 0 /\ ini[c].pdus = 0
        BY ONLY <4>2
      <4> QED BY <4>1, <4>3
    <3> QED BY <3>1 DEF Expected, Pdus, Sent
  <2>5. Tiled(Full, c, Expected(c), 0)
    BY <2>2, <2>4 DEF Tiled
  <2>6. Counted(Full, c, 0)
    BY <1>6, <2>2, <2>3, <2>4 DEF Counted
  <2>7. 0 \in 0..req[c].transLen
    BY <1>4
  <2> QED BY <2>2, <2>4, <2>5, <2>6, <2>7 DEF FlowOK, Awaited
<1> QED BY <1>9, <1>10, <1>11, <1>12 DEF ReadInv, StreamOK

\* A step of the worker of c
LEMMA WorkerFrame ==
    ASSUME LocalInv, NEW c \in Cmds, StagingInv', UNCHANGED <<seg, req, ini, mem>>,
           staging' \in [Luns -> Nat], stats' \in [Luns -> Cmds \union {None}],
           slock' \in Cmds \union {None},
           DevOK(c)', \A d \in Cmds \ {c} : dev'[d] = dev[d], Responded(c) => Responded(c)'
    PROVE  LocalInv'
<1>1. ASSUME NEW d \in Cmds PROVE DevOK(d)'
  <2>1. CASE d = c
    BY <2>1
  <2>2. CASE d # c
    BY <2>2 DEF LocalInv, DevOK
  <2> QED BY <2>1, <2>2
<1>2. ASSUME NEW d \in Cmds PROVE IniOK(d)'
  <2>1. IniOK(d) /\ (Responded(d) => Responded(d)')
    BY DEF LocalInv, Responded
  <2> QED BY <2>1 DEF IniOK, Answered, HasUnit
<1>3. \A p \in mem' : Placed(p)'
  BY DEF LocalInv, Placed, Buffer
<1> QED BY <1>1, <1>2, <1>3 DEF LocalInv

\* A step of the worker of c that neither sends nor takes slock
LEMMA QuietWorker ==
    ASSUME LocalInv, NEW c \in Cmds, up => StreamOK, StagingInv',
           UNCHANGED <<seg, req, ini, mem, rx, stream, up, slock>>,
           staging' \in [Luns -> Nat], stats' \in [Luns -> Cmds \union {None}],
           DevOK(c)', \A d \in Cmds \ {c} : dev'[d] = dev[d], Responded(c) => Responded(c)',
           dev[c].at # "send", dev'[c].at # "send",
           ~Responded(c)' => dev'[c].off = dev[c].off /\ dev'[c].sn = dev[c].sn
    PROVE  ReadInv'
<1>1. LocalInv'
  BY WorkerFrame DEF LocalInv
<1>2. ASSUME StreamOK PROVE StreamOK'
  <2>1. \A d \in Cmds :
          /\ ini'[d].bytes = ini[d].bytes /\ ini'[d].pdus = ini[d].pdus
          /\ ini[d].status = "pending" => ini'[d].status = "pending"
          /\ dev[d].at = "send" <=> dev'[d].at = "send"
          /\ dev[d].at = "send" => dev'[d].win = dev[d].win
          /\ Responded(d) => Responded(d)'
          /\ ~Responded(d)' => dev'[d].off = dev[d].off /\ dev'[d].sn = dev[d].sn
    BY DEF Responded
  <2> QED BY <1>2, <2>1, StreamFrame
<1> QED BY <1>1, <1>2 DEF ReadInv

LEMMA ExecutedRead ==
    ASSUME ReadInv, NEW c \in Cmds, StagingInv',
           ExecuteControl(c) \/ ExecuteRead(c) \/ ExecuteReadFails(c)
    PROVE  ReadInv'
<1>1. LocalInv /\ (up => StreamOK) /\ DevOK(c) /\ req[c] \in Requests /\ req[c].transLen \in Nat
  BY Requested DEF ReadInv, LocalInv
<1>2. /\ dev[c].at = "execute" /\ UNCHANGED <<seg, req, ini, mem, rx, stream, up, slock, stats>>
  BY DEF ExecuteControl, ExecuteRead, ExecuteReadFails, iniVars
<1>3. PICK o, buf : /\ Executed(c, o, buf) /\ o.status \in Nat /\ o.length \in Nat
                    /\ o.status = 0 => o.fromdev \/ req[c].transLen = 0
  <2>1. CASE ExecuteControl(c)
    <3>1. Executed(c, Control(req[c]), FALSE)
      BY <2>1 DEF ExecuteControl
    <3>2. /\ Control(req[c]).status \in Nat /\ Control(req[c]).length \in Nat
          /\ Control(req[c]).status = 0 => Control(req[c]).fromdev \/ req[c].transLen = 0
      BY <1>1, RequestsAssumption DEF Control, FromDev, NoData
    <3> HIDE DEF Control
    <3> QED BY <3>1, <3>2
  <2>2. CASE ExecuteRead(c)
    <3>1. PICK o : o = FromDev(Blocks(req[c]) * BlockLen)
      OBVIOUS
    <3>2. Executed(c, o, Staged)
      BY <2>2, <3>1 DEF ExecuteRead
    <3>3. req[c].len \in Nat
      BY <1>1, RequestsAssumption
    <3>4. o.status = 0 /\ o.fromdev /\ o.length = Blocks(req[c]) * 2
      BY <3>1 DEF FromDev, BlockLen
    <3>5. Blocks(req[c]) * 2 \in Nat
      BY <3>3 DEF Blocks
    <3> QED BY <3>2, <3>4, <3>5
  <2>3. CASE ExecuteReadFails(c)
    <3>1. PICK taken : Executed(c, NoData(2), taken)
      BY <2>3 DEF ExecuteReadFails
    <3>2. NoData(2).status = 2 /\ NoData(2).length = 0
      BY DEF NoData
    <3> QED BY <3>1, <3>2
  <2> QED BY <2>1, <2>2, <2>3
<1>4. /\ dev'[c].at = "done" /\ dev'[c].status = o.status /\ dev'[c].length = o.length
      /\ dev'[c].fromdev = o.fromdev /\ dev'[c].off = dev[c].off /\ dev'[c].sn = dev[c].sn
      /\ dev'[c].win = dev[c].win /\ \A d \in Cmds \ {c} : dev'[d] = dev[d]
  BY <1>1, <1>3 DEF Executed, LocalInv, StagingInv, Shape, DevFields
<1>5. staging' \in [Luns -> Nat]
  <2> DEFINE l == req[c].lun
  <2>1. staging \in [Luns -> Nat] /\ l \in Luns
    BY <1>1 DEF LocalInv, Luns
  <2>2. staging' = staging \/ (staging[l] > 0 /\ staging' = [staging EXCEPT ![l] = @ - 1])
    <3>1. CASE ExecuteControl(c)
      BY <3>1 DEF ExecuteControl
    <3>2. CASE ExecuteRead(c)
      BY <2>1, <3>2 DEF ExecuteRead
    <3>3. CASE ExecuteReadFails(c)
      BY <2>1, <3>3 DEF ExecuteReadFails
    <3> QED BY <3>1, <3>2, <3>3
  <2>3. CASE staging[l] > 0 /\ staging' = [staging EXCEPT ![l] = @ - 1]
    <3>1. staging[l] - 1 \in Nat
      BY <2>1, <2>3
    <3> QED BY <2>1, <2>3, <3>1
  <2> QED BY <2>1, <2>2, <2>3
<1>6. DevOK(c)'
  BY <1>1, <1>2, <1>3, <1>4 DEF DevOK, Places
<1> QED BY <1>1, <1>2, <1>4, <1>5, <1>6, QuietWorker DEF Responded, LocalInv

LEMMA LockRead ==
    ASSUME ReadInv, NEW c \in Cmds, StagingInv', LockStats(c)
    PROVE  ReadInv'
<1>1. LocalInv /\ (up => StreamOK) /\ DevOK(c) /\ req[c] \in Requests /\ req[c].transLen \in Nat
  BY Requested DEF ReadInv, LocalInv
<1>2. /\ dev[c].at = "done" /\ UNCHANGED <<seg, req, ini, mem, rx, stream, up, slock, staging>>
      /\ stats' = [stats EXCEPT ![req[c].lun] = c]
  BY DEF LockStats, iniVars
<1>3. PICK at : /\ dev' = [dev EXCEPT ![c].at = at]
                /\ at = IF dev[c].fromdev /\ req[c].transLen > 0 THEN "data" ELSE "respond"
  BY DEF LockStats
<1>4. /\ dev'[c].at = at /\ dev'[c].status = dev[c].status /\ dev'[c].length = dev[c].length
      /\ dev'[c].off = dev[c].off /\ dev'[c].sn = dev[c].sn
      /\ dev'[c].win = dev[c].win /\ \A d \in Cmds \ {c} : dev'[d] = dev[d]
  BY <1>1, <1>3 DEF LocalInv, StagingInv, Shape, DevFields
<1>5. DevOK(c)'
  BY <1>1, <1>2, <1>3, <1>4 DEF DevOK, Places
<1>6. stats' \in [Luns -> Cmds \union {None}] /\ staging' \in [Luns -> Nat]
  BY <1>1, <1>2 DEF LocalInv
<1> QED BY <1>1, <1>2, <1>3, <1>4, <1>5, <1>6, QuietWorker DEF Responded

LEMMA CleanUpRead ==
    ASSUME ReadInv, NEW c \in Cmds, StagingInv', CleanUp(c)
    PROVE  ReadInv'
<1>1. LocalInv /\ (up => StreamOK) /\ DevOK(c) /\ req[c] \in Requests /\ req[c].transLen \in Nat
  BY Requested DEF ReadInv, LocalInv
<1>2. /\ dev[c].at = "cleanup" /\ UNCHANGED <<seg, req, ini, mem, rx, stream, up, slock>>
      /\ stats' = [stats EXCEPT ![req[c].lun] = None]
      /\ staging' = [staging EXCEPT ![req[c].lun] = IF GivesBack(c) THEN @ + 1 ELSE @]
  BY DEF CleanUp, iniVars
<1>3. PICK r, b : dev' = [dev EXCEPT ![c] = r] /\ r = [Idle EXCEPT !.at = "finished", !.buf = b]
  BY DEF CleanUp
<1>4. /\ r.at = "finished" /\ r.status = 0 /\ r.length = 0 /\ r.off = 0 /\ r.sn = 0
      /\ r.win = Window(<<>>)
  <2> HIDE DEF Window
  <2> QED BY <1>3 DEF Idle
<1>5. dev'[c] = r /\ \A d \in Cmds \ {c} : dev'[d] = dev[d]
  BY <1>1, <1>3 DEF LocalInv, StagingInv, Shape
<1>6. IsWindow(Window(<<>>))
  <2>1. <<>> \in Seq(Element)
    OBVIOUS
  <2> QED BY <2>1, WholeWindow
<1>7. DevOK(c)'
  BY <1>1, <1>2, <1>4, <1>5, <1>6 DEF DevOK, Places
<1>8. stats' \in [Luns -> Cmds \union {None}]
  BY <1>1, <1>2 DEF LocalInv
<1>9. staging' \in [Luns -> Nat]
  <2>1. \A n \in Nat : (IF GivesBack(c) THEN n + 1 ELSE n) \in Nat
    OBVIOUS
  <2> QED BY <1>1, <1>2, <2>1 DEF LocalInv
<1> QED BY <1>1, <1>2, <1>4, <1>5, <1>7, <1>8, <1>9, QuietWorker DEF Responded

LEMMA HeaderRead ==
    ASSUME ReadInv, NEW c \in Cmds, StagingInv', SendHeader(c)
    PROVE  ReadInv'
<1>1. LocalInv /\ (up => StreamOK) /\ DevOK(c) /\ req[c] \in Requests /\ req[c].transLen \in Nat
  BY Requested DEF ReadInv, LocalInv
<1>2. /\ up /\ dev[c].at = "data" /\ ~exited /\ UNCHANGED <<seg, req, ini, mem, rx, up, stats, staging>>
  BY DEF SendHeader, iniVars
<1>3. staging' \in [Luns -> Nat] /\ stats' \in [Luns -> Cmds \union {None}]
  BY <1>1, <1>2 DEF LocalInv
<1>4. CASE UNCHANGED exited
  <2>1. PICK len, w : /\ slock' = c /\ len = DataLength(c) /\ IsWindow(w) /\ Total(w) = Need(len)
                      /\ dev' = [dev EXCEPT ![c].at = "send", ![c].sn = @ + 1, ![c].win = w]
    BY <1>1, <1>4, HeaderSent
  <2>2. PICK n : n = dev[c].sn + 1 /\ dev' = [dev EXCEPT ![c].at = "send", ![c].sn = n, ![c].win = w]
    BY <2>1
  <2>3. /\ dev'[c].at = "send" /\ dev'[c].sn = dev[c].sn + 1 /\ dev'[c].win = w
        /\ dev'[c].status = dev[c].status /\ dev'[c].length = dev[c].length
        /\ dev'[c].off = dev[c].off /\ \A d \in Cmds \ {c} : dev'[d] = dev[d]
    BY <1>1, <2>2 DEF LocalInv, StagingInv, Shape, DevFields
  <2>4. dev[c].off < req[c].transLen
    BY <1>1, <1>2 DEF DevOK
  <2>5. Total(w) > 0
    BY <1>1, <2>1, <2>4, DataLengthProperties, NeedProperties
  <2>6. DevOK(c)'
    BY <1>1, <1>2, <2>1, <2>3, <2>4, <2>5 DEF DevOK, Places
  <2>7. LocalInv'
    BY <1>1, <1>2, <1>3, <2>1, <2>3, <2>6, WorkerFrame DEF Responded
  <2>8. StreamOK'
    BY <1>1, <1>2, <1>4, HeaderStream
  <2> QED BY <2>7, <2>8 DEF ReadInv
<1>5. CASE ~UNCHANGED exited
  <2>1. UNCHANGED <<slock, stream, dev>>
    BY <1>5 DEF SendHeader
  <2>2. DevOK(c)'
    BY <1>1, <1>2, <2>1 DEF DevOK
  <2> QED BY <1>1, <1>2, <1>3, <2>1, <2>2, QuietWorker DEF Responded
<1> QED BY <1>4, <1>5

LEMMA UnitsRead ==
    ASSUME ReadInv, NEW c \in Cmds, StagingInv', SendUnits(c)
    PROVE  ReadInv'
<1>1. LocalInv /\ StreamOK
  BY DEF ReadInv, SendUnits
<1>2. /\ dev[c].at = "send" /\ UNCHANGED <<seg, req, ini, mem, rx, up, stats, staging>>
  BY DEF SendUnits, iniVars
<1>3. StreamOK' /\ DevOK(c)'
  BY <1>1, UnitsStream
<1>4. slock' \in Cmds \union {None}
  <2>1. slock' = slock \/ slock' = None
    BY DEF SendUnits
  <2> QED BY <1>1, <2>1 DEF LocalInv
<1>5. \A d \in Cmds \ {c} : dev'[d] = dev[d]
  <2>1. \/ \E w : dev' = [dev EXCEPT ![c].win = w]
        \/ \E off, w, at : dev' = [dev EXCEPT ![c].off = off, ![c].win = w, ![c].at = at]
    <3>1. PICK a, k :
             IF k < Len(a)
             THEN dev' = [dev EXCEPT ![c].win = Rest(@, k)]
             ELSE LET off == dev[c].off + DataLength(c) IN
                  dev' = [dev EXCEPT ![c].off = off, ![c].win = Window(<<>>),
                                     ![c].at = IF MoreData(c, off) THEN "data" ELSE "respond"]
      BY DEF SendUnits
    <3> HIDE DEF Rest, DataLength, MoreData, Window
    <3> QED BY <3>1
  <2> QED BY <1>1, <2>1 DEF LocalInv, StagingInv, Shape
<1>6. LocalInv'
  BY <1>1, <1>2, <1>3, <1>4, <1>5, WorkerFrame DEF LocalInv, Responded
<1> QED BY <1>3, <1>6 DEF ReadInv

LEMMA RespondRead ==
    ASSUME ReadInv, NEW c \in Cmds, StagingInv', Respond(c)
    PROVE  ReadInv'
<1>1. LocalInv /\ StreamOK /\ DevOK(c)
  BY DEF ReadInv, LocalInv, Respond
<1>2. /\ dev[c].at = "respond" /\ UNCHANGED <<seg, req, ini, mem, rx, up, stats, staging, slock>>
      /\ dev' = [dev EXCEPT ![c].at = "cleanup"]
  BY DEF Respond, iniVars
<1>3. /\ dev'[c].at = "cleanup" /\ dev'[c].status = dev[c].status /\ dev'[c].length = dev[c].length
      /\ dev'[c].off = dev[c].off /\ dev'[c].sn = dev[c].sn
      /\ dev'[c].win = dev[c].win /\ \A d \in Cmds \ {c} : dev'[d] = dev[d]
  BY <1>1, <1>2 DEF LocalInv, StagingInv, Shape, DevFields
<1>4. DevOK(c)'
  BY <1>1, <1>2, <1>3 DEF DevOK, Places
<1>5. LocalInv'
  BY <1>1, <1>2, <1>3, <1>4, WorkerFrame DEF LocalInv, Responded
<1> QED BY <1>1, <1>5, ResponseStream DEF ReadInv

LEMMA FailsRead ==
    ASSUME ReadInv, NEW c \in Cmds, StagingInv', SendFails(c)
    PROVE  ReadInv'
<1>1. LocalInv /\ DevOK(c)
  BY DEF ReadInv, LocalInv
<1>2. ~up /\ slock' = c /\ UNCHANGED <<seg, req, ini, mem, rx, up, stats, staging, dev>>
  BY DEF SendFails, iniVars
<1>3. DevOK(c)'
  BY <1>1, <1>2 DEF DevOK
<1>4. LocalInv'
  BY <1>1, <1>2, <1>3, WorkerFrame DEF LocalInv, Responded
<1> QED BY <1>2, <1>4 DEF ReadInv

\* A step that leaves the target's side and the memory as they are
LEMMA TargetFrame ==
    ASSUME LocalInv, StagingInv', UNCHANGED <<seg, req, dev, stats, slock, staging>>,
           \A c \in Cmds : IniOK(c)', \A p \in mem' : Placed(p)'
    PROVE  LocalInv'
<1>1. \A c \in Cmds : DevOK(c)'
  BY DEF LocalInv, DevOK
<1> QED BY <1>1 DEF LocalInv

LEMMA RxRead ==
    ASSUME ReadInv, StagingInv', RxThread
    PROVE  ReadInv'
<1>1. LocalInv /\ StreamOK
  BY DEF ReadInv, RxThread, RecvHeader, RecvUnits, RecvResponse
<1>2. UNCHANGED <<seg, req, dev, stats, slock, staging, up>>
  BY DEF RxThread, RecvHeader, RecvUnits, RecvResponse
<1>3. CASE RecvHeader
  <2>1. UNCHANGED <<ini, mem>>
    BY <1>3 DEF RecvHeader
  <2>2. \A c \in Cmds : IniOK(c)'
    BY <1>1, <1>2, <2>1 DEF LocalInv, IniOK, Answered, Responded, HasUnit
  <2>3. \A p \in mem' : Placed(p)'
    BY <1>1, <1>2, <2>1 DEF LocalInv, Placed, Buffer
  <2>4. StreamOK'
    BY <1>1, <1>3, RecvHeaderStream
  <2> QED BY <1>1, <1>2, <2>2, <2>3, <2>4, TargetFrame DEF ReadInv
<1>4. CASE RecvUnits
  <2>1. StreamOK' /\ (\A c \in Cmds : IniOK(c)') /\ \A p \in mem' : Placed(p)'
    BY <1>1, <1>4, RecvUnitsKeeps
  <2> QED BY <1>1, <1>2, <2>1, TargetFrame DEF ReadInv
<1>5. CASE RecvResponse
  <2>1. StreamOK' /\ \A c \in Cmds : IniOK(c)'
    BY <1>1, <1>5, RecvResponseKeeps
  <2>2. \A p \in mem' : Placed(p)'
    BY <1>1, <1>2, <1>5 DEF LocalInv, Placed, Buffer, RecvResponse
  <2> QED BY <1>1, <1>2, <2>1, <2>2, TargetFrame DEF ReadInv
<1> QED BY <1>3, <1>4, <1>5 DEF RxThread

LEMMA IssueRead ==
    ASSUME ReadInv, NEW c \in Cmds, StagingInv', Issue(c)
    PROVE  ReadInv'
<1>1. LocalInv /\ StreamOK /\ DevOK(c) /\ req[c] \in Requests /\ req[c].transLen \in Nat
  BY Requested DEF ReadInv, LocalInv, Issue
<1>2. /\ ini' = [ini EXCEPT ![c].status = "pending"] /\ dev' = [dev EXCEPT ![c].at = "execute"]
      /\ ini[c].status = None /\ UNCHANGED <<seg, req, mem, rx, stream, slock, stats, staging, up>>
  BY DEF Issue
<1>3. dev[c].at = "idle"
  BY <1>1, <1>2 DEF LocalInv, StagingInv, BufferPlace
<1>4. /\ dev'[c].at = "execute" /\ dev'[c].status = dev[c].status /\ dev'[c].length = dev[c].length
      /\ dev'[c].off = dev[c].off /\ dev'[c].sn = dev[c].sn
      /\ dev'[c].win = dev[c].win /\ \A d \in Cmds \ {c} : dev'[d] = dev[d]
  BY <1>1, <1>2 DEF LocalInv, StagingInv, Shape, DevFields
<1>5. /\ ini'[c].status = "pending" /\ ini'[c].bytes = ini[c].bytes /\ ini'[c].pdus = ini[c].pdus
      /\ ini'[c].sn = ini[c].sn /\ \A d \in Cmds \ {c} : ini'[d] = ini[d]
  BY <1>1, <1>2 DEF LocalInv, StagingInv, Shape, IniFields
<1>6. ASSUME NEW d \in Cmds PROVE DevOK(d)'
  <2>1. CASE d = c
    BY <1>1, <1>2, <1>3, <1>4, <2>1 DEF DevOK, Places
  <2>2. CASE d # c
    BY <1>1, <1>2, <1>4, <2>2 DEF LocalInv, DevOK
  <2> QED BY <2>1, <2>2
<1>7. ASSUME NEW d \in Cmds PROVE IniOK(d)'
  <2>1. \A u : HasUnit(d, u)' <=> HasUnit(d, u)
    BY <1>2 DEF HasUnit
  <2>2. IniOK(d)
    BY <1>1 DEF LocalInv
  <2>3. CASE d = c
    BY <1>2, <1>5, <2>1, <2>2, <2>3 DEF IniOK, Answered
  <2>4. CASE d # c
    BY <1>2, <1>4, <1>5, <2>1, <2>2, <2>4 DEF IniOK, Answered, Responded
  <2> QED BY <2>3, <2>4
<1>8. \A p \in mem' : Placed(p)'
  BY <1>1, <1>2 DEF LocalInv, Placed, Buffer
<1>9. LocalInv'
  BY <1>1, <1>2, <1>6, <1>7, <1>8 DEF LocalInv
<1>10. \A d \in Cmds :
          /\ ini'[d].bytes = ini[d].bytes /\ ini'[d].pdus = ini[d].pdus
          /\ ini[d].status = "pending" => ini'[d].status = "pending"
          /\ dev[d].at = "send" <=> dev'[d].at = "send"
          /\ dev[d].at = "send" => dev'[d].win = dev[d].win
          /\ Responded(d) => Responded(d)'
          /\ ~Responded(d)' => dev'[d].off = dev[d].off /\ dev'[d].sn = dev[d].sn
  BY <1>3, <1>4, <1>5 DEF Responded
<1>11. StreamOK'
  BY <1>1, <1>2, <1>10, StreamFrame
<1> QED BY <1>9, <1>11 DEF ReadInv

\* The connection breaks, or nothing happens.
LEMMA RestRead ==
    ASSUME ReadInv, StagingInv', UNCHANGED <<seg, req, ini, mem, dev, stats, slock, staging>>,
           (up' = FALSE) \/ UNCHANGED <<rx, stream, up>>
    PROVE  ReadInv'
<1>1. \A c \in Cmds : IniOK(c)'
  BY DEF ReadInv, LocalInv, IniOK, Answered, Responded, HasUnit
<1>2. \A p \in mem' : Placed(p)'
  BY DEF ReadInv, LocalInv, Placed, Buffer
<1>3. LocalInv'
  BY <1>1, <1>2, TargetFrame DEF ReadInv
<1>4. CASE up' = FALSE
  BY <1>3, <1>4 DEF ReadInv
<1>5. CASE UNCHANGED <<rx, stream, up>>
  <2>1. ASSUME StreamOK PROVE StreamOK'
    BY <1>5, <2>1, StreamFrame DEF ReadInv, Responded
  <2> QED BY <1>3, <1>5, <2>1 DEF ReadInv
<1> QED BY <1>4, <1>5

LEMMA NextRead == ReadInv /\ [Next]_vars => ReadInv'
<1> SUFFICES ASSUME ReadInv, [Next]_vars PROVE ReadInv'
  OBVIOUS
<1>1. StagingInv'
  BY NextStaging DEF ReadInv, LocalInv
<1>2. CASE \E c \in Cmds : Issue(c)
  BY <1>1, <1>2, IssueRead
<1>3. CASE \E c \in Cmds : Worker(c)
  BY <1>1, <1>3, ExecutedRead, LockRead, HeaderRead, UnitsRead, RespondRead, FailsRead, CleanUpRead DEF Worker
<1>4. CASE RxThread
  BY <1>1, <1>4, RxRead
<1>5. CASE Break \/ CloseAtExit \/ Done \/ UNCHANGED vars
  <2>1. /\ UNCHANGED <<seg, req, ini, mem, dev, stats, slock, staging>>
        /\ (up' = FALSE) \/ UNCHANGED <<rx, stream, up>>
    BY <1>5 DEF Break, CloseAtExit, Down, Done, vars, iniVars
  <2> QED BY <1>1, <2>1, RestRead
<1> QED BY <1>2, <1>3, <1>4, <1>5 DEF Next

\* Data only ever gets to its place: a unit of a command is stored in that command's buffer at
\* its offset, however PDUs, writev and readv cut the data and however the buffer is scattered.
THEOREM DataInPlace == Spec => []NeverMisplaced
<1>1. ReadInv => NeverMisplaced
  <2> SUFFICES ASSUME ReadInv PROVE NeverMisplaced
    OBVIOUS
  <2>1. ASSUME NEW l \in Luns PROVE stats[l] \in Cmds \union {None} /\ staging[l] \in 0..NStaging
    <3>1. staging[l] \in Nat /\ NStaging \in Nat /\ stats[l] \in Cmds \union {None}
      BY ConstantsAssumption DEF ReadInv, LocalInv
    <3>2. staging[l] + Cardinality(Buffered(l)) = NStaging /\ Cardinality(Buffered(l)) \in Nat
      BY BufferedFinite DEF ReadInv, LocalInv, StagingInv, Balanced
    <3> QED BY <3>1, <3>2
  <2>2. TypeOK
    BY <2>1 DEF TypeOK, ReadInv, LocalInv, DevOK, IniOK
  <2>3. \A p \in mem : /\ p.from = p.cmd /\ p.unit \in DOMAIN Buffer(p.cmd)
                       /\ Buffer(p.cmd)[p.unit] = p.at
    BY DEF ReadInv, LocalInv, Placed
  <2> QED BY <2>2, <2>3 DEF NeverMisplaced
<1> QED BY InitRead, NextRead, <1>1, PTL DEF Spec

\* A command that the initiator reports GOOD has all of its data, although scsi_response_i
\* does not compare the amount: every unit is in its buffer, in as many PDUs as were sent.
THEOREM GoodIsComplete == Spec => []GoodMeansRead
<1>1. ReadInv => GoodMeansRead
  BY DEF ReadInv, LocalInv, IniOK, HasUnit, GoodMeansRead
<1> QED BY InitRead, NextRead, <1>1, PTL DEF Spec
=============================================================================
