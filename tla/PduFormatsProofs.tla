------------------------- MODULE PduFormatsProofs -------------------------
(***************************************************************************)
(* For every octets that structures are made of: what the encap functions of *)
(* iscsi.c put into a header, the decap functions take out of it, and none   *)
(* of them refuses it; the tag is where the receiver looks for it; an ISID   *)
(* comes back through login command and login response.                      *)
(*                                                                           *)
(* First what stores do to octets, then which store an octet of the header   *)
(* comes from in the end, then how a field arrives, and then each PDU:       *)
(* its stores (Set, Tidy), its loads (Loads, Fields, LoadOf, Sound), which   *)
(* fields another one leaves out (Always), whose each octet is (Owns), its   *)
(* octets 1 and 2 (First), and that it arrives (Good).                       *)
(***************************************************************************)
EXTENDS PduFormats, WellFoundedInduction, SequenceTheorems, TLAPS

-----------------------------------------------------------------------------
(***************************************************************************)
(* Induction, and the stores of an encap function one after the other        *)
(***************************************************************************)

\* Natural numbers by way of their well-founded order.
LEMMA Induction ==
    ASSUME NEW S, 0 \in S, \A n \in Nat : n \in S => n + 1 \in S
    PROVE  Nat \subseteq S
<1> SUFFICES ASSUME Nat \ S # {} PROVE FALSE
  OBVIOUS
<1>1. PICK n \in Nat \ S : \A m \in Nat \ S : ~(<<m, n>> \in OpToRel(<, Nat))
  BY NatLessThanWellFounded, WFMin
<1>2. n # 0 /\ n - 1 \in Nat /\ n - 1 < n /\ (n - 1) + 1 = n
  OBVIOUS
<1>3. n - 1 \notin S
  BY <1>2
<1>4. <<n - 1, n>> \in OpToRel(<, Nat)
  BY <1>2 DEF OpToRel
<1> QED BY <1>1, <1>2, <1>3, <1>4

\* h[k] is the header after the k-th store.
Course(p, v, n, h) ==
    h = [k \in 0..n |-> IF k = 0 THEN Blank(p) ELSE Put(h[k - 1], FormatOf[p].puts[k], v)]

LEMMA CourseExists ==
    ASSUME NEW p, NEW v
    PROVE  \A n \in Nat : \E h : Course(p, v, n, h)
<1> DEFINE S == {n \in Nat : \E h : Course(p, v, n, h)}
<1>1. 0 \in S
  <2> DEFINE h == [i \in 0..0 |-> Blank(p)]
  <2>1. Course(p, v, 0, h)
    BY DEF Course
  <2> QED BY <2>1
<1>2. ASSUME NEW k \in Nat, k \in S PROVE k + 1 \in S
  <2>1. PICK h : Course(p, v, k, h)
    BY <1>2
  <2> DEFINE g == [i \in 0..k + 1 |-> IF i = k + 1 THEN Put(h[k], FormatOf[p].puts[k + 1], v) ELSE h[i]]
  <2> HIDE DEF Put, Blank
  <2>2. \A i \in 0..k : h[i] = IF i = 0 THEN Blank(p) ELSE Put(h[i - 1], FormatOf[p].puts[i], v)
    BY <2>1 DEF Course
  <2>3. \A i \in 0..k + 1 : g[i] = IF i = 0 THEN Blank(p) ELSE Put(g[i - 1], FormatOf[p].puts[i], v)
    BY <2>2
  <2>4. g = [i \in 0..k + 1 |-> g[i]]
    OBVIOUS
  <2> HIDE DEF g
  <2>5. Course(p, v, k + 1, g)
    BY <2>3, <2>4 DEF Course
  <2> QED BY <2>5
<1>3. Nat \subseteq S
  <2> HIDE DEF S
  <2> QED BY <1>1, <1>2, Induction
<1> QED BY <1>3

\* "Stored" is where the stores lead, one after the other.
LEMMA StoredCourse ==
    ASSUME NEW p, NEW v, NEW n \in Nat, Len(FormatOf[p].puts) = n
    PROVE  \E h : /\ h[0] = Blank(p) /\ Stored(p, v) = h[n]
                  /\ \A k \in 1..n : h[k] = Put(h[k - 1], FormatOf[p].puts[k], v)
<1> DEFINE puts == FormatOf[p].puts
           after[k \in 0..Len(puts)] == IF k = 0 THEN Blank(p) ELSE Put(after[k - 1], puts[k], v)
<1> HIDE DEF Put, Blank
<1>1. Stored(p, v) = after[n]
  BY DEF Stored
<1>2. Course(p, v, n, after)
  <2>0. \E h : Course(p, v, n, h)
    BY CourseExists
  <2>1. \E h : h = [k \in 0..n |-> IF k = 0 THEN Blank(p) ELSE Put(h[k - 1], puts[k], v)]
    BY <2>0, Zenon DEF Course
  <2>2. after = [k \in 0..n |-> IF k = 0 THEN Blank(p) ELSE Put(after[k - 1], puts[k], v)]
    BY <2>1, Zenon
  <2> HIDE DEF after
  <2> QED BY <2>2, Zenon DEF Course
<1> HIDE DEF after
<1>3. /\ after[0] = Blank(p)
      /\ \A k \in 1..n : after[k] = Put(after[k - 1], FormatOf[p].puts[k], v)
  BY <1>2 DEF Course
<1> QED BY <1>1, <1>3

-----------------------------------------------------------------------------
(***************************************************************************)
(* What a store does to an octet, and what many of them do                   *)
(***************************************************************************)

\* Octet i, which was x, after store q
OctetAfter(x, q, v, i) ==
    IF q.when # "" /\ IsZero(v[q.when]) THEN x
    ELSE IF q.w > 0 THEN IF i = q.at + 1 THEN x + (Octet(v[q.f], 1) % q.r) * q.w ELSE x
    ELSE IF i \in q.at + 1..q.at + q.n THEN Octet(v[q.f], q.at + q.n + 1 - i) ELSE x

\* A function on the 48 octets
Octets48(h) == h = [i \in 1..48 |-> h[i]]

LEMMA PutOctet ==
    ASSUME NEW h, NEW q, NEW v, Octets48(h)
    PROVE  /\ Octets48(Put(h, q, v))
           /\ \A i \in 1..48 : Put(h, q, v)[i] = OctetAfter(h[i], q, v, i)
<1> DEFINE D == q.when # "" /\ IsZero(v[q.when])
           x == (Octet(v[q.f], 1) % q.r) * q.w
<1>1. CASE D
  BY <1>1 DEF Put, OctetAfter
<1>2. CASE ~D /\ q.w > 0
  <2>1. Put(h, q, v) = [h EXCEPT ![q.at + 1] = @ + x]
    BY <1>2 DEF Put
  <2>2. \A i \in 1..48 : OctetAfter(h[i], q, v, i) = IF i = q.at + 1 THEN h[i] + x ELSE h[i]
    BY <1>2 DEF OctetAfter
  <2> HIDE DEF x
  <2> QED BY <2>1, <2>2 DEF Octets48
<1>3. CASE ~D /\ ~(q.w > 0)
  BY <1>3 DEF Put, OctetAfter, Octets48
<1> QED BY <1>1, <1>2, <1>3

\* h[k] are the octets after the k-th of n stores.
Steps(p, v, n, h) ==
    /\ h[0] = Blank(p) /\ Stored(p, v) = h[n] /\ Octets48(h[n])
    /\ \A k \in 1..n : \A i \in 1..48 :
          h[k][i] = OctetAfter(h[k - 1][i], FormatOf[p].puts[k], v, i)

LEMMA Stores ==
    ASSUME NEW p, NEW v, NEW n \in Nat, Len(FormatOf[p].puts) = n
    PROVE  \E h : Steps(p, v, n, h)
<1>1. PICK h : /\ h[0] = Blank(p) /\ Stored(p, v) = h[n]
               /\ \A k \in 1..n : h[k] = Put(h[k - 1], FormatOf[p].puts[k], v)
  BY StoredCourse
<1> DEFINE S == {k \in Nat : k <= n => Octets48(h[k])}
<1>2. Nat \subseteq S
  <2>1. 0 \in S
    BY <1>1 DEF Blank, Octets48
  <2>2. ASSUME NEW k \in Nat, k \in S PROVE k + 1 \in S
    <3>1. CASE k + 1 <= n
      <4>1. Octets48(h[k])
        BY <2>2, <3>1
      <4>2. h[k + 1] = Put(h[k], FormatOf[p].puts[k + 1], v)
        BY <1>1, <3>1
      <4>3. Octets48(h[k + 1])
        BY <4>1, <4>2, PutOctet
      <4> QED BY <4>3
    <3>2. CASE ~(k + 1 <= n)
      BY <3>2
    <3> QED BY <3>1, <3>2
  <2> HIDE DEF S
  <2> QED BY <2>1, <2>2, Induction
<1>3. ASSUME NEW k \in 1..n, NEW i \in 1..48
      PROVE  h[k][i] = OctetAfter(h[k - 1][i], FormatOf[p].puts[k], v, i)
  <2>1. k - 1 \in Nat /\ k - 1 <= n
    BY <1>3
  <2>2. Octets48(h[k - 1])
    BY <1>2, <2>1
  <2>3. h[k] = Put(h[k - 1], FormatOf[p].puts[k], v)
    BY <1>1
  <2> DEFINE q == FormatOf[p].puts[k]
             g == h[k - 1]
  <2>4. Octets48(g) /\ h[k] = Put(g, q, v)
    BY <2>2, <2>3
  <2> HIDE DEF q, g
  <2>5. h[k][i] = OctetAfter(g[i], q, v, i)
    BY <2>4, PutOctet
  <2> QED BY <2>5 DEF q, g
<1>4. Octets48(h[n])
  BY <1>2
<1>5. Steps(p, v, n, h)
  <2>1. h[0] = Blank(p) /\ Stored(p, v) = h[n]
    BY <1>1
  <2> QED BY ONLY <2>1, <1>3, <1>4, Zenon DEF Steps
<1> QED BY <1>5

\* What a field is about
LEMMA Names ==
    /\ \A f, at, n : Word(f, at, n).f = f
    /\ \A when, f, at, n : WordIf(when, f, at, n).f = f
    /\ \A f, at, w, r : Bits(f, at, w, r).f = f
    /\ \A when, f, at, w, r : BitsIf(when, f, at, w, r).f = f
    /\ \A f, at, w : Flag(f, at, w).f = f
  BY DEF Word, WordIf, Bits, BitsIf, Flag

LEMMA AfterWord ==
    ASSUME NEW x, NEW v, NEW i \in Nat, NEW f, NEW at \in Nat, NEW n \in Nat
    PROVE  OctetAfter(x, Word(f, at, n), v, i) =
                IF i \in at + 1..at + n THEN Octet(v[f], at + n + 1 - i) ELSE x
<1> DEFINE q == Word(f, at, n)
<1>1. q.f = f /\ q.at = at /\ q.n = n
  BY DEF Word, WordIf
<1>2. q.w = 0
  BY DEF Word, WordIf
<1>3. q.when = ""
  BY DEF Word, WordIf
<1> HIDE DEF q
<1>4. ~(q.w > 0)
  BY ONLY <1>2
<1>5. ~(q.when # "" /\ IsZero(v[q.when]))
  BY <1>3
<1>6. OctetAfter(x, q, v, i) = IF i \in q.at + 1..q.at + q.n THEN Octet(v[q.f], q.at + q.n + 1 - i) ELSE x
  BY <1>4, <1>5, Zenon DEF OctetAfter
<1> QED BY <1>1, <1>6, Zenon DEF q

\* A store that is made only when another field is not zero
Conditional(when) == when # ""

LEMMA AfterWordIf ==
    ASSUME NEW x, NEW v, NEW i \in Nat, NEW f, NEW at \in Nat, NEW n \in Nat, NEW when, Conditional(when)
    PROVE  OctetAfter(x, WordIf(when, f, at, n), v, i) =
                IF ~IsZero(v[when]) /\ i \in at + 1..at + n THEN Octet(v[f], at + n + 1 - i) ELSE x
<1> DEFINE q == WordIf(when, f, at, n)
<1>1. q.f = f /\ q.at = at /\ q.n = n
  BY DEF WordIf
<1>2. q.w = 0
  BY DEF WordIf
<1>3. q.when = when
  BY DEF WordIf
<1> HIDE DEF q
<1>4. ~(q.w > 0)
  BY ONLY <1>2
<1>5. OctetAfter(x, q, v, i) =
        IF IsZero(v[q.when]) THEN x
        ELSE IF i \in q.at + 1..q.at + q.n THEN Octet(v[q.f], q.at + q.n + 1 - i) ELSE x
  BY <1>3, <1>4, Zenon DEF OctetAfter, Conditional
<1> QED BY <1>1, <1>3, <1>5, Zenon DEF q

LEMMA AfterBits ==
    ASSUME NEW x, NEW v, NEW i \in Nat, NEW f, NEW at \in Nat, NEW w \in Nat \ {0}, NEW r
    PROVE  OctetAfter(x, Bits(f, at, w, r), v, i) =
                IF i = at + 1 THEN x + (Octet(v[f], 1) % r) * w ELSE x
<1> DEFINE q == Bits(f, at, w, r)
<1>1. q.f = f /\ q.at = at /\ q.r = r
  BY DEF Bits, BitsIf
<1>2. q.w = w
  BY DEF Bits, BitsIf
<1>3. q.when = ""
  BY DEF Bits, BitsIf
<1> HIDE DEF q
<1>4. q.w > 0
  BY ONLY <1>2, w \in Nat \ {0}
<1>5. ~(q.when # "" /\ IsZero(v[q.when]))
  BY <1>3
<1>6. OctetAfter(x, q, v, i) = IF i = q.at + 1 THEN x + (Octet(v[q.f], 1) % q.r) * q.w ELSE x
  BY <1>4, <1>5, Zenon DEF OctetAfter
<1> QED BY <1>1, <1>2, <1>6, Zenon DEF q

LEMMA AfterBitsIf ==
    ASSUME NEW x, NEW v, NEW i \in Nat, NEW f, NEW at \in Nat, NEW w \in Nat \ {0}, NEW r, NEW when, Conditional(when)
    PROVE  OctetAfter(x, BitsIf(when, f, at, w, r), v, i) =
                IF ~IsZero(v[when]) /\ i = at + 1 THEN x + (Octet(v[f], 1) % r) * w ELSE x
<1> DEFINE q == BitsIf(when, f, at, w, r)
<1>1. q.f = f /\ q.at = at /\ q.r = r
  BY DEF BitsIf
<1>2. q.w = w
  BY DEF BitsIf
<1>3. q.when = when
  BY DEF BitsIf
<1> HIDE DEF q
<1>4. q.w > 0
  BY ONLY <1>2, w \in Nat \ {0}
<1>5. OctetAfter(x, q, v, i) =
        IF IsZero(v[q.when]) THEN x
        ELSE IF i = q.at + 1 THEN x + (Octet(v[q.f], 1) % q.r) * q.w ELSE x
  BY <1>3, <1>4, Zenon DEF OctetAfter, Conditional
<1> QED BY <1>1, <1>2, <1>3, <1>5, Zenon DEF q

Puts(p) == ToSet(FormatOf[p].puts)

\* Store q leaves the octets lo to hi alone.
Spares(q, lo, hi) == IF q.w > 0 THEN q.at + 1 \notin lo..hi
                     ELSE q.at + q.n < lo \/ hi < q.at + 1

\* No store but q reaches into the octets lo to hi, no store at all.
Alone(p, q, lo, hi) == q \in Puts(p) /\ \A r \in Puts(p) : r = q \/ Spares(r, lo, hi)
Spared(p, lo, hi) == \A r \in Puts(p) : Spares(r, lo, hi)

LEMMA SparedOctet ==
    ASSUME NEW q, q.at \in Nat, q.n \in Nat, NEW lo \in Nat, NEW hi \in Nat, Spares(q, lo, hi), NEW i \in lo..hi,
           NEW x, NEW v
    PROVE  OctetAfter(x, q, v, i) = x
<1> DEFINE D == q.when # "" /\ IsZero(v[q.when])
<1>1. CASE D
  BY <1>1 DEF OctetAfter
<1>2. CASE ~D /\ q.w > 0
  <2>1. i # q.at + 1
    BY <1>2 DEF Spares
  <2> QED BY <1>2, <2>1 DEF OctetAfter
<1>3. CASE ~D /\ ~(q.w > 0)
  <2>1. q.at + q.n < lo \/ hi < q.at + 1
    BY <1>3, Zenon DEF Spares
  <2>2. i \notin q.at + 1..q.at + q.n
    BY ONLY <2>1, q.at \in Nat, q.n \in Nat, lo \in Nat, hi \in Nat, i \in lo..hi
  <2> QED BY <1>3, <2>2, Zenon DEF OctetAfter
<1> QED BY <1>1, <1>2, <1>3

Frozen(g, i, k, n) == \A j \in k + 1..n : g[j][i] = g[j - 1][i]

\* Stores from the k-th on that spare an octet leave it as it is.
LEMMA Kept ==
    ASSUME NEW n \in Nat, NEW g, NEW k \in 0..n, NEW i,
           Frozen(g, i, k, n)
    PROVE  g[n][i] = g[k][i]
<1> DEFINE S == {j \in Nat : k + j <= n => g[k + j][i] = g[k][i]}
<1>1. 0 \in S
  OBVIOUS
<1>2. ASSUME NEW j \in Nat, j \in S PROVE j + 1 \in S
  <2>1. CASE k + (j + 1) <= n
    <3>1. g[k + j][i] = g[k][i]
      BY <1>2, <2>1
    <3> DEFINE l == k + (j + 1)
    <3>2. l \in k + 1..n /\ l - 1 = k + j
      BY <2>1
    <3> HIDE DEF l
    <3>4. g[l][i] = g[l - 1][i]
      BY <3>2 DEF Frozen
    <3> QED BY <3>1, <3>2, <3>4 DEF l
  <2>2. CASE ~(k + (j + 1) <= n)
    BY <2>2
  <2> QED BY <2>1, <2>2
<1>3. Nat \subseteq S
  <2> HIDE DEF S
  <2> QED BY <1>1, <1>2, Induction
<1>4. n - k \in Nat /\ k + (n - k) = n
  OBVIOUS
<1> QED BY <1>3, <1>4

LEMMA PutsAt ==
    ASSUME NEW p, NEW n \in Nat, Len(FormatOf[p].puts) = n
    PROVE  /\ \A k \in 1..n : FormatOf[p].puts[k] \in Puts(p)
           /\ \A q \in Puts(p) : \E k \in 1..n : FormatOf[p].puts[k] = q
<1> FormatOf[p].puts = FormatOf[p].puts
  OBVIOUS
<1> QED BY DEF Puts, ToSet

\* Fields of a store are where they are.
Placed(q) == q.at \in Nat /\ q.n \in Nat
Tidy(p) == FormatOf[p].puts \in Seq(Puts(p)) /\ \A r \in Puts(p) : Placed(r)

\* Whatever octet i was, it is x after store q.
Sets(q, v, i, x) == \A y : OctetAfter(y, q, v, i) = x

LEMMA AloneOctet ==
    ASSUME NEW p, NEW v, Tidy(p), NEW q, NEW lo \in 1..48, NEW hi \in 1..48, Alone(p, q, lo, hi),
           NEW i \in lo..hi, NEW x, Sets(q, v, i, x)
    PROVE  Stored(p, v)[i] = x
<1> DEFINE n == Len(FormatOf[p].puts)
<1>1. n \in Nat /\ DOMAIN FormatOf[p].puts = 1..n
  BY DEF Tidy
<1> HIDE DEF n
<1>2. PICK g : Steps(p, v, n, g)
  BY <1>1, Stores DEF n
<1>3. PICK k \in 1..n : FormatOf[p].puts[k] = q
  BY <1>1 DEF Alone, Puts, ToSet
<1>4. \A j \in 1..n : \A y : \/ OctetAfter(y, FormatOf[p].puts[j], v, i) = x
                            \/ OctetAfter(y, FormatOf[p].puts[j], v, i) = y
  <2> TAKE j \in 1..n
  <2> DEFINE r == FormatOf[p].puts[j]
  <2>1. r \in Puts(p)
    BY <1>1 DEF Puts, ToSet
  <2> HIDE DEF r
  <2>2. CASE r = q
    BY <2>2 DEF r, Sets
  <2>3. CASE Spares(r, lo, hi)
    <3>1. r.at \in Nat /\ r.n \in Nat
      BY <2>1 DEF Tidy, Placed
    <3>2. lo \in Nat /\ hi \in Nat /\ i \in lo..hi
      OBVIOUS
    <3>3. \A y : OctetAfter(y, r, v, i) = y
      BY ONLY <2>3, <3>1, <3>2, SparedOctet
    <3> QED BY <3>3 DEF r
  <2> QED BY <2>1, <2>2, <2>3 DEF Alone
<1> DEFINE S == {j \in Nat : k + j <= n => g[k + j][i] = x}
<1>5. i \in 1..48
  OBVIOUS
<1>6. 0 \in S
  <2>1. g[k][i] = OctetAfter(g[k - 1][i], FormatOf[p].puts[k], v, i)
    BY <1>2, <1>5 DEF Steps
  <2> QED BY <1>3, <2>1 DEF Sets
<1>7. ASSUME NEW j \in Nat, j \in S PROVE j + 1 \in S
  <2>1. CASE k + (j + 1) <= n
    <3>1. g[k + j][i] = x
      <4>1. k + j <= n
        BY <2>1, <1>1
      <4> QED BY <1>7, <4>1
    <3> DEFINE l == k + (j + 1)
    <3>2. l \in 1..n /\ l - 1 = k + j
      BY <2>1, <1>1
    <3>3. g[l][i] = OctetAfter(g[l - 1][i], FormatOf[p].puts[l], v, i)
      BY <3>2, <1>2, <1>5 DEF Steps
    <3> HIDE DEF l
    <3>4. g[l][i] = x \/ g[l][i] = g[l - 1][i]
      BY <3>2, <3>3, <1>4
    <3> QED BY <3>1, <3>2, <3>4 DEF l
  <2>2. CASE ~(k + (j + 1) <= n)
    BY <2>2
  <2> QED BY <2>1, <2>2
<1>8. Nat \subseteq S
  <2> HIDE DEF S
  <2> QED BY <1>6, <1>7, Induction
<1>9. n - k \in Nat /\ k + (n - k) = n
  BY <1>1
<1>10. g[n][i] = x
  <2>1. n - k \in S
    BY <1>8, <1>9
  <2>2. k + (n - k) <= n
    BY <1>1, <1>9
  <2>3. g[k + (n - k)][i] = x
    BY <2>1, <2>2
  <2> QED BY <2>3, <1>9
<1> QED BY <1>2, <1>10 DEF Steps

\* Octet i is what it was after store q.
Keeps(q, v, i) == \A y : OctetAfter(y, q, v, i) = y

LEMMA KeptOctet ==
    ASSUME NEW p, NEW v, Tidy(p), NEW i \in 1..48, \A q \in Puts(p) : Keeps(q, v, i)
    PROVE  Stored(p, v)[i] = Blank(p)[i]
<1>0. Len(FormatOf[p].puts) \in Nat
  BY DEF Tidy
<1> SUFFICES ASSUME NEW n \in Nat, n = Len(FormatOf[p].puts)
             PROVE  Stored(p, v)[i] = Blank(p)[i]
  BY <1>0
<1>1. DOMAIN FormatOf[p].puts = 1..n
  BY DEF Tidy
<1>2. PICK g : Steps(p, v, n, g)
  BY Stores
<1>3. \A j \in 1..n : FormatOf[p].puts[j] \in Puts(p)
  BY <1>1 DEF Puts, ToSet
<1>4. \A j \in 1..n : g[j][i] = g[j - 1][i]
  BY <1>2, <1>3 DEF Steps, Keeps
<1>5. Frozen(g, i, 0, n)
  BY <1>4 DEF Frozen
<1>6. g[n][i] = g[0][i]
  BY <1>5, Kept
<1> QED BY <1>2, <1>6 DEF Steps

LEMMA SparedKept ==
    ASSUME NEW p, Tidy(p), NEW q \in Puts(p), NEW v, NEW lo \in 1..48, NEW hi \in 1..48,
           Spares(q, lo, hi), NEW i \in lo..hi
    PROVE  Keeps(q, v, i)
<1>1. q.at \in Nat /\ q.n \in Nat
  BY DEF Tidy, Placed
<1>2. lo \in Nat /\ hi \in Nat
  OBVIOUS
<1> QED BY <1>1, <1>2, SparedOctet DEF Keeps

\* The octets lo to hi are as they were before the first store.
LeftBlank(p, v, lo, hi) == \A i \in lo..hi : Stored(p, v)[i] = Blank(p)[i]

LEMMA SparedStored ==
    ASSUME NEW p, NEW v, Tidy(p), NEW lo \in 1..48, NEW hi \in 1..48, Spared(p, lo, hi)
    PROVE  LeftBlank(p, v, lo, hi)
<1> SUFFICES ASSUME NEW i \in lo..hi PROVE Stored(p, v)[i] = Blank(p)[i]
  BY DEF LeftBlank
<1>1. \A q \in Puts(p) : Keeps(q, v, i)
  BY SparedKept DEF Spared
<1> QED BY <1>1, KeptOctet

\* An octet of a field that is left out
LEMMA OmittedStored ==
    ASSUME NEW p, NEW v, Tidy(p), NEW q, NEW lo \in 1..48, NEW hi \in 1..48, Alone(p, q, lo, hi), NEW i \in lo..hi,
           Keeps(q, v, i)
    PROVE  Stored(p, v)[i] = Blank(p)[i]
<1>1. \A r \in Puts(p) : Keeps(r, v, i)
  BY SparedKept DEF Alone
<1> QED BY <1>1, KeptOctet

\* Store q is the last to reach into the octets lo to hi.
FinalStore(p, q, lo, hi) ==
    \E k \in 1..Len(FormatOf[p].puts) :
       /\ FormatOf[p].puts[k] = q
       /\ \A j \in k + 1..Len(FormatOf[p].puts) : Spares(FormatOf[p].puts[j], lo, hi)

LEMMA LastOctet ==
    ASSUME NEW p, NEW v, Tidy(p), NEW q, NEW lo \in 1..48, NEW hi \in 1..48, FinalStore(p, q, lo, hi),
           NEW i \in lo..hi, NEW x, Sets(q, v, i, x)
    PROVE  Stored(p, v)[i] = x
<1>0. Len(FormatOf[p].puts) \in Nat
  BY DEF Tidy
<1> SUFFICES ASSUME NEW n \in Nat, n = Len(FormatOf[p].puts)
             PROVE  Stored(p, v)[i] = x
  BY <1>0
<1>1. DOMAIN FormatOf[p].puts = 1..n
  BY DEF Tidy
<1>2. PICK g : Steps(p, v, n, g)
  BY Stores
<1>3. PICK k \in 1..n : /\ FormatOf[p].puts[k] = q
                        /\ \A j \in k + 1..n : Spares(FormatOf[p].puts[j], lo, hi)
  BY DEF FinalStore
<1>4. \A j \in 1..n : FormatOf[p].puts[j] \in Puts(p)
  BY <1>1 DEF Puts, ToSet
<1>5. i \in 1..48
  OBVIOUS
<1>6. \A j \in k + 1..n : j \in 1..n /\ Keeps(FormatOf[p].puts[j], v, i)
  <2> TAKE j \in k + 1..n
  <2> DEFINE r == FormatOf[p].puts[j]
  <2>1. j \in 1..n
    OBVIOUS
  <2>2. r \in Puts(p) /\ Spares(r, lo, hi)
    BY <1>3, <1>4, <2>1
  <2> HIDE DEF r
  <2>3. Keeps(r, v, i)
    BY <2>2, SparedKept
  <2> QED BY <2>1, <2>3 DEF r
<1>7. \A j \in k + 1..n : g[j][i] = g[j - 1][i]
  <2> TAKE j \in k + 1..n
  <2>1. j \in 1..n /\ Keeps(FormatOf[p].puts[j], v, i)
    BY <1>6
  <2>2. g[j][i] = OctetAfter(g[j - 1][i], FormatOf[p].puts[j], v, i)
    BY <1>2, <1>5, <2>1 DEF Steps
  <2> QED BY <2>1, <2>2, Zenon DEF Keeps
<1>8. Frozen(g, i, k, n)
  BY <1>7 DEF Frozen
<1>9. k \in 0..n
  OBVIOUS
<1>10. g[n][i] = g[k][i]
  BY <1>8, <1>9, Kept
<1>11. g[k][i] = x
  BY <1>2, <1>3, <1>5 DEF Steps, Sets
<1> QED BY <1>2, <1>10, <1>11 DEF Steps

\* Which octets the four kinds of store spare
LEMMA WordIfSpares ==
    ASSUME NEW f, NEW when, NEW at \in Nat, NEW n \in Nat, NEW lo \in Nat, NEW hi \in Nat,
           at + n < lo \/ hi < at + 1
    PROVE  Spares(WordIf(when, f, at, n), lo, hi)
<1> DEFINE q == WordIf(when, f, at, n)
<1>1. q.w = 0
  BY DEF WordIf
<1>2. q.at = at /\ q.n = n
  BY DEF WordIf
<1> HIDE DEF q
<1>3. ~(q.w > 0)
  BY ONLY <1>1
<1> QED BY <1>2, <1>3, Zenon DEF Spares, q

LEMMA WordSpares ==
    ASSUME NEW f, NEW at \in Nat, NEW n \in Nat, NEW lo \in Nat, NEW hi \in Nat,
           at + n < lo \/ hi < at + 1
    PROVE  Spares(Word(f, at, n), lo, hi)
  BY WordIfSpares DEF Word

LEMMA BitsIfSpare ==
    ASSUME NEW f, NEW when, NEW r, NEW at \in Nat, NEW w \in Nat \ {0}, NEW lo \in Nat, NEW hi \in Nat,
           at + 1 < lo \/ hi < at + 1
    PROVE  Spares(BitsIf(when, f, at, w, r), lo, hi)
<1> DEFINE q == BitsIf(when, f, at, w, r)
<1>1. q.w = w
  BY DEF BitsIf
<1>2. q.at = at
  BY DEF BitsIf
<1> HIDE DEF q
<1>3. q.w > 0
  BY ONLY <1>1, w \in Nat \ {0}
<1>4. at + 1 \notin lo..hi
  OBVIOUS
<1> QED BY <1>2, <1>3, <1>4, Zenon DEF Spares, q

LEMMA BitsSpare ==
    ASSUME NEW f, NEW r, NEW at \in Nat, NEW w \in Nat \ {0}, NEW lo \in Nat, NEW hi \in Nat,
           at + 1 < lo \/ hi < at + 1
    PROVE  Spares(Bits(f, at, w, r), lo, hi)
  BY BitsIfSpare DEF Bits

LEMMA TidyKinds ==
    /\ \A f, when, at, n : /\ Word(f, at, n).at = at /\ Word(f, at, n).n = n
                           /\ WordIf(when, f, at, n).at = at /\ WordIf(when, f, at, n).n = n
    /\ \A f, when, at, w, r : /\ Bits(f, at, w, r).at = at /\ Bits(f, at, w, r).n = 1
                              /\ BitsIf(when, f, at, w, r).at = at /\ BitsIf(when, f, at, w, r).n = 1
  BY DEF Word, WordIf, Bits, BitsIf

LEMMA PlacedKinds ==
    /\ \A f : \A at, n \in Nat : Placed(Word(f, at, n))
    /\ \A when, f : \A at, n \in Nat : Placed(WordIf(when, f, at, n))
    /\ \A f, w, r : \A at \in Nat : Placed(Bits(f, at, w, r))
    /\ \A when, f, w, r : \A at \in Nat : Placed(BitsIf(when, f, at, w, r))
  BY TidyKinds DEF Placed

\* Only the first m stores reach into the octets 1 and 2.
BitsFirst(p, m) ==
    /\ m \in 0..Len(FormatOf[p].puts)
    /\ \A j \in m + 1..Len(FormatOf[p].puts) : Spares(FormatOf[p].puts[j], 1, 2)

Step(g, j, k, q, v) == \A i \in 1..48 : g[k][i] = OctetAfter(g[j][i], q, v, i)

LEMMA FirstStores ==
    ASSUME NEW p, NEW v, Tidy(p), NEW m \in Nat, BitsFirst(p, m)
    PROVE  \E g : /\ g[0] = Blank(p)
                  /\ \A k \in 1..m : Step(g, k - 1, k, FormatOf[p].puts[k], v)
                  /\ Stored(p, v)[1] = g[m][1] /\ Stored(p, v)[2] = g[m][2]
<1>0. Len(FormatOf[p].puts) \in Nat
  BY DEF Tidy
<1> SUFFICES ASSUME NEW n \in Nat, n = Len(FormatOf[p].puts)
             PROVE  \E g : /\ g[0] = Blank(p)
                           /\ \A k \in 1..m : Step(g, k - 1, k, FormatOf[p].puts[k], v)
                           /\ Stored(p, v)[1] = g[m][1] /\ Stored(p, v)[2] = g[m][2]
  BY <1>0
<1>1. DOMAIN FormatOf[p].puts = 1..n
  BY DEF Tidy
<1>2. PICK g : Steps(p, v, n, g)
  BY Stores
<1>3. m \in 0..n /\ \A j \in m + 1..n : Spares(FormatOf[p].puts[j], 1, 2)
  BY DEF BitsFirst
<1>4. \A j \in 1..n : FormatOf[p].puts[j] \in Puts(p)
  BY <1>1 DEF Puts, ToSet
<1>5. ASSUME NEW i \in 1..2 PROVE g[n][i] = g[m][i]
  <2>1. \A j \in m + 1..n : j \in 1..n /\ Keeps(FormatOf[p].puts[j], v, i)
    <3> TAKE j \in m + 1..n
    <3> DEFINE r == FormatOf[p].puts[j]
    <3>1. j \in 1..n
      BY <1>3
    <3>2. r \in Puts(p) /\ Spares(r, 1, 2)
      BY <1>3, <1>4, <3>1
    <3> HIDE DEF r
    <3>3. 1 \in 1..48 /\ 2 \in 1..48
      OBVIOUS
    <3>4. Keeps(r, v, i)
      BY <3>2, <3>3, SparedKept
    <3> QED BY <3>1, <3>4 DEF r
  <2>2. i \in 1..48
    OBVIOUS
  <2>3. \A j \in m + 1..n : g[j][i] = g[j - 1][i]
    BY <1>2, <2>1, <2>2 DEF Steps, Keeps
  <2>4. Frozen(g, i, m, n)
    BY <2>3 DEF Frozen
  <2> QED BY <1>3, <2>4, Kept
<1>6. \A k \in 1..m : Step(g, k - 1, k, FormatOf[p].puts[k], v)
  <2>1. \A k \in 1..m : k \in 1..n
    BY <1>3
  <2> QED BY <1>2, <2>1 DEF Steps, Step
<1>7. g[n][1] = g[m][1] /\ g[n][2] = g[m][2]
  BY <1>5
<1>8. g[0] = Blank(p) /\ Stored(p, v) = g[n]
  BY <1>2 DEF Steps
<1> QED BY <1>6, <1>7, <1>8

\* A store of bits into octet 1 and one into octet 2
LEMMA BitsStep1 ==
    ASSUME NEW g, NEW j, NEW k, NEW f, NEW w \in Nat \ {0}, NEW r, NEW v, Step(g, j, k, Bits(f, 0, w, r), v)
    PROVE  g[k][1] = g[j][1] + (Octet(v[f], 1) % r) * w /\ g[k][2] = g[j][2]
<1>1. g[k][1] = OctetAfter(g[j][1], Bits(f, 0, w, r), v, 1) /\ g[k][2] = OctetAfter(g[j][2], Bits(f, 0, w, r), v, 2)
  BY DEF Step
<1> QED BY <1>1, AfterBits

LEMMA BitsStep2 ==
    ASSUME NEW g, NEW j, NEW k, NEW f, NEW w \in Nat \ {0}, NEW r, NEW v, Step(g, j, k, Bits(f, 1, w, r), v)
    PROVE  g[k][2] = g[j][2] + (Octet(v[f], 1) % r) * w /\ g[k][1] = g[j][1]
<1>1. g[k][1] = OctetAfter(g[j][1], Bits(f, 1, w, r), v, 1) /\ g[k][2] = OctetAfter(g[j][2], Bits(f, 1, w, r), v, 2)
  BY DEF Step
<1> QED BY <1>1, AfterBits

LEMMA BitsIfStep2 ==
    ASSUME NEW g, NEW j, NEW k, NEW when, Conditional(when), NEW f, NEW w \in Nat \ {0}, NEW r, NEW v,
           Step(g, j, k, BitsIf(when, f, 1, w, r), v)
    PROVE  /\ g[k][2] = IF IsZero(v[when]) THEN g[j][2] ELSE g[j][2] + (Octet(v[f], 1) % r) * w
           /\ g[k][1] = g[j][1]
<1>1. g[k][1] = OctetAfter(g[j][1], BitsIf(when, f, 1, w, r), v, 1)
      /\ g[k][2] = OctetAfter(g[j][2], BitsIf(when, f, 1, w, r), v, 2)
  BY DEF Step
<1> QED BY <1>1, AfterBitsIf

\* No bits are stored from octet 3 on.
High(q) == q.w = 0 \/ Spares(q, 3, 48)
HighWords(p) == \A q \in Puts(p) : High(q)

LEMMA HighWord ==
    ASSUME NEW f, NEW at \in Nat, NEW n \in Nat
    PROVE  High(Word(f, at, n))
<1>1. Word(f, at, n).w = 0
  BY DEF Word, WordIf
<1> QED BY <1>1, Zenon DEF High

LEMMA HighWordIf ==
    ASSUME NEW when, NEW f, NEW at \in Nat, NEW n \in Nat
    PROVE  High(WordIf(when, f, at, n))
<1>1. WordIf(when, f, at, n).w = 0
  BY DEF WordIf
<1> QED BY <1>1, Zenon DEF High

LEMMA HighBits ==
    ASSUME NEW f, NEW at \in 0..1, NEW w \in Nat \ {0}, NEW r PROVE High(Bits(f, at, w, r))
<1>1. Spares(Bits(f, at, w, r), 3, 48)
  BY BitsSpare
<1> QED BY <1>1, Zenon DEF High

LEMMA HighBitsIf ==
    ASSUME NEW when, NEW f, NEW at \in 0..1, NEW w \in Nat \ {0}, NEW r PROVE High(BitsIf(when, f, at, w, r))
<1>1. Spares(BitsIf(when, f, at, w, r), 3, 48)
  BY BitsIfSpare
<1> QED BY <1>1, Zenon DEF High

-----------------------------------------------------------------------------
(***************************************************************************)
(* Which field an octet is of, and how it is loaded                          *)
(***************************************************************************)

(* What a structure has to be like *)
Fits(p, g, x) ==
    /\ x \in Seq(0..255) /\ Len(x) \in 1..g.n
    /\ g.w > 0 => x[1] \in 0..g.r - 1
    /\ g.f = "length" /\ p # "r2t" => Octet(x, 4) = 0
    /\ g.f = "isid" => Len(x) = 6
    /\ Unset(p, g.f) => x = <<0>>

Shaped(p, v) == v["zero"] = <<0>> /\ \A f \in Fields(p) : Fits(p, LoadOf(p, f), v[f])

LEMMA OctetRange ==
    ASSUME NEW s \in Seq(0..255), NEW k \in Nat \ {0}
    PROVE  Octet(s, k) \in 0..255
<1>1. Len(s) \in Nat
  OBVIOUS
<1>2. CASE k <= Len(s)
  <2>1. Len(s) + 1 - k \in 1..Len(s)
    BY <1>1, <1>2
  <2> DEFINE j == Len(s) + 1 - k
  <2> HIDE DEF j
  <2>2. \A i \in 1..Len(s) : s[i] \in 0..255
    BY ElementOfSeq
  <2>3. s[j] \in 0..255
    BY <2>1, <2>2 DEF j
  <2> QED BY <1>2, <2>3 DEF Octet, j
<1>3. CASE ~(k <= Len(s))
  BY <1>3 DEF Octet
<1> QED BY <1>2, <1>3

LEMMA WordFits ==
    ASSUME NEW p, NEW f, NEW at, NEW n \in Nat, NEW x, Fits(p, Word(f, at, n), x)
    PROVE  /\ x \in Seq(0..255) /\ Len(x) \in 1..n
           /\ f = "length" /\ p # "r2t" => Octet(x, 4) = 0
           /\ f = "isid" => Len(x) = 6
           /\ Unset(p, f) => x = <<0>>
<1>1. Word(f, at, n).n = n /\ Word(f, at, n).f = f
  BY Names, TidyKinds
<1> QED BY <1>1 DEF Fits

LEMMA BitsFit ==
    ASSUME NEW p, NEW f, NEW at, NEW w \in Nat \ {0}, NEW r \in Nat \ {0}, NEW x, Fits(p, Bits(f, at, w, r), x)
    PROVE  /\ x = <<x[1]>> /\ x[1] \in 0..r - 1 /\ Octet(x, 1) = x[1]
           /\ Unset(p, f) => x = <<0>>
<1> DEFINE q == Bits(f, at, w, r)
<1>1. q.n = 1 /\ q.f = f
  BY Names, TidyKinds
<1>2. q.r = r
  BY DEF Bits, BitsIf
<1>3. q.w = w
  BY DEF Bits, BitsIf
<1> HIDE DEF q
<1>4. q.w > 0
  BY ONLY <1>3, w \in Nat \ {0}
<1>5. x \in Seq(0..255) /\ Len(x) = 1 /\ x[1] \in 0..r - 1
  BY <1>1, <1>2, <1>4 DEF Fits, q
<1>6. x = <<x[1]>>
  BY <1>5
<1>7. Octet(x, 1) = x[1]
  BY <1>5 DEF Octet
<1>8. Unset(p, f) => x = <<0>>
  BY <1>1 DEF Fits, q
<1> QED BY <1>5, <1>6, <1>7, <1>8

\* The octets lo to hi are those of store q in the end.
Owns(p, q, lo, hi) == Alone(p, q, lo, hi) \/ FinalStore(p, q, lo, hi)

LEMMA OwnedOctet ==
    ASSUME NEW p, NEW v, Tidy(p), NEW q, NEW lo \in 1..48, NEW hi \in 1..48, Owns(p, q, lo, hi),
           NEW i \in lo..hi, NEW x, Sets(q, v, i, x)
    PROVE  Stored(p, v)[i] = x
<1>1. CASE Alone(p, q, lo, hi)
  BY <1>1, AloneOctet
<1>2. CASE FinalStore(p, q, lo, hi)
  BY <1>2, LastOctet
<1> QED BY <1>1, <1>2 DEF Owns

\* The octets lo to hi are those of an n-octet field f at octet "at".
Carries(p, v, f, at, n, lo, hi) == \A i \in lo..hi : Stored(p, v)[i] = Octet(v[f], at + n + 1 - i)

LEMMA OwnedWord ==
    ASSUME NEW p, NEW v, Tidy(p), NEW f, NEW at \in 0..47, NEW n \in 1..16,
           NEW lo \in 1..48, NEW hi \in 1..48, at + 1 <= lo, hi <= at + n,
           Owns(p, Word(f, at, n), lo, hi)
    PROVE  Carries(p, v, f, at, n, lo, hi)
<1> SUFFICES ASSUME NEW i \in lo..hi PROVE Stored(p, v)[i] = Octet(v[f], at + n + 1 - i)
  BY DEF Carries
<1> DEFINE x == Octet(v[f], at + n + 1 - i)
           q == Word(f, at, n)
<1>0. i \in at + 1..at + n
  OBVIOUS
<1>1. Sets(q, v, i, x)
  BY <1>0, AfterWord DEF Sets
<1> HIDE DEF x, q
<1>3. Stored(p, v)[i] = x
  BY <1>1, OwnedOctet DEF q
<1> QED BY <1>3 DEF x

OmittedOr(p, v, when, f, at, n) ==
    \A i \in at + 1..at + n :
       Stored(p, v)[i] = IF IsZero(v[when]) THEN Blank(p)[i] ELSE Octet(v[f], at + n + 1 - i)

LEMMA OwnedWordIf ==
    ASSUME NEW p, NEW v, Tidy(p), NEW when, Conditional(when), NEW f, NEW at \in 0..47, NEW n \in 1..16, at + n <= 48,
           Alone(p, WordIf(when, f, at, n), at + 1, at + n)
    PROVE  OmittedOr(p, v, when, f, at, n)
<1> SUFFICES ASSUME NEW i \in at + 1..at + n
             PROVE  Stored(p, v)[i] = IF IsZero(v[when]) THEN Blank(p)[i] ELSE Octet(v[f], at + n + 1 - i)
  BY DEF OmittedOr
<1> DEFINE q == WordIf(when, f, at, n)
           lo == at + 1
           hi == at + n
<1>0. i \in Nat /\ at \in Nat /\ n \in Nat
  BY ONLY at \in 0..47, n \in 1..16, i \in at + 1..at + n
<1>1. \A y : OctetAfter(y, q, v, i) =
          IF ~IsZero(v[when]) /\ i \in at + 1..at + n THEN Octet(v[f], at + n + 1 - i) ELSE y
  BY ONLY <1>0, Conditional(when), AfterWordIf
<1>2. lo \in 1..48 /\ hi \in 1..48 /\ i \in lo..hi
  BY ONLY at \in 0..47, n \in 1..16, at + n <= 48, i \in at + 1..at + n
<1>3. Alone(p, q, lo, hi)
  BY Zenon
<1>4. CASE IsZero(v[when])
  <2>1. Keeps(q, v, i)
    BY <1>1, <1>4 DEF Keeps
  <2> HIDE DEF q, lo, hi
  <2>2. Stored(p, v)[i] = Blank(p)[i]
    BY ONLY <1>2, <1>3, <2>1, Tidy(p), OmittedStored
  <2> QED BY <1>4, <2>2
<1>5. CASE ~IsZero(v[when])
  <2> DEFINE x == Octet(v[f], at + n + 1 - i)
  <2>1. Sets(q, v, i, x)
    BY <1>1, <1>5 DEF Sets
  <2> HIDE DEF q, lo, hi, x
  <2>2. Stored(p, v)[i] = x
    BY ONLY <1>2, <1>3, <2>1, Tidy(p), AloneOctet
  <2> QED BY <1>5, <2>2 DEF x
<1> QED BY <1>4, <1>5

\* A load of octets
LEMMA LoadWord ==
    ASSUME NEW h, NEW f, NEW at \in 0..47, NEW n \in 1..16, at + n <= 48,
           NEW x \in Seq(0..255), Len(x) \in 1..n,
           \A i \in at + 1..at + n : h[i] = Octet(x, at + n + 1 - i)
    PROVE  /\ SameValue(Get(h, Word(f, at, n)), x)
           /\ Get(h, Word(f, at, n)) = SubSeq(h, at + 1, at + n)
<1> DEFINE q == Word(f, at, n)
           s == SubSeq(h, at + 1, at + n)
<1>1. q.at = at /\ q.n = n
  BY DEF Word, WordIf
<1>2. q.w = 0
  BY DEF Word, WordIf
<1> HIDE DEF q
<1>3. ~(q.w > 0)
  BY ONLY <1>2
<1>4. Get(h, q) = s
  BY <1>1, <1>3, Zenon DEF Get
<1>5. s = [i \in 1..n |-> h[i + at]] /\ Len(s) = n
  OBVIOUS
<1>6. ASSUME NEW k \in 1..8 PROVE Octet(s, k) = Octet(x, k)
  <2>1. CASE k <= n
    <3>1. s[n + 1 - k] = h[at + n + 1 - k]
      BY <1>5, <2>1
    <3>2. h[at + n + 1 - k] = Octet(x, k)
      <4> DEFINE i == at + n + 1 - k
      <4>1. i \in at + 1..at + n /\ at + n + 1 - i = k
        BY <2>1
      <4> QED BY <4>1
    <3> QED BY <1>5, <2>1, <3>1, <3>2 DEF Octet
  <2>2. CASE ~(k <= n)
    BY <1>5, <2>2 DEF Octet
  <2> QED BY <2>1, <2>2
<1> QED BY <1>4, <1>6 DEF SameValue, q

\* A load of bits
LEMMA LoadBits ==
    ASSUME NEW h, NEW f, NEW at, NEW w \in Nat \ {0}, NEW r, NEW x, x = <<x[1]>>,
           (h[at + 1] \div w) % r = x[1]
    PROVE  SameValue(Get(h, Bits(f, at, w, r)), x)
<1> DEFINE q == Bits(f, at, w, r)
<1>1. q.at = at /\ q.r = r
  BY DEF Bits, BitsIf
<1>2. q.w = w
  BY DEF Bits, BitsIf
<1> HIDE DEF q
<1>3. q.w > 0
  BY ONLY <1>2, w \in Nat \ {0}
<1>4. Get(h, q) = <<(h[q.at + 1] \div q.w) % q.r>>
  BY <1>3, Zenon DEF Get
<1>5. Get(h, q) = x
  BY <1>1, <1>2, <1>4
<1> QED BY <1>5 DEF SameValue, q

\* Store q, if it is one of field f, is made when "when" says so, always when that is "".
Under(q, f, when) == q.f = f => q.when = when

\* Store q is made always.
Free(q) == \A f : Under(q, f, "")

LEMMA FreeWord ==
    ASSUME NEW g, NEW at \in Nat, NEW n \in Nat
    PROVE  Free(Word(g, at, n))
<1>1. Word(g, at, n).when = ""
  BY DEF Word, WordIf
<1> QED BY <1>1, Zenon DEF Under, Free

LEMMA FreeBits ==
    ASSUME NEW g, NEW at \in Nat, NEW w \in Nat, NEW r
    PROVE  Free(Bits(g, at, w, r))
<1>1. Bits(g, at, w, r).when = ""
  BY DEF Bits, BitsIf
<1> QED BY <1>1, Zenon DEF Under, Free

LEMMA OtherWord ==
    ASSUME NEW g, NEW at \in Nat, NEW n \in Nat, NEW f, f # g, NEW c
    PROVE  Under(Word(g, at, n), f, c)
<1>1. Word(g, at, n).f = g
  BY DEF Word, WordIf
<1> QED BY <1>1, Zenon DEF Under

LEMMA OtherBits ==
    ASSUME NEW g, NEW at \in Nat, NEW w \in Nat, NEW r, NEW f, f # g, NEW c
    PROVE  Under(Bits(g, at, w, r), f, c)
<1>1. Bits(g, at, w, r).f = g
  BY DEF Bits, BitsIf
<1> QED BY <1>1, Zenon DEF Under

LEMMA OtherWordIf ==
    ASSUME NEW g, NEW when, NEW at \in Nat, NEW n \in Nat, NEW f, f # g, NEW c
    PROVE  Under(WordIf(when, g, at, n), f, c)
<1>1. WordIf(when, g, at, n).f = g
  BY DEF WordIf
<1> QED BY <1>1, Zenon DEF Under

LEMMA OtherBitsIf ==
    ASSUME NEW g, NEW when, NEW at \in Nat, NEW w \in Nat, NEW r, NEW f, f # g, NEW c
    PROVE  Under(BitsIf(when, g, at, w, r), f, c)
<1>1. BitsIf(when, g, at, w, r).f = g
  BY DEF BitsIf
<1> QED BY <1>1, Zenon DEF Under

LEMMA UnderWordIf ==
    ASSUME NEW g, NEW at \in Nat, NEW n \in Nat, NEW f, NEW c
    PROVE  Under(WordIf(c, g, at, n), f, c)
<1>1. WordIf(c, g, at, n).when = c
  BY DEF WordIf
<1> QED BY <1>1, Zenon DEF Under

LEMMA UnderBitsIf ==
    ASSUME NEW g, NEW at \in Nat, NEW w \in Nat, NEW r, NEW f, NEW c
    PROVE  Under(BitsIf(c, g, at, w, r), f, c)
<1>1. BitsIf(c, g, at, w, r).when = c
  BY DEF BitsIf
<1> QED BY <1>1, Zenon DEF Under

\* Field f is stored always; field f is stored when field "when" is not zero.
Always(p, f) == \A q \in Puts(p) : Under(q, f, "")
OnlyWith(p, f, when) == /\ \A q \in Puts(p) : Under(q, f, when)
                        /\ \E q \in Puts(p) : q.f = f

LEMMA SentAlways ==
    ASSUME NEW p, NEW v, NEW f, Always(p, f)
    PROVE  Sent(p, v, f) = v[f]
<1> DEFINE when == {q.when : q \in {r \in ToSet(FormatOf[p].puts) : r.f = f}}
<1>1. when \ {""} = {}
  BY DEF Always, Under, Puts
<1> HIDE DEF when
<1>2. ~ \E w \in when \ {""} : IsZero(v[w])
  BY <1>1
<1> QED BY <1>2, Zenon DEF Sent, when

LEMMA SentIf ==
    ASSUME NEW p, NEW v, NEW f, NEW c, Conditional(c), OnlyWith(p, f, c)
    PROVE  Sent(p, v, f) = IF IsZero(v[c]) THEN <<0>> ELSE v[f]
<1> DEFINE when == {q.when : q \in {r \in ToSet(FormatOf[p].puts) : r.f = f}}
<1>1. when = {c}
  BY DEF OnlyWith, Under, Puts
<1>2. when \ {""} = {c}
  BY <1>1 DEF Conditional
<1> HIDE DEF when
<1>3. (\E w \in when \ {""} : IsZero(v[w])) <=> IsZero(v[c])
  BY <1>2
<1> QED BY <1>3, Zenon DEF Sent, when

LEMMA SameSelf ==
    ASSUME NEW x
    PROVE  SameValue(x, x)
  BY DEF SameValue

\* A header is a function on its 48 octets, and all but the first two are octets
\* because the fields are.
Header == [1..48 -> 0..255]
Carried(p) == Fields(p) \cup {"zero"}
Named(q, p) == q.f \in Carried(p)
PutFields(p) == \A q \in Puts(p) : Named(q, p)

LEMMA NamedWord ==
    ASSUME NEW p, NEW f \in Carried(p), NEW at \in Nat, NEW n \in Nat PROVE Named(Word(f, at, n), p)
  BY Names DEF Named
LEMMA NamedWordIf ==
    ASSUME NEW p, NEW f \in Carried(p), NEW when, NEW at \in Nat, NEW n \in Nat PROVE Named(WordIf(when, f, at, n), p)
  BY Names DEF Named
LEMMA NamedBits ==
    ASSUME NEW p, NEW f \in Carried(p), NEW at \in Nat, NEW w \in Nat, NEW r PROVE Named(Bits(f, at, w, r), p)
  BY Names DEF Named
LEMMA NamedBitsIf ==
    ASSUME NEW p, NEW f \in Carried(p), NEW when, NEW at \in Nat, NEW w \in Nat, NEW r
    PROVE  Named(BitsIf(when, f, at, w, r), p)
  BY Names DEF Named

LEMMA StoredIs ==
    ASSUME NEW p, NEW v, Tidy(p) PROVE Octets48(Stored(p, v))
<1>1. Len(FormatOf[p].puts) \in Nat
  BY DEF Tidy
<1>2. \A n \in Nat : Len(FormatOf[p].puts) = n => \E h : Steps(p, v, n, h)
  BY Stores
<1> DEFINE n == Len(FormatOf[p].puts)
<1>3. PICK h : Steps(p, v, n, h)
  BY <1>1, <1>2
<1>4. Octets48(h[n]) /\ Stored(p, v) = h[n]
  BY <1>3 DEF Steps
<1> QED BY <1>4

InRange(q, v, i) == \A y \in 0..255 : OctetAfter(y, q, v, i) \in 0..255

LEMMA HighOctets ==
    ASSUME NEW p, NEW v, Tidy(p), HighWords(p), PutFields(p), Shaped(p, v), NEW i \in 3..48,
           Blank(p)[i] = 0
    PROVE  Stored(p, v)[i] \in 0..255
<1>0. Len(FormatOf[p].puts) \in Nat
  BY DEF Tidy
<1> SUFFICES ASSUME NEW n \in Nat, n = Len(FormatOf[p].puts)
             PROVE  Stored(p, v)[i] \in 0..255
  BY <1>0
<1>1. DOMAIN FormatOf[p].puts = 1..n
  BY DEF Tidy
<1>2. PICK g : Steps(p, v, n, g)
  BY Stores
<1>3. ASSUME NEW q \in Puts(p) PROVE InRange(q, v, i)
  <2> SUFFICES ASSUME NEW y \in 0..255 PROVE OctetAfter(y, q, v, i) \in 0..255
    BY DEF InRange
  <2>1. CASE Spares(q, 3, 48)
    <3>1. 3 \in 1..48 /\ 48 \in 1..48
      OBVIOUS
    <3>2. Keeps(q, v, i)
      BY <2>1, <3>1, SparedKept
    <3> QED BY <3>2 DEF Keeps
  <2>2. CASE q.w = 0
    <3>1. ~(q.w > 0)
      BY ONLY <2>2
    <3>2. v[q.f] \in Seq(0..255)
      <4> DEFINE f == q.f
      <4>1. f \in Fields(p) \/ f = "zero"
        BY DEF PutFields, Named, Carried
      <4> HIDE DEF f
      <4>2. CASE f \in Fields(p)
        BY <4>2 DEF Shaped, Fits, f
      <4>3. CASE f = "zero"
        <5>1. v[f] = <<0>>
          BY <4>3 DEF Shaped
        <5> QED BY <5>1 DEF f
      <4> QED BY <4>1, <4>2, <4>3
    <3>3. q.at \in Nat /\ q.n \in Nat
      BY DEF Tidy, Placed
    <3>4. i \in q.at + 1..q.at + q.n => Octet(v[q.f], q.at + q.n + 1 - i) \in 0..255
      <4> SUFFICES ASSUME i \in q.at + 1..q.at + q.n PROVE Octet(v[q.f], q.at + q.n + 1 - i) \in 0..255
        OBVIOUS
      <4> DEFINE k == q.at + q.n + 1 - i
                 s == v[q.f]
      <4>1. k \in Nat \ {0}
        BY ONLY <3>3, i \in q.at + 1..q.at + q.n, i \in 3..48
      <4>2. s \in Seq(0..255)
        BY <3>2
      <4> HIDE DEF k, s
      <4>3. Octet(s, k) \in 0..255
        BY ONLY <4>1, <4>2, OctetRange
      <4> QED BY <4>3 DEF k, s
    <3> QED BY <3>1, <3>4, Zenon DEF OctetAfter
  <2> QED BY <2>1, <2>2 DEF HighWords, High
<1> DEFINE S == {k \in Nat : k <= n => g[k][i] \in 0..255}
<1>4. 0 \in S
  <2>1. g[0] = Blank(p)
    BY <1>2 DEF Steps
  <2> QED BY <2>1
<1>8. i \in 1..48
  OBVIOUS
<1>5. ASSUME NEW k \in Nat, k \in S PROVE k + 1 \in S
  <2>1. CASE k + 1 <= n
    <3>1. g[k][i] \in 0..255
      BY <1>5, <2>1
    <3> DEFINE l == k + 1
    <3>2. l \in 1..n /\ l - 1 = k
      BY <2>1
    <3>3. FormatOf[p].puts[l] \in Puts(p)
      BY <1>1, <3>2 DEF Puts, ToSet
    <3>4. g[l][i] = OctetAfter(g[l - 1][i], FormatOf[p].puts[l], v, i)
      BY <1>2, <1>8, <3>2 DEF Steps
    <3> DEFINE q == FormatOf[p].puts[l]
               y == g[k][i]
    <3>5. g[l][i] = OctetAfter(y, q, v, i) /\ y \in 0..255 /\ q \in Puts(p)
      BY <3>1, <3>2, <3>3, <3>4
    <3> HIDE DEF q, y, l
    <3>6. g[l][i] \in 0..255
      <4>1. InRange(q, v, i)
        BY <1>3, <3>5
      <4>2. OctetAfter(y, q, v, i) \in 0..255
        BY <3>5, <4>1, Zenon DEF InRange
      <4> QED BY <3>5, <4>2
    <3> QED BY <3>6 DEF l
  <2>2. CASE ~(k + 1 <= n)
    BY <2>2
  <2> QED BY <2>1, <2>2
<1>6. Nat \subseteq S
  <2> HIDE DEF S
  <2> QED BY <1>4, <1>5, Induction
<1>7. g[n][i] \in 0..255
  <2>1. n \in S
    BY <1>6
  <2>2. n <= n
    OBVIOUS
  <2>3. n <= n => g[n][i] \in 0..255
    BY <2>1
  <2> QED BY <2>2, <2>3
<1> QED BY <1>2, <1>7 DEF Steps

LEMMA HeaderMade ==
    ASSUME NEW p, NEW v, Tidy(p), HighWords(p), PutFields(p), Shaped(p, v),
           Stored(p, v)[1] \in 0..255, Stored(p, v)[2] \in 0..255
    PROVE  Stored(p, v) \in Header
<1> DEFINE h == Stored(p, v)
<1>1. Octets48(h)
  BY StoredIs
<1>2. \A i \in 3..48 : h[i] \in 0..255
  <2>1. \A i \in 3..48 : Blank(p)[i] = 0
    BY DEF Blank
  <2> QED BY <2>1, HighOctets
<1>3. h[1] \in 0..255 /\ h[2] \in 0..255
  OBVIOUS
<1> HIDE DEF h
<1>4. \A i \in 1..48 : i = 1 \/ i = 2 \/ i \in 3..48
  OBVIOUS
<1>5. \A i \in 1..48 : h[i] \in 0..255
  BY ONLY <1>2, <1>3, <1>4
<1>6. h \in Header
  BY <1>1, <1>5 DEF Octets48, Header
<1> QED BY <1>6 DEF h

-----------------------------------------------------------------------------
(***************************************************************************)
(* A load meets the stores of its field                                      *)
(***************************************************************************)

\* The bits of weight w in an octet are x.
Extracts(h, at, w, r, x) == (h[at + 1] \div w) % r = x

\* Field f comes out of the header that v makes as it went in.
Arrives(p, v, f) == SameValue(Get(Stored(p, v), LoadOf(p, f)), Sent(p, v, f))

LEMMA WordIn ==
    ASSUME NEW p, NEW f, NEW at, NEW n \in 1..16, NEW x, Fits(p, Word(f, at, n), x)
    PROVE  x \in Seq(0..255) /\ Len(x) \in 1..n
<1>1. Word(f, at, n).n = n
  BY Names, TidyKinds
<1> QED BY <1>1 DEF Fits

LEMMA ArrivesWord ==
    ASSUME NEW p, NEW v, Shaped(p, v), NEW f \in Fields(p), NEW at \in 0..47, NEW n \in 1..16, at + n <= 48,
           LoadOf(p, f) = Word(f, at, n), Always(p, f),
           \A i \in at + 1..at + n : Stored(p, v)[i] = Octet(v[f], at + n + 1 - i)
    PROVE  Arrives(p, v, f)
<1>1. Fits(p, Word(f, at, n), v[f])
  BY DEF Shaped
<1>2. v[f] \in Seq(0..255) /\ Len(v[f]) \in 1..n
  BY <1>1, WordIn
<1> DEFINE x == v[f]
           h == Stored(p, v)
<1>3. x \in Seq(0..255) /\ Len(x) \in 1..n /\ \A i \in at + 1..at + n : h[i] = Octet(x, at + n + 1 - i)
  BY <1>2
<1> HIDE DEF x, h
<1>4. SameValue(Get(h, Word(f, at, n)), x)
  BY <1>3, LoadWord
<1>5. Sent(p, v, f) = x
  BY SentAlways DEF x
<1> QED BY <1>4, <1>5 DEF Arrives, h

\* A load of the last octets that are stored, and one of all that are
LEMMA ArrivesTail ==
    ASSUME NEW p, NEW v, Tidy(p), Shaped(p, v), NEW f \in Fields(p), NEW at \in 0..47, NEW n \in 1..16, at + n <= 48,
           LoadOf(p, f) = Word(f, at, n), Always(p, f),
           NEW d \in 0..3, d <= at, n + d <= 16, Owns(p, Word(f, at - d, n + d), at + 1, at + n)
    PROVE  Arrives(p, v, f)
<1> DEFINE a == at - d
           m == n + d
           lo == at + 1
           hi == at + n
<1>1. a \in 0..47 /\ m \in 1..16 /\ lo \in 1..48 /\ hi \in 1..48 /\ a + 1 <= lo /\ hi <= a + m /\ a + m = at + n
  OBVIOUS
<1>2. Owns(p, Word(f, a, m), lo, hi)
  OBVIOUS
<1> HIDE DEF a, m, lo, hi
<1>3. Carries(p, v, f, a, m, lo, hi)
  BY ONLY <1>1, <1>2, Tidy(p), OwnedWord
<1>4. \A i \in at + 1..at + n : Stored(p, v)[i] = Octet(v[f], at + n + 1 - i)
  BY <1>1, <1>3 DEF Carries, lo, hi
<1> QED BY <1>4, ArrivesWord

LEMMA ArrivesPlain ==
    ASSUME NEW p, NEW v, Tidy(p), Shaped(p, v), NEW f \in Fields(p), NEW at \in 0..47, NEW n \in 1..16, at + n <= 48,
           LoadOf(p, f) = Word(f, at, n), Always(p, f), Owns(p, Word(f, at, n), at + 1, at + n)
    PROVE  Arrives(p, v, f)
<1>1. 0 \in 0..3 /\ 0 <= at /\ n + 0 <= 16 /\ at - 0 = at /\ n + 0 = n
  OBVIOUS
<1>2. Owns(p, Word(f, at - 0, n + 0), at + 1, at + n)
  BY <1>1
<1> QED BY ONLY <1>1, <1>2, Tidy(p), Shaped(p, v), f \in Fields(p), at \in 0..47, n \in 1..16, at + n <= 48,
        LoadOf(p, f) = Word(f, at, n), Always(p, f), ArrivesTail, Zenon

\* A length, whose first octet is another store's zero
LEMMA ArrivesLength ==
    ASSUME NEW p, NEW v, Tidy(p), Shaped(p, v), NEW f \in Fields(p), LoadOf(p, f) = Word(f, 4, 4), Always(p, f),
           NEW z, v[z] = << 0 >>, Octet(v[f], 4) = 0, Owns(p, Word(z, 4, 1), 5, 5),
           NEW at \in {4, 5}, Owns(p, Word(f, at, 8 - at), 6, 8)
    PROVE  Arrives(p, v, f)
<1>0. 4 \in 0..47 /\ 1 \in 1..16 /\ 5 \in 1..48 /\ 4 + 1 <= 5 /\ 5 <= 4 + 1 /\ 5 \in 5..5
  OBVIOUS
<1>1. Carries(p, v, z, 4, 1, 5, 5)
  BY ONLY <1>0, Tidy(p), Owns(p, Word(z, 4, 1), 5, 5), OwnedWord
<1>2. Stored(p, v)[5] = 0
  BY <1>1 DEF Octet, Carries
<1> DEFINE n == 8 - at
<1>3. at \in 0..47 /\ n \in 1..16 /\ at + 1 <= 6 /\ 8 <= at + n /\ 6 \in 1..48 /\ 8 \in 1..48 /\ at + n = 8
  OBVIOUS
<1>4. Owns(p, Word(f, at, n), 6, 8)
  OBVIOUS
<1> HIDE DEF n
<1>5. Carries(p, v, f, at, n, 6, 8)
  BY ONLY <1>3, <1>4, Tidy(p), OwnedWord
<1>6. ASSUME NEW i \in 5..8 PROVE Stored(p, v)[i] = Octet(v[f], 9 - i)
  <2>1. CASE i = 5
    BY <1>2, <2>1
  <2>2. CASE i \in 6..8
    <3>1. Stored(p, v)[i] = Octet(v[f], at + n + 1 - i) /\ at + n + 1 - i = 9 - i
      BY <1>3, <1>5, <2>2 DEF Carries
    <3> QED BY <3>1
  <2> QED BY <2>1, <2>2
<1>7. \A i \in 4 + 1..4 + 4 : Stored(p, v)[i] = Octet(v[f], 4 + 4 + 1 - i)
  BY <1>6
<1>8. 4 \in 0..47 /\ 4 \in 1..16 /\ 4 + 4 <= 48
  OBVIOUS
<1> QED BY ONLY <1>7, <1>8, Shaped(p, v), f \in Fields(p), LoadOf(p, f) = Word(f, 4, 4), Always(p, f), ArrivesWord, Zenon

\* A field that is left out arrives as zeros.
LEMMA ArrivesIf ==
    ASSUME NEW p, NEW v, Tidy(p), Shaped(p, v), NEW f \in Fields(p), NEW at \in 2..47, NEW n \in 1..16, at + n <= 48,
           NEW when, Conditional(when), LoadOf(p, f) = Word(f, at, n), OnlyWith(p, f, when),
           Alone(p, WordIf(when, f, at, n), at + 1, at + n)
    PROVE  Arrives(p, v, f)
<1>0. at \in 0..47
  OBVIOUS
<1>1. OmittedOr(p, v, when, f, at, n)
  BY <1>0, OwnedWordIf
<1>2. Fits(p, Word(f, at, n), v[f])
  BY DEF Shaped
<1>3. v[f] \in Seq(0..255) /\ Len(v[f]) \in 1..n
  BY <1>2, WordIn
<1> DEFINE x == IF IsZero(v[when]) THEN <<0>> ELSE v[f]
           h == Stored(p, v)
<1>4. x \in Seq(0..255) /\ Len(x) \in 1..n
  <2>1. <<0>> \in Seq(0..255) /\ Len(<<0>>) \in 1..n
    OBVIOUS
  <2> QED BY <1>3, <2>1, Zenon
<1>5. \A i \in at + 1..at + n : h[i] = Octet(x, at + n + 1 - i)
  <2>1. CASE IsZero(v[when])
    <3>1. ASSUME NEW i \in at + 1..at + n PROVE h[i] = Octet(x, at + n + 1 - i)
      <4>1. i \in 1..48 /\ i # 1 /\ i # 2
        OBVIOUS
      <4>2. h[i] = 0
        BY <1>1, <2>1, <4>1 DEF Blank, OmittedOr
      <4>3. x = <<0>> /\ at + n + 1 - i \in Nat \ {0}
        BY <2>1
      <4>4. \A k \in Nat \ {0} : Octet(<<0>>, k) = 0
        BY DEF Octet
      <4> QED BY <4>2, <4>3, <4>4
    <3> QED BY <3>1
  <2>2. CASE ~IsZero(v[when])
    BY <1>1, <2>2 DEF OmittedOr
  <2> QED BY <2>1, <2>2
<1>6. Sent(p, v, f) = x
  BY ONLY Conditional(when), OnlyWith(p, f, when), SentIf, Zenon DEF x
<1> HIDE DEF x, h
<1>7. SameValue(Get(h, Word(f, at, n)), x)
  BY <1>0, <1>4, <1>5, LoadWord
<1> QED BY <1>6, <1>7 DEF Arrives, h

LEMMA ArrivesBits ==
    ASSUME NEW p, NEW v, Shaped(p, v), NEW f \in Fields(p), NEW at, NEW w \in Nat \ {0}, NEW r \in Nat \ {0},
           LoadOf(p, f) = Bits(f, at, w, r), Always(p, f),
           Extracts(Stored(p, v), at, w, r, v[f][1])
    PROVE  Arrives(p, v, f)
<1>1. Fits(p, Bits(f, at, w, r), v[f])
  BY DEF Shaped
<1> DEFINE x == v[f]
           h == Stored(p, v)
<1>2. x = <<x[1]>>
  BY <1>1, BitsFit
<1>3. (h[at + 1] \div w) % r = x[1]
  BY DEF Extracts
<1> HIDE DEF x, h
<1>4. SameValue(Get(h, Bits(f, at, w, r)), x)
  BY <1>2, <1>3, LoadBits
<1>5. Sent(p, v, f) = x
  BY SentAlways DEF x
<1> QED BY <1>4, <1>5 DEF Arrives, h

LEMMA ArrivesBitsIf ==
    ASSUME NEW p, NEW v, Shaped(p, v), NEW f \in Fields(p), NEW at, NEW w \in Nat \ {0}, NEW r \in Nat \ {0},
           NEW when, Conditional(when),
           LoadOf(p, f) = Bits(f, at, w, r), OnlyWith(p, f, when),
           Extracts(Stored(p, v), at, w, r, IF IsZero(v[when]) THEN 0 ELSE v[f][1])
    PROVE  Arrives(p, v, f)
<1>1. Fits(p, Bits(f, at, w, r), v[f])
  BY DEF Shaped
<1> DEFINE x == IF IsZero(v[when]) THEN <<0>> ELSE v[f]
           h == Stored(p, v)
<1>2. v[f] = <<v[f][1]>>
  BY <1>1, BitsFit
<1>3. x = <<x[1]>> /\ (h[at + 1] \div w) % r = x[1]
  BY <1>2 DEF Extracts
<1>4. Sent(p, v, f) = x
  BY ONLY Conditional(when), OnlyWith(p, f, when), SentIf, Zenon DEF x
<1> HIDE DEF x, h
<1>5. SameValue(Get(h, Bits(f, at, w, r)), x)
  BY <1>3, LoadBits
<1> QED BY <1>4, <1>5 DEF Arrives, h

\* The load of field f is the one there is.
Once(p) == \A g1, g2 \in Loads(p) : g1.f = g2.f => g1 = g2

LEMMA LoadIs ==
    ASSUME NEW p, Once(p), NEW g \in Loads(p), NEW f, g.f = f
    PROVE  LoadOf(p, f) = g /\ f \in Fields(p)
<1>1. LoadOf(p, f) \in Loads(p) /\ LoadOf(p, f).f = f
  BY DEF LoadOf
<1> QED BY <1>1 DEF Once, Fields

\* The octets lo to hi are zero.
ZeroAt(h, lo, hi) == \A i \in lo..hi : h[i] = 0

LEMMA SpareZero ==
    ASSUME NEW p, NEW v, Tidy(p), NEW lo \in 3..48, NEW hi \in 3..48, Spared(p, lo, hi)
    PROVE  ZeroAt(Stored(p, v), lo, hi)
<1>1. lo \in 1..48 /\ hi \in 1..48
  OBVIOUS
<1>2. LeftBlank(p, v, lo, hi)
  BY ONLY <1>1, Tidy(p), Spared(p, lo, hi), SparedStored
<1>3. \A i \in lo..hi : i \in 1..48 /\ i # 1 /\ i # 2
  OBVIOUS
<1> QED BY <1>2, <1>3 DEF LeftBlank, Blank, ZeroAt

LEMMA FieldZero ==
    ASSUME NEW p, NEW v, Tidy(p), NEW f, v[f] = << 0 >>, NEW at \in 0..47, NEW n \in 1..16,
           NEW lo \in 1..48, NEW hi \in 1..48, at + 1 <= lo, hi <= at + n, Owns(p, Word(f, at, n), lo, hi)
    PROVE  ZeroAt(Stored(p, v), lo, hi)
<1>1. Carries(p, v, f, at, n, lo, hi)
  BY OwnedWord
<1>2. ASSUME NEW i \in lo..hi PROVE Stored(p, v)[i] = 0
  <2>1. Stored(p, v)[i] = Octet(<<0>>, at + n + 1 - i) /\ at + n + 1 - i \in Nat \ {0}
    BY <1>1 DEF Carries
  <2>2. \A k \in Nat \ {0} : Octet(<<0>>, k) = 0
    BY DEF Octet
  <2> QED BY <2>1, <2>2
<1> QED BY <1>2 DEF ZeroAt

LEMMA TopZero ==
    ASSUME NEW p, NEW v, Tidy(p), NEW f, Octet(v[f], 4) = 0, Owns(p, Word(f, 4, 4), 5, 8)
    PROVE  ZeroAt(Stored(p, v), 5, 5)
<1>1. 4 \in 0..47 /\ 4 \in 1..16 /\ 5 \in 1..48 /\ 8 \in 1..48 /\ 4 + 1 <= 5 /\ 8 <= 4 + 4
  OBVIOUS
<1>2. Carries(p, v, f, 4, 4, 5, 8)
  BY ONLY <1>1, Tidy(p), Owns(p, Word(f, 4, 4), 5, 8), OwnedWord
<1> QED BY <1>2 DEF Carries, ZeroAt

LEMMA LoadName ==
    ASSUME NEW p, NEW f \in Fields(p) PROVE LoadOf(p, f) \in Loads(p) /\ LoadOf(p, f).f = f
<1>1. \E g \in Loads(p) : g.f = f
  BY DEF Fields
<1> QED BY <1>1 DEF LoadOf

LEMMA UnsetZero ==
    ASSUME NEW p, NEW v, Shaped(p, v), NEW f \in Fields(p), Unset(p, f) PROVE v[f] = <<0>>
  BY LoadName DEF Shaped, Fits

LEMMA LengthTop ==
    ASSUME NEW p, NEW v, Shaped(p, v), "length" \in Fields(p), p # "r2t" PROVE Octet(v["length"], 4) = 0
  BY LoadName DEF Shaped, Fits

\* A header that is made of structure v is told apart, let through and understood.
Fine(p, v) ==
    /\ Stored(p, v) \in Header /\ Stored(p, v)[1] % 64 = FormatOf[p].op
    /\ ~Refused(FormatOf[p], Stored(p, v))
    /\ \A f \in Fields(p) : Arrives(p, v, f)

Good(p) == \A v : Shaped(p, v) => Fine(p, v)

\* A load: what is true of all of them
Sound(p, g) ==
    /\ g.n \in 1..16
    /\ g.r > 0 => g.w > 0 /\ g.n = 1 /\ g.r \in 1..256 /\ g.f # "length" /\ g.f # "isid"
    /\ ~(g.r > 0) => ~(g.w > 0)
    /\ g.f = "length" /\ p # "r2t" => g.n \in 3..4
    /\ g.f = "isid" => g.n = 6

LEMMA SoundWord ==
    ASSUME NEW p, NEW f, NEW at \in Nat, NEW n \in 1..16,
           f = "length" /\ p # "r2t" => n \in 3..4, f = "isid" => n = 6
    PROVE  Sound(p, Word(f, at, n))
<1> DEFINE q == Word(f, at, n)
<1>1. q.n = n /\ q.f = f
  BY Names, TidyKinds
<1>2. q.r = 0
  BY DEF Word, WordIf
<1>3. q.w = 0
  BY DEF Word, WordIf
<1> HIDE DEF q
<1>4. ~(q.r > 0)
  BY ONLY <1>2
<1>5. ~(q.w > 0)
  BY ONLY <1>3
<1>6. q.n \in 1..16 /\ (q.f = "length" /\ p # "r2t" => q.n \in 3..4) /\ (q.f = "isid" => q.n = 6)
  BY <1>1
<1> QED BY <1>4, <1>5, <1>6, Zenon DEF Sound, q

LEMMA SoundBits ==
    ASSUME NEW p, NEW f, NEW at \in Nat, NEW w \in Nat \ {0}, NEW r \in 1..256, f # "length", f # "isid"
    PROVE  Sound(p, Bits(f, at, w, r))
<1> DEFINE q == Bits(f, at, w, r)
<1>1. q.n = 1 /\ q.f = f
  BY Names, TidyKinds
<1>2. q.r = r
  BY DEF Bits, BitsIf
<1>3. q.w = w
  BY DEF Bits, BitsIf
<1> HIDE DEF q
<1>4. q.r > 0 /\ q.r \in 1..256
  BY ONLY <1>2, r \in 1..256
<1>5. q.w > 0
  BY ONLY <1>3, w \in Nat \ {0}
<1>6. q.n \in 1..16 /\ q.n = 1
  BY <1>1
<1>7. q.f # "length" /\ q.f # "isid"
  BY <1>1
<1> QED BY <1>4, <1>5, <1>6, <1>7, Zenon DEF Sound, q

SoundLoads(p) == /\ \A g \in Loads(p) : Sound(p, g)
                 /\ Once(p) /\ "zero" \notin Fields(p)

-----------------------------------------------------------------------------
(***************************************************************************)
(* The structures of Init fit the formats                                    *)
(***************************************************************************)

LEMMA LoadSound ==
    ASSUME NEW p, SoundLoads(p), NEW f \in Fields(p)
    PROVE  Sound(p, LoadOf(p, f)) /\ LoadOf(p, f).f = f
<1>1. PICK g \in Loads(p) : g.f = f
  BY DEF Fields
<1>2. LoadOf(p, f) = g
  BY <1>1, LoadIs DEF SoundLoads
<1> QED BY <1>1, <1>2 DEF SoundLoads

LEMMA UnsetNames ==
    ASSUME NEW p, NEW f, Unset(p, f)
    PROVE  f # "isid"
  BY DEF Unset, LeftZero

LEMMA ZeroFits ==
    ASSUME NEW p, NEW g, Sound(p, g), g.f # "isid"
    PROVE  Fits(p, g, <<0>>)
<1>1. <<0>> \in Seq(0..255) /\ Len(<<0>>) = 1 /\ <<0>>[1] = 0 /\ Octet(<<0>>, 4) = 0
  BY DEF Octet
<1>2. 1 \in 1..g.n
  BY DEF Sound
<1>3. g.w > 0 => 0 \in 0..g.r - 1
  <2>1. g.w > 0 => g.r \in 1..256
    BY Zenon DEF Sound
  <2>2. g.r \in 1..256 => 0 \in 0..g.r - 1
    OBVIOUS
  <2> QED BY <2>1, <2>2
<1> QED BY <1>1, <1>2, <1>3, Zenon DEF Fits

LEMMA Remainder ==
    ASSUME NEW b \in Nat, NEW r \in Nat \ {0}
    PROVE  b % r \in 0..r - 1
  OBVIOUS

LEMMA ValueFits ==
    ASSUME NEW p, SoundLoads(p), NEW f \in Fields(p), NEW b \in Bases
    PROVE  Fits(p, LoadOf(p, f), Value(p, f, b))
<1> DEFINE g == LoadOf(p, f)
           x == Value(p, f, b)
<1>1. Sound(p, g) /\ g.f = f
  BY LoadSound
<1>2. b \in 0..239 \/ b = 255
  BY BasesAssumption
<1>3. CASE Unset(p, f)
  <2>1. x = <<0>> /\ g.f # "isid"
    BY <1>1, <1>3, UnsetNames, Zenon DEF Value
  <2> HIDE DEF x, g
  <2>2. Fits(p, g, x)
    BY <1>1, <2>1, ZeroFits
  <2> QED BY <2>2 DEF x, g
<1>4. CASE ~Unset(p, f) /\ g.r > 0
  <2>1. x = <<b % g.r>>
    BY <1>4, Zenon DEF Value
  <2> HIDE DEF x, g
  <2>2. g.r \in 1..256 /\ g.n = 1 /\ f # "length" /\ f # "isid"
    BY <1>1, <1>4, Zenon DEF Sound
  <2>3. b % g.r \in 0..g.r - 1 /\ b % g.r \in 0..255
    <3>1. b \in Nat
      BY ONLY <1>2
    <3> DEFINE r == g.r
               y == b % r
    <3>2. r \in 1..256 /\ r \in Nat \ {0}
      BY <2>2
    <3> HIDE DEF r
    <3>3. y \in 0..r - 1
      BY <3>1, <3>2, Remainder
    <3> HIDE DEF y
    <3>4. y \in 0..255
      BY ONLY <3>2, <3>3
    <3> QED BY <3>3, <3>4 DEF y, r
  <2>4. x \in Seq(0..255) /\ Len(x) \in 1..g.n /\ x[1] \in 0..g.r - 1
    BY <2>1, <2>2, <2>3
  <2>5. Fits(p, g, x)
    BY <1>1, <1>4, <2>2, <2>4, Zenon DEF Fits
  <2> QED BY <2>5 DEF x, g
<1>5. CASE ~Unset(p, f) /\ ~(g.r > 0) /\ f = "isid"
  <2>1. x = <<0, 0, 0, 0, 0, b>>
    BY <1>5, Zenon DEF Value
  <2> HIDE DEF x, g
  <2>2. g.n = 6 /\ ~(g.w > 0) /\ f # "length"
    BY <1>1, <1>5 DEF Sound
  <2>3. x \in Seq(0..255) /\ Len(x) = 6 /\ 6 \in 1..g.n
    BY <2>1, <2>2, <1>2
  <2>4. Fits(p, g, x)
    BY <1>1, <1>5, <2>2, <2>3, Zenon DEF Fits
  <2> QED BY <2>4 DEF x, g
<1>6. CASE ~Unset(p, f) /\ ~(g.r > 0) /\ f # "isid"
  <2> DEFINE zeros == IF f = "length" /\ p # "r2t" /\ g.n = 4 THEN 1 ELSE 0
             n == g.n
  <2>1. x = [i \in 1..n |-> IF i <= zeros THEN 0 ELSE IF b \in {0, 255} THEN b ELSE b + i]
    BY <1>6, Zenon DEF Value
  <2>2. ~(g.w > 0) /\ n \in 1..16 /\ (f = "length" /\ p # "r2t" => n \in 3..4)
    BY <1>1, <1>6, Zenon DEF Sound
  <2>3. zeros \in 0..1 /\ (f = "length" /\ p # "r2t" /\ n = 4 => zeros = 1)
    OBVIOUS
  <2> HIDE DEF x, g, zeros, n
  <2>4. \A i \in 1..n : x[i] \in 0..255
    <3> SUFFICES ASSUME NEW i \in 1..n PROVE x[i] \in 0..255
      OBVIOUS
    <3>1. i \in 1..16
      BY <2>2
    <3>2. b + i \in 0..255 \/ b = 255
      BY ONLY <1>2, <3>1
    <3>3. b \in 0..255
      BY ONLY <1>2
    <3>4. x[i] = IF i <= zeros THEN 0 ELSE IF b \in {0, 255} THEN b ELSE b + i
      BY <2>1
    <3> QED BY ONLY <3>2, <3>3, <3>4
  <2>5. x \in [1..n -> 0..255]
    BY <2>1, <2>4
  <2>6. x \in Seq(0..255) /\ Len(x) = n
    BY <2>2, <2>5
  <2>7. f = "length" /\ p # "r2t" => Octet(x, 4) = 0
    <3> SUFFICES ASSUME f = "length" /\ p # "r2t" PROVE Octet(x, 4) = 0
      OBVIOUS
    <3>1. CASE n = 4
      <4>1. x[1] = 0
        BY <2>1, <2>3, <3>1
      <4> QED BY <4>1, <2>6, <3>1 DEF Octet
    <3>2. CASE n = 3
      BY <2>6, <3>2 DEF Octet
    <3> QED BY <2>2, <3>1, <3>2
  <2>8. Len(x) \in 1..g.n
    BY <2>2, <2>6 DEF n
  <2>9. Fits(p, g, x)
    BY <1>1, <1>6, <2>2, <2>6, <2>7, <2>8, Zenon DEF Fits
  <2> QED BY <2>9 DEF x, g
<1> QED BY <1>3, <1>4, <1>5, <1>6

\* A structure has the fields of its PDU and the zero.
Struct(p, v) == v = [f \in Fields(p) \cup {"zero"} |-> v[f]]

LEMMA StructuresShaped ==
    ASSUME NEW p, SoundLoads(p), NEW v \in Structures(p)
    PROVE  Struct(p, v) /\ Shaped(p, v)
<1>1. PICK a \in Bases, b \in Bases, centre \in Fields(p) :
        v = [f \in Fields(p) \cup {"zero"} |->
               IF f = "zero" THEN <<0>> ELSE Value(p, f, IF f = centre THEN b ELSE a)]
  BY DEF Structures
<1>2. Struct(p, v) /\ v["zero"] = <<0>>
  BY <1>1 DEF Struct
<1>3. ASSUME NEW f \in Fields(p) PROVE Fits(p, LoadOf(p, f), v[f])
  <2>1. f # "zero"
    BY DEF SoundLoads
  <2> DEFINE c == IF f = centre THEN b ELSE a
  <2>2. v[f] = Value(p, f, c) /\ c \in Bases
    BY <1>1, <2>1
  <2> HIDE DEF c
  <2> QED BY <2>2, ValueFits
<1> QED BY <1>2, <1>3 DEF Shaped

LEMMA PlusOctets ==
    ASSUME NEW x \in Seq(0..255)
    PROVE  /\ Plus1(x) \in Seq(0..255) /\ Len(Plus1(x)) = Len(x)
           /\ Minus1(x) \in Seq(0..255) /\ Len(Minus1(x)) = Len(x)
<1> DEFINE n == Len(x)
<1>1. n \in Nat /\ DOMAIN x = 1..n /\ \A i \in 1..n : x[i] \in 0..255
  BY ElementOfSeq
<1>2. \A y \in 0..255 : (y + 1) % 256 \in 0..255 /\ (y - 1) % 256 \in 0..255
  OBVIOUS
<1>4. Plus1(x) = [i \in 1..n |-> IF \A j \in i+1..n : x[j] = 255 THEN (x[i] + 1) % 256 ELSE x[i]]
  BY <1>1 DEF Plus1
<1>5. Minus1(x) = [i \in 1..n |-> IF \A j \in i+1..n : x[j] = 0 THEN (x[i] - 1) % 256 ELSE x[i]]
  BY <1>1 DEF Minus1
<1> HIDE DEF n
<1>7. \A i \in 1..n : x[i] \in 0..255
  BY <1>1
<1>6. Plus1(x) \in [1..n -> 0..255] /\ Minus1(x) \in [1..n -> 0..255]
  <2>1. \A i \in 1..n : Plus1(x)[i] \in {x[i], (x[i] + 1) % 256} /\ Minus1(x)[i] \in {x[i], (x[i] - 1) % 256}
    BY <1>4, <1>5
  <2>2. \A i \in 1..n : Plus1(x)[i] \in 0..255 /\ Minus1(x)[i] \in 0..255
    <3> SUFFICES ASSUME NEW i \in 1..n PROVE Plus1(x)[i] \in 0..255 /\ Minus1(x)[i] \in 0..255
      OBVIOUS
    <3> DEFINE y == x[i]
    <3>1. y \in 0..255
      BY <1>7
    <3>2. Plus1(x)[i] \in {y, (y + 1) % 256} /\ Minus1(x)[i] \in {y, (y - 1) % 256}
      BY <2>1
    <3> HIDE DEF y
    <3> QED BY ONLY <1>2, <3>1, <3>2
  <2>3. Plus1(x) = [i \in 1..n |-> Plus1(x)[i]] /\ Minus1(x) = [i \in 1..n |-> Minus1(x)[i]]
    BY <1>4, <1>5
  <2> QED BY <2>2, <2>3
<1>3. \A y : y \in [1..n -> 0..255] => y \in Seq(0..255) /\ Len(y) = n
  BY <1>1
<1> QED BY <1>6, <1>3 DEF n

LEMMA PreparedShaped ==
    ASSUME NEW p, SoundLoads(p), NEW v, Struct(p, v), Shaped(p, v), p = "login_cmd" => "isid" \in Fields(p)
    PROVE  Shaped(p, Prepared(p, v))
<1>1. CASE p # "login_cmd"
  BY <1>1 DEF Prepared
<1>2. CASE p = "login_cmd"
  <2> DEFINE w == Prepared(p, v)
             x == v["isid"]
             g == LoadOf(p, "isid")
  <2>1. w = [v EXCEPT !["isid"] = Plus1(x)]
    BY <1>2 DEF Prepared
  <2>2. "isid" \in Fields(p) /\ "zero" # "isid"
    BY <1>2
  <2>3. w["isid"] = Plus1(x) /\ \A f \in (Fields(p) \cup {"zero"}) \ {"isid"} : w[f] = v[f]
    BY <2>1, <2>2 DEF Struct
  <2> HIDE DEF w
  <2>4. Fits(p, g, x) /\ g.f = "isid" /\ Sound(p, g)
    BY <2>2, LoadSound DEF Shaped
  <2> HIDE DEF x, g
  <2>5. x \in Seq(0..255) /\ Len(x) = 6 /\ ~(g.w > 0) /\ Len(x) \in 1..g.n /\ ~Unset(p, "isid")
    <3>1. ~(g.r > 0)
      BY <2>4, Zenon DEF Sound
    <3> QED BY <2>4, <3>1, UnsetNames, Zenon DEF Fits, Sound
  <2>6. Plus1(x) \in Seq(0..255) /\ Len(Plus1(x)) = 6
    BY <2>5, PlusOctets
  <2>7. "isid" # "length"
    OBVIOUS
  <2>8. Fits(p, g, Plus1(x))
    BY <2>4, <2>5, <2>6, <2>7, Zenon DEF Fits
  <2>9. w["zero"] = <<0>>
    BY <2>2, <2>3 DEF Shaped
  <2>10. ASSUME NEW f \in Fields(p) PROVE Fits(p, LoadOf(p, f), w[f])
    <3>1. CASE f = "isid"
      BY <3>1, <2>3, <2>8 DEF g
    <3>2. CASE f # "isid"
      BY <3>2, <2>3 DEF Shaped
    <3> QED BY <3>1, <3>2
  <2> QED BY <2>9, <2>10 DEF Shaped, w
<1> QED BY <1>1, <1>2

-----------------------------------------------------------------------------
(***************************************************************************)
(* The fourteen PDUs                                                         *)
(***************************************************************************)

-----------------------------------------------------------------------------
(* nop_out *)

LEMMA nop_outFormat ==
    /\ FormatOf["nop_out"].op = 0 /\ FormatOf["nop_out"].one = 128
    /\ FormatOf["nop_out"].zero = {2, 3, 4, 8} \cup 32..47
    /\ FormatOf["nop_out"].zbits = {<<1, 1, 128>>}
    /\ FormatOf["nop_out"].puts = <<
         Flag("immediate", 0, 64), Word("zero", 4, 1), Word("length", 5, 3), Word("lun", 9, 1),
         Word("tag", 16, 4), Word("transfer_tag", 20, 4), Word("CmdSN", 24, 4),
         Word("ExpStatSN", 28, 4)>>
  BY DEF FormatOf, nop_out, Format, Length24, Length32, Lun, Tags, Tag, CmdSNs, Low7

LEMMA nop_outSet ==
    Puts("nop_out") = {
         Flag("immediate", 0, 64), Word("zero", 4, 1), Word("length", 5, 3), Word("lun", 9, 1),
         Word("tag", 16, 4), Word("transfer_tag", 20, 4), Word("CmdSN", 24, 4),
         Word("ExpStatSN", 28, 4)}
  BY nop_outFormat DEF Puts, ToSet

LEMMA nop_outTidy == Tidy("nop_out") /\ Len(FormatOf["nop_out"].puts) = 8
<1>1. Len(FormatOf["nop_out"].puts) = 8
  BY nop_outFormat
<1>2. FormatOf["nop_out"].puts \in Seq(Puts("nop_out"))
  BY <1>1, nop_outSet, nop_outFormat
<1>3. \A q \in Puts("nop_out") : Placed(q)
  BY nop_outSet, PlacedKinds DEF Flag
<1> QED BY <1>1, <1>2, <1>3, Zenon DEF Tidy

LEMMA nop_outLoads ==
    Loads("nop_out") = {
         Flag("immediate", 0, 64), Word("length", 4, 4), Word("lun", 9, 1), Word("tag", 16, 4),
         Word("transfer_tag", 20, 4), Word("CmdSN", 24, 4), Word("ExpStatSN", 28, 4)}
  BY DEF Loads, ToSet, FormatOf, nop_out, Format, Length24, Length32, Lun, Tags, Tag, CmdSNs, Low7

LEMMA nop_outFields ==
    Fields("nop_out") = {
         "immediate", "length", "lun", "tag", "transfer_tag", "CmdSN", "ExpStatSN"}
  BY nop_outLoads, Names DEF Fields

LEMMA nop_outSound == SoundLoads("nop_out")
<1>1. Once("nop_out")
  BY nop_outLoads, Names DEF Once
<1>2. \A g \in Loads("nop_out") : Sound("nop_out", g)
  BY nop_outLoads, SoundWord, SoundBits DEF Flag
<1> QED BY <1>1, <1>2, nop_outFields DEF SoundLoads

LEMMA nop_outLoadOf ==
    /\ LoadOf("nop_out", "immediate") = Bits("immediate", 0, 64, 2)
    /\ LoadOf("nop_out", "length") = Word("length", 4, 4)
    /\ LoadOf("nop_out", "lun") = Word("lun", 9, 1)
    /\ LoadOf("nop_out", "tag") = Word("tag", 16, 4)
    /\ LoadOf("nop_out", "transfer_tag") = Word("transfer_tag", 20, 4)
    /\ LoadOf("nop_out", "CmdSN") = Word("CmdSN", 24, 4)
    /\ LoadOf("nop_out", "ExpStatSN") = Word("ExpStatSN", 28, 4)
  BY nop_outSound, nop_outLoads, Names, LoadIs DEF SoundLoads, Flag

LEMMA nop_outAlways ==
    ASSUME NEW f
    PROVE  Always("nop_out", f)
<1>1. \A q \in Puts("nop_out") : Free(q)
  BY nop_outSet, FreeWord, FreeBits DEF Flag
<1> QED BY <1>1, Zenon DEF Always, Free

LEMMA nop_outOwns ==
    /\ Owns("nop_out", Word("zero", 4, 1), 5, 5)
    /\ Owns("nop_out", Word("length", 5, 3), 6, 8)
    /\ Owns("nop_out", Word("lun", 9, 1), 10, 10)
    /\ Owns("nop_out", Word("tag", 16, 4), 17, 20)
    /\ Owns("nop_out", Word("transfer_tag", 20, 4), 21, 24)
    /\ Owns("nop_out", Word("CmdSN", 24, 4), 25, 28)
    /\ Owns("nop_out", Word("ExpStatSN", 28, 4), 29, 32)
    /\ Spared("nop_out", 3, 4)
    /\ Spared("nop_out", 9, 9)
    /\ Spared("nop_out", 11, 16)
    /\ Spared("nop_out", 33, 48)
<1>1. Owns("nop_out", Word("zero", 4, 1), 5, 5)
  BY nop_outSet, WordSpares, BitsSpare DEF Owns, Alone, Flag
<1>2. Owns("nop_out", Word("length", 5, 3), 6, 8)
  BY nop_outSet, WordSpares, BitsSpare DEF Owns, Alone, Flag
<1>3. Owns("nop_out", Word("lun", 9, 1), 10, 10)
  BY nop_outSet, WordSpares, BitsSpare DEF Owns, Alone, Flag
<1>4. Owns("nop_out", Word("tag", 16, 4), 17, 20)
  BY nop_outSet, WordSpares, BitsSpare DEF Owns, Alone, Flag
<1>5. Owns("nop_out", Word("transfer_tag", 20, 4), 21, 24)
  BY nop_outSet, WordSpares, BitsSpare DEF Owns, Alone, Flag
<1>6. Owns("nop_out", Word("CmdSN", 24, 4), 25, 28)
  BY nop_outSet, WordSpares, BitsSpare DEF Owns, Alone, Flag
<1>7. Owns("nop_out", Word("ExpStatSN", 28, 4), 29, 32)
  BY nop_outSet, WordSpares, BitsSpare DEF Owns, Alone, Flag
<1>8. Spared("nop_out", 3, 4)
  BY nop_outSet, WordSpares, BitsSpare DEF Spared, Flag
<1>9. Spared("nop_out", 9, 9)
  BY nop_outSet, WordSpares, BitsSpare DEF Spared, Flag
<1>10. Spared("nop_out", 11, 16)
  BY nop_outSet, WordSpares, BitsSpare DEF Spared, Flag
<1>11. Spared("nop_out", 33, 48)
  BY nop_outSet, WordSpares, BitsSpare DEF Spared, Flag
<1> QED BY <1>1, <1>2, <1>3, <1>4, <1>5, <1>6, <1>7, <1>8, <1>9, <1>10, <1>11

LEMMA nop_outFirst ==
    ASSUME NEW v
    PROVE  /\ Stored("nop_out", v)[1] = 0 + (Octet(v["immediate"], 1) % 2) * 64
           /\ Stored("nop_out", v)[2] =
                128
<1>1. \A j \in {2, 3, 4, 5, 6, 7, 8} : Spares(FormatOf["nop_out"].puts[j], 1, 2)
  BY nop_outFormat, WordSpares, WordIfSpares
<1>2. BitsFirst("nop_out", 1)
  <2>1. 1 + 1..8 = {2, 3, 4, 5, 6, 7, 8}
    OBVIOUS
  <2> QED BY <1>1, <2>1, nop_outTidy DEF BitsFirst
<1>3. PICK g : /\ g[0] = Blank("nop_out")
                /\ \A k \in 1..1 : Step(g, k - 1, k, FormatOf["nop_out"].puts[k], v)
                /\ Stored("nop_out", v)[1] = g[1][1] /\ Stored("nop_out", v)[2] = g[1][2]
  BY <1>2, nop_outTidy, FirstStores
<1>4. Step(g, 0, 1, Bits("immediate", 0, 64, 2), v)
  <2>1. Step(g, 1 - 1, 1, FormatOf["nop_out"].puts[1], v)
    BY <1>3
  <2> QED BY <2>1, nop_outFormat DEF Flag
<1>5. g[0][1] = 0 /\ g[0][2] = 128
  BY <1>3, nop_outFormat DEF Blank
<1>6. g[1][1] = g[0][1] + (Octet(v["immediate"], 1) % 2) * 64 /\ g[1][2] = g[0][2]
  BY <1>4, BitsStep1, BitsStep2
<1> QED BY <1>3, <1>5, <1>6

LEMMA nop_outGood == Good("nop_out")
<1> SUFFICES ASSUME NEW v, Shaped("nop_out", v) PROVE Fine("nop_out", v)
  BY DEF Good
<1>1. v["zero"] = <<0>>
  BY DEF Shaped
<1>2. /\ v["immediate"] = <<v["immediate"][1]>> /\ v["immediate"][1] \in 0..1
      /\ Octet(v["immediate"], 1) = v["immediate"][1]
  <2>1. Fits("nop_out", Bits("immediate", 0, 64, 2), v["immediate"])
    BY nop_outLoadOf, nop_outFields DEF Shaped
  <2> QED BY <2>1, BitsFit
<1>3. Octet(v["length"], 4) = 0
  <2>1. "length" \in Fields("nop_out") /\ "nop_out" # "r2t"
    BY nop_outFields
  <2> QED BY ONLY <2>1, Shaped("nop_out", v), LengthTop
<1>4. /\ Stored("nop_out", v)[1] \in 0..255
      /\ Stored("nop_out", v)[1] % 64 = 0
      /\ Stored("nop_out", v)[2] \in 0..255
      /\ Extracts(Stored("nop_out", v), 1, 1, 128, 0)
      /\ Extracts(Stored("nop_out", v), 0, 64, 2, v["immediate"][1])
  <2>1. Stored("nop_out", v)[1] =
          0 + v["immediate"][1] * 64
    BY <1>2, nop_outFirst
  <2>2. Stored("nop_out", v)[2] =
          128
    BY <1>2, nop_outFirst
  <2>3. Stored("nop_out", v)[1] \in 0..255
    BY <2>1, <2>2, <1>2
  <2>4. Stored("nop_out", v)[1] % 64 = 0
    BY <2>1, <2>2, <1>2
  <2>5. Stored("nop_out", v)[2] \in 0..255
    BY <2>1, <2>2, <1>2
  <2>6. Extracts(Stored("nop_out", v), 1, 1, 128, 0)
    BY <2>1, <2>2, <1>2 DEF Extracts
  <2>7. Extracts(Stored("nop_out", v), 0, 64, 2, v["immediate"][1])
    BY <2>1, <2>2, <1>2 DEF Extracts
  <2> QED BY <2>3, <2>4, <2>5, <2>6, <2>7
<1>5. Stored("nop_out", v) \in Header
  <2>1. HighWords("nop_out")
    BY nop_outSet, HighWord, HighBits DEF HighWords, Flag
  <2>2. PutFields("nop_out")
    <3>1. {"zero", "immediate", "length", "lun", "tag", "transfer_tag", "CmdSN", "ExpStatSN"}
          \subseteq Carried("nop_out")
      BY nop_outFields DEF Carried
    <3>2. \A q \in Puts("nop_out") : Named(q, "nop_out")
      BY <3>1, nop_outSet, NamedWord, NamedBits DEF Flag
    <3> QED BY <3>2 DEF PutFields
  <2> QED BY <2>1, <2>2, <1>4, nop_outTidy, HeaderMade
<1>6. ZeroAt(Stored("nop_out", v), 3, 4)
  <2>1. Spared("nop_out", 3, 4)
    BY nop_outOwns
  <2> QED BY ONLY <2>1, nop_outTidy, 3 \in 3..48, 4 \in 3..48, SpareZero
<1>7. ZeroAt(Stored("nop_out", v), 9, 9)
  <2>1. Spared("nop_out", 9, 9)
    BY nop_outOwns
  <2> QED BY ONLY <2>1, nop_outTidy, 9 \in 3..48, 9 \in 3..48, SpareZero
<1>8. ZeroAt(Stored("nop_out", v), 33, 48)
  <2>1. Spared("nop_out", 33, 48)
    BY nop_outOwns
  <2> QED BY ONLY <2>1, nop_outTidy, 33 \in 3..48, 48 \in 3..48, SpareZero
<1>9. ZeroAt(Stored("nop_out", v), 5, 5)
  <2>1. Owns("nop_out", Word("zero", 4, 1), 5, 5)
    BY nop_outOwns
  <2>2. 4 \in 0..47 /\ 1 \in 1..16 /\ 5 \in 1..48 /\ 5 \in 1..48 /\ 4 + 1 <= 5 /\ 5 <= 4 + 1
    OBVIOUS
  <2> QED BY ONLY <2>1, <2>2, <1>1, nop_outTidy, FieldZero
<1>10. ~Refused(FormatOf["nop_out"], Stored("nop_out", v))
  <2>1. ASSUME NEW k \in FormatOf["nop_out"].zero PROVE Stored("nop_out", v)[k + 1] = 0
    <3> DEFINE i == k + 1
    <3>1. i \in 3..4 \/ i \in 5..5 \/ i \in 9..9 \/ i \in 33..48
      BY nop_outFormat
    <3> HIDE DEF i
    <3>2. Stored("nop_out", v)[i] = 0
      BY <3>1, <1>6, <1>7, <1>8, <1>9 DEF ZeroAt
    <3> QED BY <3>2 DEF i
  <2>2. \A b \in FormatOf["nop_out"].zbits : (Stored("nop_out", v)[b[1] + 1] \div b[2]) % b[3] = 0
    BY <1>4, nop_outFormat DEF Extracts
  <2> QED BY <2>1, <2>2, Zenon DEF Refused
<1>11. Arrives("nop_out", v, "immediate")
  BY <1>4, nop_outLoadOf, nop_outFields, nop_outAlways, ArrivesBits
<1>12. /\ Arrives("nop_out", v, "lun")
      /\ Arrives("nop_out", v, "tag")
      /\ Arrives("nop_out", v, "transfer_tag")
      /\ Arrives("nop_out", v, "CmdSN")
      /\ Arrives("nop_out", v, "ExpStatSN")
  BY nop_outLoadOf, nop_outFields, nop_outAlways, nop_outOwns, nop_outTidy, ArrivesPlain
<1>13. Arrives("nop_out", v, "length")
  <2>1. /\ LoadOf("nop_out", "length") = Word("length", 4, 4) /\ "length" \in Fields("nop_out")
        /\ Always("nop_out", "length")
    BY nop_outLoadOf, nop_outFields, nop_outAlways
  <2>2. v["zero"] = <<0>> /\ Octet(v["length"], 4) = 0 /\ 5 \in {4, 5}
    BY <1>1, <1>3
  <2>3. Owns("nop_out", Word("zero", 4, 1), 5, 5) /\ Owns("nop_out", Word("length", 5, 8 - 5), 6, 8)
    BY nop_outOwns
  <2> QED BY ONLY <2>1, <2>2, <2>3, Shaped("nop_out", v), nop_outTidy, ArrivesLength
<1> QED BY <1>4, <1>5, <1>10, <1>11, <1>12, <1>13, nop_outFields, nop_outFormat DEF Fine

-----------------------------------------------------------------------------
(* text_cmd *)

LEMMA text_cmdFormat ==
    /\ FormatOf["text_cmd"].op = 4 /\ FormatOf["text_cmd"].one = 0
    /\ FormatOf["text_cmd"].zero = {2, 3, 4} \cup 8..15 \cup 32..47
    /\ FormatOf["text_cmd"].zbits = {}
    /\ FormatOf["text_cmd"].puts = <<
         Flag("immediate", 0, 64), Flag("final", 1, 128), Flag("cont", 1, 64),
         Word("zero", 4, 1), Word("length", 5, 3), Word("lun", 9, 1), Word("tag", 16, 4),
         Word("transfer_tag", 20, 4), Word("CmdSN", 24, 4), Word("ExpStatSN", 28, 4)>>
  BY DEF FormatOf, text_cmd, Format, Length24, Length32, Lun, Tags, Tag, CmdSNs

LEMMA text_cmdSet ==
    Puts("text_cmd") = {
         Flag("immediate", 0, 64), Flag("final", 1, 128), Flag("cont", 1, 64),
         Word("zero", 4, 1), Word("length", 5, 3), Word("lun", 9, 1), Word("tag", 16, 4),
         Word("transfer_tag", 20, 4), Word("CmdSN", 24, 4), Word("ExpStatSN", 28, 4)}
  BY text_cmdFormat DEF Puts, ToSet

LEMMA text_cmdTidy == Tidy("text_cmd") /\ Len(FormatOf["text_cmd"].puts) = 10
<1>1. Len(FormatOf["text_cmd"].puts) = 10
  BY text_cmdFormat
<1>2. FormatOf["text_cmd"].puts \in Seq(Puts("text_cmd"))
  BY <1>1, text_cmdSet, text_cmdFormat
<1>3. \A q \in Puts("text_cmd") : Placed(q)
  BY text_cmdSet, PlacedKinds DEF Flag
<1> QED BY <1>1, <1>2, <1>3, Zenon DEF Tidy

LEMMA text_cmdLoads ==
    Loads("text_cmd") = {
         Flag("immediate", 0, 64), Flag("final", 1, 128), Flag("cont", 1, 64),
         Word("length", 4, 4), Word("lun", 9, 1), Word("tag", 16, 4),
         Word("transfer_tag", 20, 4), Word("CmdSN", 24, 4), Word("ExpStatSN", 28, 4)}
  BY DEF Loads, ToSet, FormatOf, text_cmd, Format, Length24, Length32, Lun, Tags, Tag, CmdSNs

LEMMA text_cmdFields ==
    Fields("text_cmd") = {
         "immediate", "final", "cont", "length", "lun", "tag", "transfer_tag", "CmdSN",
         "ExpStatSN"}
  BY text_cmdLoads, Names DEF Fields

LEMMA text_cmdSound == SoundLoads("text_cmd")
<1>1. Once("text_cmd")
  BY text_cmdLoads, Names DEF Once
<1>2. \A g \in Loads("text_cmd") : Sound("text_cmd", g)
  BY text_cmdLoads, SoundWord, SoundBits DEF Flag
<1> QED BY <1>1, <1>2, text_cmdFields DEF SoundLoads

LEMMA text_cmdLoadOf ==
    /\ LoadOf("text_cmd", "immediate") = Bits("immediate", 0, 64, 2)
    /\ LoadOf("text_cmd", "final") = Bits("final", 1, 128, 2)
    /\ LoadOf("text_cmd", "cont") = Bits("cont", 1, 64, 2)
    /\ LoadOf("text_cmd", "length") = Word("length", 4, 4)
    /\ LoadOf("text_cmd", "lun") = Word("lun", 9, 1)
    /\ LoadOf("text_cmd", "tag") = Word("tag", 16, 4)
    /\ LoadOf("text_cmd", "transfer_tag") = Word("transfer_tag", 20, 4)
    /\ LoadOf("text_cmd", "CmdSN") = Word("CmdSN", 24, 4)
    /\ LoadOf("text_cmd", "ExpStatSN") = Word("ExpStatSN", 28, 4)
  BY text_cmdSound, text_cmdLoads, Names, LoadIs DEF SoundLoads, Flag

LEMMA text_cmdAlways ==
    ASSUME NEW f
    PROVE  Always("text_cmd", f)
<1>1. \A q \in Puts("text_cmd") : Free(q)
  BY text_cmdSet, FreeWord, FreeBits DEF Flag
<1> QED BY <1>1, Zenon DEF Always, Free

LEMMA text_cmdOwns ==
    /\ Owns("text_cmd", Word("zero", 4, 1), 5, 5)
    /\ Owns("text_cmd", Word("length", 5, 3), 6, 8)
    /\ Owns("text_cmd", Word("lun", 9, 1), 10, 10)
    /\ Owns("text_cmd", Word("tag", 16, 4), 17, 20)
    /\ Owns("text_cmd", Word("transfer_tag", 20, 4), 21, 24)
    /\ Owns("text_cmd", Word("CmdSN", 24, 4), 25, 28)
    /\ Owns("text_cmd", Word("ExpStatSN", 28, 4), 29, 32)
    /\ Spared("text_cmd", 3, 4)
    /\ Spared("text_cmd", 9, 9)
    /\ Spared("text_cmd", 11, 16)
    /\ Spared("text_cmd", 33, 48)
<1>1. Owns("text_cmd", Word("zero", 4, 1), 5, 5)
  BY text_cmdSet, WordSpares, BitsSpare DEF Owns, Alone, Flag
<1>2. Owns("text_cmd", Word("length", 5, 3), 6, 8)
  BY text_cmdSet, WordSpares, BitsSpare DEF Owns, Alone, Flag
<1>3. Owns("text_cmd", Word("lun", 9, 1), 10, 10)
  BY text_cmdSet, WordSpares, BitsSpare DEF Owns, Alone, Flag
<1>4. Owns("text_cmd", Word("tag", 16, 4), 17, 20)
  BY text_cmdSet, WordSpares, BitsSpare DEF Owns, Alone, Flag
<1>5. Owns("text_cmd", Word("transfer_tag", 20, 4), 21, 24)
  BY text_cmdSet, WordSpares, BitsSpare DEF Owns, Alone, Flag
<1>6. Owns("text_cmd", Word("CmdSN", 24, 4), 25, 28)
  BY text_cmdSet, WordSpares, BitsSpare DEF Owns, Alone, Flag
<1>7. Owns("text_cmd", Word("ExpStatSN", 28, 4), 29, 32)
  BY text_cmdSet, WordSpares, BitsSpare DEF Owns, Alone, Flag
<1>8. Spared("text_cmd", 3, 4)
  BY text_cmdSet, WordSpares, BitsSpare DEF Spared, Flag
<1>9. Spared("text_cmd", 9, 9)
  BY text_cmdSet, WordSpares, BitsSpare DEF Spared, Flag
<1>10. Spared("text_cmd", 11, 16)
  BY text_cmdSet, WordSpares, BitsSpare DEF Spared, Flag
<1>11. Spared("text_cmd", 33, 48)
  BY text_cmdSet, WordSpares, BitsSpare DEF Spared, Flag
<1> QED BY <1>1, <1>2, <1>3, <1>4, <1>5, <1>6, <1>7, <1>8, <1>9, <1>10, <1>11

LEMMA text_cmdFirst ==
    ASSUME NEW v
    PROVE  /\ Stored("text_cmd", v)[1] = 4 + (Octet(v["immediate"], 1) % 2) * 64
           /\ Stored("text_cmd", v)[2] =
                0 + (Octet(v["final"], 1) % 2) * 128 + (Octet(v["cont"], 1) % 2) * 64
<1>1. \A j \in {4, 5, 6, 7, 8, 9, 10} : Spares(FormatOf["text_cmd"].puts[j], 1, 2)
  BY text_cmdFormat, WordSpares, WordIfSpares
<1>2. BitsFirst("text_cmd", 3)
  <2>1. 3 + 1..10 = {4, 5, 6, 7, 8, 9, 10}
    OBVIOUS
  <2> QED BY <1>1, <2>1, text_cmdTidy DEF BitsFirst
<1>3. PICK g : /\ g[0] = Blank("text_cmd")
                /\ \A k \in 1..3 : Step(g, k - 1, k, FormatOf["text_cmd"].puts[k], v)
                /\ Stored("text_cmd", v)[1] = g[3][1] /\ Stored("text_cmd", v)[2] = g[3][2]
  BY <1>2, text_cmdTidy, FirstStores
<1>4. /\ Step(g, 0, 1, Bits("immediate", 0, 64, 2), v)
      /\ Step(g, 1, 2, Bits("final", 1, 128, 2), v)
      /\ Step(g, 2, 3, Bits("cont", 1, 64, 2), v)
  <2>1. /\ Step(g, 1 - 1, 1, FormatOf["text_cmd"].puts[1], v)
        /\ Step(g, 2 - 1, 2, FormatOf["text_cmd"].puts[2], v)
        /\ Step(g, 3 - 1, 3, FormatOf["text_cmd"].puts[3], v)
    BY <1>3
  <2> QED BY <2>1, text_cmdFormat DEF Flag
<1>5. g[0][1] = 4 /\ g[0][2] = 0
  BY <1>3, text_cmdFormat DEF Blank
<1>6. /\ g[1][1] = g[0][1] + (Octet(v["immediate"], 1) % 2) * 64 /\ g[1][2] = g[0][2]
      /\ g[2][2] = g[1][2] + (Octet(v["final"], 1) % 2) * 128 /\ g[2][1] = g[1][1]
      /\ g[3][2] = g[2][2] + (Octet(v["cont"], 1) % 2) * 64 /\ g[3][1] = g[2][1]
  BY <1>4, BitsStep1, BitsStep2
<1> QED BY <1>3, <1>5, <1>6

LEMMA text_cmdGood == Good("text_cmd")
<1> SUFFICES ASSUME NEW v, Shaped("text_cmd", v) PROVE Fine("text_cmd", v)
  BY DEF Good
<1>1. v["zero"] = <<0>>
  BY DEF Shaped
<1>2. /\ v["immediate"] = <<v["immediate"][1]>> /\ v["immediate"][1] \in 0..1
      /\ Octet(v["immediate"], 1) = v["immediate"][1]
      /\ v["final"] = <<v["final"][1]>> /\ v["final"][1] \in 0..1
      /\ Octet(v["final"], 1) = v["final"][1]
      /\ v["cont"] = <<v["cont"][1]>> /\ v["cont"][1] \in 0..1
      /\ Octet(v["cont"], 1) = v["cont"][1]
  <2>1. /\ Fits("text_cmd", Bits("immediate", 0, 64, 2), v["immediate"])
        /\ Fits("text_cmd", Bits("final", 1, 128, 2), v["final"])
        /\ Fits("text_cmd", Bits("cont", 1, 64, 2), v["cont"])
    BY text_cmdLoadOf, text_cmdFields DEF Shaped
  <2> QED BY <2>1, BitsFit
<1>3. v["lun"] = <<0>>
  <2>1. Unset("text_cmd", "lun") /\ "lun" \in Fields("text_cmd")
    BY text_cmdFields DEF Unset, LeftZero
  <2> QED BY <2>1, UnsetZero
<1>4. Octet(v["length"], 4) = 0
  <2>1. "length" \in Fields("text_cmd") /\ "text_cmd" # "r2t"
    BY text_cmdFields
  <2> QED BY ONLY <2>1, Shaped("text_cmd", v), LengthTop
<1>5. /\ Stored("text_cmd", v)[1] \in 0..255
      /\ Stored("text_cmd", v)[1] % 64 = 4
      /\ Stored("text_cmd", v)[2] \in 0..255
      /\ Extracts(Stored("text_cmd", v), 0, 64, 2, v["immediate"][1])
      /\ Extracts(Stored("text_cmd", v), 1, 128, 2, v["final"][1])
      /\ Extracts(Stored("text_cmd", v), 1, 64, 2, v["cont"][1])
  <2>1. Stored("text_cmd", v)[1] =
          4 + v["immediate"][1] * 64
    BY <1>2, text_cmdFirst
  <2>2. Stored("text_cmd", v)[2] =
          0 + v["final"][1] * 128 + v["cont"][1] * 64
    BY <1>2, text_cmdFirst
  <2>3. Stored("text_cmd", v)[1] \in 0..255
    BY <2>1, <2>2, <1>2
  <2>4. Stored("text_cmd", v)[1] % 64 = 4
    BY <2>1, <2>2, <1>2
  <2>5. Stored("text_cmd", v)[2] \in 0..255
    BY <2>1, <2>2, <1>2
  <2>6. Extracts(Stored("text_cmd", v), 0, 64, 2, v["immediate"][1])
    BY <2>1, <2>2, <1>2 DEF Extracts
  <2>7. Extracts(Stored("text_cmd", v), 1, 128, 2, v["final"][1])
    BY <2>1, <2>2, <1>2 DEF Extracts
  <2>8. Extracts(Stored("text_cmd", v), 1, 64, 2, v["cont"][1])
    BY <2>1, <2>2, <1>2 DEF Extracts
  <2> QED BY <2>3, <2>4, <2>5, <2>6, <2>7, <2>8
<1>6. Stored("text_cmd", v) \in Header
  <2>1. HighWords("text_cmd")
    BY text_cmdSet, HighWord, HighBits DEF HighWords, Flag
  <2>2. PutFields("text_cmd")
    <3>1. {"zero", "immediate", "final", "cont", "length", "lun", "tag", "transfer_tag", "CmdSN",
            "ExpStatSN"}
          \subseteq Carried("text_cmd")
      BY text_cmdFields DEF Carried
    <3>2. \A q \in Puts("text_cmd") : Named(q, "text_cmd")
      BY <3>1, text_cmdSet, NamedWord, NamedBits DEF Flag
    <3> QED BY <3>2 DEF PutFields
  <2> QED BY <2>1, <2>2, <1>5, text_cmdTidy, HeaderMade
<1>7. ZeroAt(Stored("text_cmd", v), 3, 4)
  <2>1. Spared("text_cmd", 3, 4)
    BY text_cmdOwns
  <2> QED BY ONLY <2>1, text_cmdTidy, 3 \in 3..48, 4 \in 3..48, SpareZero
<1>8. ZeroAt(Stored("text_cmd", v), 9, 9)
  <2>1. Spared("text_cmd", 9, 9)
    BY text_cmdOwns
  <2> QED BY ONLY <2>1, text_cmdTidy, 9 \in 3..48, 9 \in 3..48, SpareZero
<1>9. ZeroAt(Stored("text_cmd", v), 11, 16)
  <2>1. Spared("text_cmd", 11, 16)
    BY text_cmdOwns
  <2> QED BY ONLY <2>1, text_cmdTidy, 11 \in 3..48, 16 \in 3..48, SpareZero
<1>10. ZeroAt(Stored("text_cmd", v), 33, 48)
  <2>1. Spared("text_cmd", 33, 48)
    BY text_cmdOwns
  <2> QED BY ONLY <2>1, text_cmdTidy, 33 \in 3..48, 48 \in 3..48, SpareZero
<1>11. ZeroAt(Stored("text_cmd", v), 5, 5)
  <2>1. Owns("text_cmd", Word("zero", 4, 1), 5, 5)
    BY text_cmdOwns
  <2>2. 4 \in 0..47 /\ 1 \in 1..16 /\ 5 \in 1..48 /\ 5 \in 1..48 /\ 4 + 1 <= 5 /\ 5 <= 4 + 1
    OBVIOUS
  <2> QED BY ONLY <2>1, <2>2, <1>1, text_cmdTidy, FieldZero
<1>12. ZeroAt(Stored("text_cmd", v), 10, 10)
  <2>1. Owns("text_cmd", Word("lun", 9, 1), 10, 10)
    BY text_cmdOwns
  <2>2. 9 \in 0..47 /\ 1 \in 1..16 /\ 10 \in 1..48 /\ 10 \in 1..48 /\ 9 + 1 <= 10 /\ 10 <= 9 + 1
    OBVIOUS
  <2> QED BY ONLY <2>1, <2>2, <1>3, text_cmdTidy, FieldZero
<1>13. ~Refused(FormatOf["text_cmd"], Stored("text_cmd", v))
  <2>1. ASSUME NEW k \in FormatOf["text_cmd"].zero PROVE Stored("text_cmd", v)[k + 1] = 0
    <3> DEFINE i == k + 1
    <3>1. i \in 3..4 \/ i \in 5..5 \/ i \in 9..9 \/ i \in 10..10 \/ i \in 11..16 \/ i \in 33..48
      BY text_cmdFormat
    <3> HIDE DEF i
    <3>2. Stored("text_cmd", v)[i] = 0
      BY <3>1, <1>7, <1>8, <1>9, <1>10, <1>11, <1>12 DEF ZeroAt
    <3> QED BY <3>2 DEF i
  <2>2. \A b \in FormatOf["text_cmd"].zbits : (Stored("text_cmd", v)[b[1] + 1] \div b[2]) % b[3] = 0
    BY <1>5, text_cmdFormat DEF Extracts
  <2> QED BY <2>1, <2>2, Zenon DEF Refused
<1>14. /\ Arrives("text_cmd", v, "immediate")
      /\ Arrives("text_cmd", v, "final")
      /\ Arrives("text_cmd", v, "cont")
  BY <1>5, text_cmdLoadOf, text_cmdFields, text_cmdAlways, ArrivesBits
<1>15. /\ Arrives("text_cmd", v, "lun")
      /\ Arrives("text_cmd", v, "tag")
      /\ Arrives("text_cmd", v, "transfer_tag")
      /\ Arrives("text_cmd", v, "CmdSN")
      /\ Arrives("text_cmd", v, "ExpStatSN")
  BY text_cmdLoadOf, text_cmdFields, text_cmdAlways, text_cmdOwns, text_cmdTidy, ArrivesPlain
<1>16. Arrives("text_cmd", v, "length")
  <2>1. /\ LoadOf("text_cmd", "length") = Word("length", 4, 4) /\ "length" \in Fields("text_cmd")
        /\ Always("text_cmd", "length")
    BY text_cmdLoadOf, text_cmdFields, text_cmdAlways
  <2>2. v["zero"] = <<0>> /\ Octet(v["length"], 4) = 0 /\ 5 \in {4, 5}
    BY <1>1, <1>4
  <2>3. Owns("text_cmd", Word("zero", 4, 1), 5, 5) /\ Owns("text_cmd", Word("length", 5, 8 - 5), 6, 8)
    BY text_cmdOwns
  <2> QED BY ONLY <2>1, <2>2, <2>3, Shaped("text_cmd", v), text_cmdTidy, ArrivesLength
<1> QED BY <1>5, <1>6, <1>13, <1>14, <1>15, <1>16, text_cmdFields, text_cmdFormat DEF Fine

-----------------------------------------------------------------------------
(* login_cmd *)

LEMMA login_cmdFormat ==
    /\ FormatOf["login_cmd"].op = 3 /\ FormatOf["login_cmd"].one = 0
    /\ FormatOf["login_cmd"].zero = {22, 23} \cup 32..47
    /\ FormatOf["login_cmd"].zbits = {<<1, 16, 4>>}
    /\ FormatOf["login_cmd"].puts = <<
         Flag("transit", 1, 128), Flag("cont", 1, 64), Bits("csg", 1, 4, 4),
         Bits("nsg", 1, 1, 4), Word("version_max", 2, 1), Word("version_min", 3, 1),
         Word("isid", 6, 8), Word("zero", 4, 1), Word("length", 5, 3), Word("AHSlength", 4, 1),
         Word("tsih", 14, 2), Word("tag", 16, 4), Word("cid", 20, 2), Word("CmdSN", 24, 4),
         Word("ExpStatSN", 28, 4)>>
  BY DEF FormatOf, login_cmd, Format, login_cmd_puts, Stages, Length24, Length32, Tag, CmdSNs

LEMMA login_cmdSet ==
    Puts("login_cmd") = {
         Flag("transit", 1, 128), Flag("cont", 1, 64), Bits("csg", 1, 4, 4),
         Bits("nsg", 1, 1, 4), Word("version_max", 2, 1), Word("version_min", 3, 1),
         Word("isid", 6, 8), Word("zero", 4, 1), Word("length", 5, 3), Word("AHSlength", 4, 1),
         Word("tsih", 14, 2), Word("tag", 16, 4), Word("cid", 20, 2), Word("CmdSN", 24, 4),
         Word("ExpStatSN", 28, 4)}
  BY login_cmdFormat DEF Puts, ToSet

LEMMA login_cmdTidy == Tidy("login_cmd") /\ Len(FormatOf["login_cmd"].puts) = 15
<1>1. Len(FormatOf["login_cmd"].puts) = 15
  BY login_cmdFormat
<1>2. FormatOf["login_cmd"].puts \in Seq(Puts("login_cmd"))
  BY <1>1, login_cmdSet, login_cmdFormat
<1>3. \A q \in Puts("login_cmd") : Placed(q)
  BY login_cmdSet, PlacedKinds DEF Flag
<1> QED BY <1>1, <1>2, <1>3, Zenon DEF Tidy

LEMMA login_cmdLoads ==
    Loads("login_cmd") = {
         Flag("transit", 1, 128), Flag("cont", 1, 64), Bits("csg", 1, 4, 4),
         Bits("nsg", 1, 1, 4), Word("version_max", 2, 1), Word("version_min", 3, 1),
         Word("AHSlength", 4, 1), Word("length", 4, 4), Word("isid", 8, 6),
         Word("tsih", 14, 2), Word("tag", 16, 4), Word("cid", 20, 2), Word("CmdSN", 24, 4),
         Word("ExpStatSN", 28, 4)}
  BY DEF Loads, ToSet, FormatOf, login_cmd, Format, login_cmd_puts, Stages, Length24, Length32, Tag, CmdSNs

LEMMA login_cmdFields ==
    Fields("login_cmd") = {
         "transit", "cont", "csg", "nsg", "version_max", "version_min", "AHSlength", "length",
         "isid", "tsih", "tag", "cid", "CmdSN", "ExpStatSN"}
  BY login_cmdLoads, Names DEF Fields

LEMMA login_cmdSound == SoundLoads("login_cmd")
<1>1. Once("login_cmd")
  BY login_cmdLoads, Names DEF Once
<1>2. \A g \in Loads("login_cmd") : Sound("login_cmd", g)
  BY login_cmdLoads, SoundWord, SoundBits DEF Flag
<1> QED BY <1>1, <1>2, login_cmdFields DEF SoundLoads

LEMMA login_cmdLoadOf ==
    /\ LoadOf("login_cmd", "transit") = Bits("transit", 1, 128, 2)
    /\ LoadOf("login_cmd", "cont") = Bits("cont", 1, 64, 2)
    /\ LoadOf("login_cmd", "csg") = Bits("csg", 1, 4, 4)
    /\ LoadOf("login_cmd", "nsg") = Bits("nsg", 1, 1, 4)
    /\ LoadOf("login_cmd", "version_max") = Word("version_max", 2, 1)
    /\ LoadOf("login_cmd", "version_min") = Word("version_min", 3, 1)
    /\ LoadOf("login_cmd", "AHSlength") = Word("AHSlength", 4, 1)
    /\ LoadOf("login_cmd", "length") = Word("length", 4, 4)
    /\ LoadOf("login_cmd", "isid") = Word("isid", 8, 6)
    /\ LoadOf("login_cmd", "tsih") = Word("tsih", 14, 2)
    /\ LoadOf("login_cmd", "tag") = Word("tag", 16, 4)
    /\ LoadOf("login_cmd", "cid") = Word("cid", 20, 2)
    /\ LoadOf("login_cmd", "CmdSN") = Word("CmdSN", 24, 4)
    /\ LoadOf("login_cmd", "ExpStatSN") = Word("ExpStatSN", 28, 4)
  BY login_cmdSound, login_cmdLoads, Names, LoadIs DEF SoundLoads, Flag

LEMMA login_cmdAlways ==
    ASSUME NEW f
    PROVE  Always("login_cmd", f)
<1>1. \A q \in Puts("login_cmd") : Free(q)
  BY login_cmdSet, FreeWord, FreeBits DEF Flag
<1> QED BY <1>1, Zenon DEF Always, Free

LEMMA login_cmdOwns ==
    /\ Owns("login_cmd", Word("version_max", 2, 1), 3, 3)
    /\ Owns("login_cmd", Word("version_min", 3, 1), 4, 4)
    /\ Owns("login_cmd", Word("isid", 6, 8), 9, 14)
    /\ Owns("login_cmd", Word("tsih", 14, 2), 15, 16)
    /\ Owns("login_cmd", Word("tag", 16, 4), 17, 20)
    /\ Owns("login_cmd", Word("cid", 20, 2), 21, 22)
    /\ Owns("login_cmd", Word("CmdSN", 24, 4), 25, 28)
    /\ Owns("login_cmd", Word("ExpStatSN", 28, 4), 29, 32)
    /\ Owns("login_cmd", Word("AHSlength", 4, 1), 5, 5)
    /\ Owns("login_cmd", Word("length", 5, 3), 6, 8)
    /\ Spared("login_cmd", 23, 24)
    /\ Spared("login_cmd", 33, 48)
<1>1. Owns("login_cmd", Word("version_max", 2, 1), 3, 3)
  BY login_cmdSet, WordSpares, BitsSpare DEF Owns, Alone, Flag
<1>2. Owns("login_cmd", Word("version_min", 3, 1), 4, 4)
  BY login_cmdSet, WordSpares, BitsSpare DEF Owns, Alone, Flag
<1>3. Owns("login_cmd", Word("isid", 6, 8), 9, 14)
  BY login_cmdSet, WordSpares, BitsSpare DEF Owns, Alone, Flag
<1>4. Owns("login_cmd", Word("tsih", 14, 2), 15, 16)
  BY login_cmdSet, WordSpares, BitsSpare DEF Owns, Alone, Flag
<1>5. Owns("login_cmd", Word("tag", 16, 4), 17, 20)
  BY login_cmdSet, WordSpares, BitsSpare DEF Owns, Alone, Flag
<1>6. Owns("login_cmd", Word("cid", 20, 2), 21, 22)
  BY login_cmdSet, WordSpares, BitsSpare DEF Owns, Alone, Flag
<1>7. Owns("login_cmd", Word("CmdSN", 24, 4), 25, 28)
  BY login_cmdSet, WordSpares, BitsSpare DEF Owns, Alone, Flag
<1>8. Owns("login_cmd", Word("ExpStatSN", 28, 4), 29, 32)
  BY login_cmdSet, WordSpares, BitsSpare DEF Owns, Alone, Flag
<1>9. Owns("login_cmd", Word("AHSlength", 4, 1), 5, 5)
  <2>1. \A j \in {11, 12, 13, 14, 15} : Spares(FormatOf["login_cmd"].puts[j], 5, 5)
    <3>1. /\ FormatOf["login_cmd"].puts[11] = Word("tsih", 14, 2)
          /\ FormatOf["login_cmd"].puts[12] = Word("tag", 16, 4)
          /\ FormatOf["login_cmd"].puts[13] = Word("cid", 20, 2)
          /\ FormatOf["login_cmd"].puts[14] = Word("CmdSN", 24, 4)
          /\ FormatOf["login_cmd"].puts[15] = Word("ExpStatSN", 28, 4)
      BY login_cmdFormat
    <3>2. /\ Spares(Word("tsih", 14, 2), 5, 5)
          /\ Spares(Word("tag", 16, 4), 5, 5)
          /\ Spares(Word("cid", 20, 2), 5, 5)
          /\ Spares(Word("CmdSN", 24, 4), 5, 5)
          /\ Spares(Word("ExpStatSN", 28, 4), 5, 5)
      BY WordSpares
    <3> QED BY <3>1, <3>2
  <2>2. /\ FormatOf["login_cmd"].puts[10] = Word("AHSlength", 4, 1) /\ 10 \in 1..15
        /\ 10 + 1..15 = {11, 12, 13, 14, 15}
    BY login_cmdFormat
  <2> QED BY <2>1, <2>2, login_cmdTidy, Zenon DEF Owns, FinalStore
<1>10. Owns("login_cmd", Word("length", 5, 3), 6, 8)
  <2>1. \A j \in {10, 11, 12, 13, 14, 15} : Spares(FormatOf["login_cmd"].puts[j], 6, 8)
    <3>1. /\ FormatOf["login_cmd"].puts[10] = Word("AHSlength", 4, 1)
          /\ FormatOf["login_cmd"].puts[11] = Word("tsih", 14, 2)
          /\ FormatOf["login_cmd"].puts[12] = Word("tag", 16, 4)
          /\ FormatOf["login_cmd"].puts[13] = Word("cid", 20, 2)
          /\ FormatOf["login_cmd"].puts[14] = Word("CmdSN", 24, 4)
          /\ FormatOf["login_cmd"].puts[15] = Word("ExpStatSN", 28, 4)
      BY login_cmdFormat
    <3>2. /\ Spares(Word("AHSlength", 4, 1), 6, 8)
          /\ Spares(Word("tsih", 14, 2), 6, 8)
          /\ Spares(Word("tag", 16, 4), 6, 8)
          /\ Spares(Word("cid", 20, 2), 6, 8)
          /\ Spares(Word("CmdSN", 24, 4), 6, 8)
          /\ Spares(Word("ExpStatSN", 28, 4), 6, 8)
      BY WordSpares
    <3> QED BY <3>1, <3>2
  <2>2. /\ FormatOf["login_cmd"].puts[9] = Word("length", 5, 3) /\ 9 \in 1..15
        /\ 9 + 1..15 = {10, 11, 12, 13, 14, 15}
    BY login_cmdFormat
  <2> QED BY <2>1, <2>2, login_cmdTidy, Zenon DEF Owns, FinalStore
<1>11. Spared("login_cmd", 23, 24)
  BY login_cmdSet, WordSpares, BitsSpare DEF Spared, Flag
<1>12. Spared("login_cmd", 33, 48)
  BY login_cmdSet, WordSpares, BitsSpare DEF Spared, Flag
<1> QED BY <1>1, <1>2, <1>3, <1>4, <1>5, <1>6, <1>7, <1>8, <1>9, <1>10, <1>11, <1>12

LEMMA login_cmdFirst ==
    ASSUME NEW v
    PROVE  /\ Stored("login_cmd", v)[1] = 67
           /\ Stored("login_cmd", v)[2] =
                0 + (Octet(v["transit"], 1) % 2) * 128 + (Octet(v["cont"], 1) % 2) * 64
                + (Octet(v["csg"], 1) % 4) * 4 + (Octet(v["nsg"], 1) % 4) * 1
<1>1. \A j \in {5, 6, 7, 8, 9, 10, 11, 12, 13, 14, 15} : Spares(FormatOf["login_cmd"].puts[j], 1, 2)
  BY login_cmdFormat, WordSpares, WordIfSpares
<1>2. BitsFirst("login_cmd", 4)
  <2>1. 4 + 1..15 = {5, 6, 7, 8, 9, 10, 11, 12, 13, 14, 15}
    OBVIOUS
  <2> QED BY <1>1, <2>1, login_cmdTidy DEF BitsFirst
<1>3. PICK g : /\ g[0] = Blank("login_cmd")
                /\ \A k \in 1..4 : Step(g, k - 1, k, FormatOf["login_cmd"].puts[k], v)
                /\ Stored("login_cmd", v)[1] = g[4][1] /\ Stored("login_cmd", v)[2] = g[4][2]
  BY <1>2, login_cmdTidy, FirstStores
<1>4. /\ Step(g, 0, 1, Bits("transit", 1, 128, 2), v)
      /\ Step(g, 1, 2, Bits("cont", 1, 64, 2), v)
      /\ Step(g, 2, 3, Bits("csg", 1, 4, 4), v)
      /\ Step(g, 3, 4, Bits("nsg", 1, 1, 4), v)
  <2>1. /\ Step(g, 1 - 1, 1, FormatOf["login_cmd"].puts[1], v)
        /\ Step(g, 2 - 1, 2, FormatOf["login_cmd"].puts[2], v)
        /\ Step(g, 3 - 1, 3, FormatOf["login_cmd"].puts[3], v)
        /\ Step(g, 4 - 1, 4, FormatOf["login_cmd"].puts[4], v)
    BY <1>3
  <2> QED BY <2>1, login_cmdFormat DEF Flag
<1>5. g[0][1] = 67 /\ g[0][2] = 0
  BY <1>3, login_cmdFormat DEF Blank
<1>6. /\ g[1][2] = g[0][2] + (Octet(v["transit"], 1) % 2) * 128 /\ g[1][1] = g[0][1]
      /\ g[2][2] = g[1][2] + (Octet(v["cont"], 1) % 2) * 64 /\ g[2][1] = g[1][1]
      /\ g[3][2] = g[2][2] + (Octet(v["csg"], 1) % 4) * 4 /\ g[3][1] = g[2][1]
      /\ g[4][2] = g[3][2] + (Octet(v["nsg"], 1) % 4) * 1 /\ g[4][1] = g[3][1]
  BY <1>4, BitsStep1, BitsStep2
<1> QED BY <1>3, <1>5, <1>6

LEMMA login_cmdGood == Good("login_cmd")
<1> SUFFICES ASSUME NEW v, Shaped("login_cmd", v) PROVE Fine("login_cmd", v)
  BY DEF Good
<1>1. v["zero"] = <<0>>
  BY DEF Shaped
<1>2. /\ v["transit"] = <<v["transit"][1]>> /\ v["transit"][1] \in 0..1
      /\ Octet(v["transit"], 1) = v["transit"][1]
      /\ v["cont"] = <<v["cont"][1]>> /\ v["cont"][1] \in 0..1
      /\ Octet(v["cont"], 1) = v["cont"][1]
      /\ v["csg"] = <<v["csg"][1]>> /\ v["csg"][1] \in 0..3
      /\ Octet(v["csg"], 1) = v["csg"][1]
      /\ v["nsg"] = <<v["nsg"][1]>> /\ v["nsg"][1] \in 0..3
      /\ Octet(v["nsg"], 1) = v["nsg"][1]
  <2>1. /\ Fits("login_cmd", Bits("transit", 1, 128, 2), v["transit"])
        /\ Fits("login_cmd", Bits("cont", 1, 64, 2), v["cont"])
        /\ Fits("login_cmd", Bits("csg", 1, 4, 4), v["csg"])
        /\ Fits("login_cmd", Bits("nsg", 1, 1, 4), v["nsg"])
    BY login_cmdLoadOf, login_cmdFields DEF Shaped
  <2> QED BY <2>1, BitsFit
<1>3. v["AHSlength"] = <<0>>
  <2>1. Unset("login_cmd", "AHSlength") /\ "AHSlength" \in Fields("login_cmd")
    BY login_cmdFields DEF Unset, LeftZero
  <2> QED BY <2>1, UnsetZero
<1>4. Octet(v["length"], 4) = 0
  <2>1. "length" \in Fields("login_cmd") /\ "login_cmd" # "r2t"
    BY login_cmdFields
  <2> QED BY ONLY <2>1, Shaped("login_cmd", v), LengthTop
<1>5. /\ Stored("login_cmd", v)[1] \in 0..255
      /\ Stored("login_cmd", v)[1] % 64 = 3
      /\ Stored("login_cmd", v)[2] \in 0..255
      /\ Extracts(Stored("login_cmd", v), 1, 16, 4, 0)
      /\ Extracts(Stored("login_cmd", v), 1, 128, 2, v["transit"][1])
      /\ Extracts(Stored("login_cmd", v), 1, 64, 2, v["cont"][1])
      /\ Extracts(Stored("login_cmd", v), 1, 4, 4, v["csg"][1])
      /\ Extracts(Stored("login_cmd", v), 1, 1, 4, v["nsg"][1])
  <2>1. Stored("login_cmd", v)[1] =
          67
    BY <1>2, login_cmdFirst
  <2>2. Stored("login_cmd", v)[2] =
          0 + v["transit"][1] * 128 + v["cont"][1] * 64 + v["csg"][1] * 4 + v["nsg"][1] * 1
    BY <1>2, login_cmdFirst
  <2>3. Stored("login_cmd", v)[1] \in 0..255
    BY <2>1, <2>2, <1>2
  <2>4. Stored("login_cmd", v)[1] % 64 = 3
    BY <2>1, <2>2, <1>2
  <2>5. Stored("login_cmd", v)[2] \in 0..255
    BY <2>1, <2>2, <1>2
  <2>6. Extracts(Stored("login_cmd", v), 1, 16, 4, 0)
    BY <2>1, <2>2, <1>2 DEF Extracts
  <2>7. Extracts(Stored("login_cmd", v), 1, 128, 2, v["transit"][1])
    BY <2>1, <2>2, <1>2 DEF Extracts
  <2>8. Extracts(Stored("login_cmd", v), 1, 64, 2, v["cont"][1])
    BY <2>1, <2>2, <1>2 DEF Extracts
  <2>9. Extracts(Stored("login_cmd", v), 1, 4, 4, v["csg"][1])
    BY <2>1, <2>2, <1>2 DEF Extracts
  <2>10. Extracts(Stored("login_cmd", v), 1, 1, 4, v["nsg"][1])
    BY <2>1, <2>2, <1>2 DEF Extracts
  <2> QED BY <2>3, <2>4, <2>5, <2>6, <2>7, <2>8, <2>9, <2>10
<1>6. Stored("login_cmd", v) \in Header
  <2>1. HighWords("login_cmd")
    BY login_cmdSet, HighWord, HighBits DEF HighWords, Flag
  <2>2. PutFields("login_cmd")
    <3>1. {"zero", "transit", "cont", "csg", "nsg", "version_max", "version_min", "AHSlength",
            "length", "isid", "tsih", "tag", "cid", "CmdSN", "ExpStatSN"}
          \subseteq Carried("login_cmd")
      BY login_cmdFields DEF Carried
    <3>2. \A q \in Puts("login_cmd") : Named(q, "login_cmd")
      BY <3>1, login_cmdSet, NamedWord, NamedBits DEF Flag
    <3> QED BY <3>2 DEF PutFields
  <2> QED BY <2>1, <2>2, <1>5, login_cmdTidy, HeaderMade
<1>7. ZeroAt(Stored("login_cmd", v), 23, 24)
  <2>1. Spared("login_cmd", 23, 24)
    BY login_cmdOwns
  <2> QED BY ONLY <2>1, login_cmdTidy, 23 \in 3..48, 24 \in 3..48, SpareZero
<1>8. ZeroAt(Stored("login_cmd", v), 33, 48)
  <2>1. Spared("login_cmd", 33, 48)
    BY login_cmdOwns
  <2> QED BY ONLY <2>1, login_cmdTidy, 33 \in 3..48, 48 \in 3..48, SpareZero
<1>9. ~Refused(FormatOf["login_cmd"], Stored("login_cmd", v))
  <2>1. ASSUME NEW k \in FormatOf["login_cmd"].zero PROVE Stored("login_cmd", v)[k + 1] = 0
    <3> DEFINE i == k + 1
    <3>1. i \in 23..24 \/ i \in 33..48
      BY login_cmdFormat
    <3> HIDE DEF i
    <3>2. Stored("login_cmd", v)[i] = 0
      BY <3>1, <1>7, <1>8 DEF ZeroAt
    <3> QED BY <3>2 DEF i
  <2>2. \A b \in FormatOf["login_cmd"].zbits : (Stored("login_cmd", v)[b[1] + 1] \div b[2]) % b[3] = 0
    BY <1>5, login_cmdFormat DEF Extracts
  <2> QED BY <2>1, <2>2, Zenon DEF Refused
<1>10. /\ Arrives("login_cmd", v, "transit")
      /\ Arrives("login_cmd", v, "cont")
      /\ Arrives("login_cmd", v, "csg")
      /\ Arrives("login_cmd", v, "nsg")
  BY <1>5, login_cmdLoadOf, login_cmdFields, login_cmdAlways, ArrivesBits
<1>11. /\ Arrives("login_cmd", v, "version_max")
      /\ Arrives("login_cmd", v, "version_min")
      /\ Arrives("login_cmd", v, "AHSlength")
      /\ Arrives("login_cmd", v, "tsih")
  BY login_cmdLoadOf, login_cmdFields, login_cmdAlways, login_cmdOwns, login_cmdTidy, ArrivesPlain
<1>12. /\ Arrives("login_cmd", v, "tag")
      /\ Arrives("login_cmd", v, "cid")
      /\ Arrives("login_cmd", v, "CmdSN")
      /\ Arrives("login_cmd", v, "ExpStatSN")
  BY login_cmdLoadOf, login_cmdFields, login_cmdAlways, login_cmdOwns, login_cmdTidy, ArrivesPlain
<1>13. Arrives("login_cmd", v, "length")
  <2>1. /\ LoadOf("login_cmd", "length") = Word("length", 4, 4) /\ "length" \in Fields("login_cmd")
        /\ Always("login_cmd", "length")
    BY login_cmdLoadOf, login_cmdFields, login_cmdAlways
  <2>2. v["AHSlength"] = <<0>> /\ Octet(v["length"], 4) = 0 /\ 5 \in {4, 5}
    BY <1>3, <1>4
  <2>3. Owns("login_cmd", Word("AHSlength", 4, 1), 5, 5) /\ Owns("login_cmd", Word("length", 5, 8 - 5), 6, 8)
    BY login_cmdOwns
  <2> QED BY ONLY <2>1, <2>2, <2>3, Shaped("login_cmd", v), login_cmdTidy, ArrivesLength
<1>14. Arrives("login_cmd", v, "isid")
  <2>1. /\ LoadOf("login_cmd", "isid") = Word("isid", 8, 6) /\ "isid" \in Fields("login_cmd")
        /\ Always("login_cmd", "isid")
    BY login_cmdLoadOf, login_cmdFields, login_cmdAlways
  <2>2. Owns("login_cmd", Word("isid", 8 - 2, 6 + 2), 8 + 1, 8 + 6)
    BY login_cmdOwns
  <2>3. 8 \in 0..47 /\ 6 \in 1..16 /\ 8 + 6 <= 48 /\ 2 \in 0..3 /\ 2 <= 8 /\ 6 + 2 <= 16
    OBVIOUS
  <2> QED BY ONLY <2>1, <2>2, <2>3, Shaped("login_cmd", v), login_cmdTidy, ArrivesTail
<1> QED BY <1>5, <1>6, <1>9, <1>10, <1>11, <1>12, <1>13, <1>14, login_cmdFields, login_cmdFormat DEF Fine

-----------------------------------------------------------------------------
(* logout_cmd *)

LEMMA logout_cmdFormat ==
    /\ FormatOf["logout_cmd"].op = 6 /\ FormatOf["logout_cmd"].one = 128
    /\ FormatOf["logout_cmd"].zero = 2..15 \cup 32..47
    /\ FormatOf["logout_cmd"].zbits = {<<0, 128, 2>>}
    /\ FormatOf["logout_cmd"].puts = <<
         Flag("immediate", 0, 64), Bits("reason", 1, 1, 128), Word("tag", 16, 4),
         Word("cid", 20, 2), Word("CmdSN", 24, 4), Word("ExpStatSN", 28, 4)>>
  BY DEF FormatOf, logout_cmd, Format, Tag, CmdSNs

LEMMA logout_cmdSet ==
    Puts("logout_cmd") = {
         Flag("immediate", 0, 64), Bits("reason", 1, 1, 128), Word("tag", 16, 4),
         Word("cid", 20, 2), Word("CmdSN", 24, 4), Word("ExpStatSN", 28, 4)}
  BY logout_cmdFormat DEF Puts, ToSet

LEMMA logout_cmdTidy == Tidy("logout_cmd") /\ Len(FormatOf["logout_cmd"].puts) = 6
<1>1. Len(FormatOf["logout_cmd"].puts) = 6
  BY logout_cmdFormat
<1>2. FormatOf["logout_cmd"].puts \in Seq(Puts("logout_cmd"))
  BY <1>1, logout_cmdSet, logout_cmdFormat
<1>3. \A q \in Puts("logout_cmd") : Placed(q)
  BY logout_cmdSet, PlacedKinds DEF Flag
<1> QED BY <1>1, <1>2, <1>3, Zenon DEF Tidy

LEMMA logout_cmdLoads ==
    Loads("logout_cmd") = {
         Flag("immediate", 0, 64), Bits("reason", 1, 1, 128), Word("tag", 16, 4),
         Word("cid", 20, 2), Word("CmdSN", 24, 4), Word("ExpStatSN", 28, 4)}
  BY DEF Loads, ToSet, FormatOf, logout_cmd, Format, Tag, CmdSNs

LEMMA logout_cmdFields ==
    Fields("logout_cmd") = {
         "immediate", "reason", "tag", "cid", "CmdSN", "ExpStatSN"}
  BY logout_cmdLoads, Names DEF Fields

LEMMA logout_cmdSound == SoundLoads("logout_cmd")
<1>1. Once("logout_cmd")
  BY logout_cmdLoads, Names DEF Once
<1>2. \A g \in Loads("logout_cmd") : Sound("logout_cmd", g)
  BY logout_cmdLoads, SoundWord, SoundBits DEF Flag
<1> QED BY <1>1, <1>2, logout_cmdFields DEF SoundLoads

LEMMA logout_cmdLoadOf ==
    /\ LoadOf("logout_cmd", "immediate") = Bits("immediate", 0, 64, 2)
    /\ LoadOf("logout_cmd", "reason") = Bits("reason", 1, 1, 128)
    /\ LoadOf("logout_cmd", "tag") = Word("tag", 16, 4)
    /\ LoadOf("logout_cmd", "cid") = Word("cid", 20, 2)
    /\ LoadOf("logout_cmd", "CmdSN") = Word("CmdSN", 24, 4)
    /\ LoadOf("logout_cmd", "ExpStatSN") = Word("ExpStatSN", 28, 4)
  BY logout_cmdSound, logout_cmdLoads, Names, LoadIs DEF SoundLoads, Flag

LEMMA logout_cmdAlways ==
    ASSUME NEW f
    PROVE  Always("logout_cmd", f)
<1>1. \A q \in Puts("logout_cmd") : Free(q)
  BY logout_cmdSet, FreeWord, FreeBits DEF Flag
<1> QED BY <1>1, Zenon DEF Always, Free

LEMMA logout_cmdOwns ==
    /\ Owns("logout_cmd", Word("tag", 16, 4), 17, 20)
    /\ Owns("logout_cmd", Word("cid", 20, 2), 21, 22)
    /\ Owns("logout_cmd", Word("CmdSN", 24, 4), 25, 28)
    /\ Owns("logout_cmd", Word("ExpStatSN", 28, 4), 29, 32)
    /\ Spared("logout_cmd", 3, 16)
    /\ Spared("logout_cmd", 23, 24)
    /\ Spared("logout_cmd", 33, 48)
<1>1. Owns("logout_cmd", Word("tag", 16, 4), 17, 20)
  BY logout_cmdSet, WordSpares, BitsSpare DEF Owns, Alone, Flag
<1>2. Owns("logout_cmd", Word("cid", 20, 2), 21, 22)
  BY logout_cmdSet, WordSpares, BitsSpare DEF Owns, Alone, Flag
<1>3. Owns("logout_cmd", Word("CmdSN", 24, 4), 25, 28)
  BY logout_cmdSet, WordSpares, BitsSpare DEF Owns, Alone, Flag
<1>4. Owns("logout_cmd", Word("ExpStatSN", 28, 4), 29, 32)
  BY logout_cmdSet, WordSpares, BitsSpare DEF Owns, Alone, Flag
<1>5. Spared("logout_cmd", 3, 16)
  BY logout_cmdSet, WordSpares, BitsSpare DEF Spared, Flag
<1>6. Spared("logout_cmd", 23, 24)
  BY logout_cmdSet, WordSpares, BitsSpare DEF Spared, Flag
<1>7. Spared("logout_cmd", 33, 48)
  BY logout_cmdSet, WordSpares, BitsSpare DEF Spared, Flag
<1> QED BY <1>1, <1>2, <1>3, <1>4, <1>5, <1>6, <1>7

LEMMA logout_cmdFirst ==
    ASSUME NEW v
    PROVE  /\ Stored("logout_cmd", v)[1] = 6 + (Octet(v["immediate"], 1) % 2) * 64
           /\ Stored("logout_cmd", v)[2] =
                128 + (Octet(v["reason"], 1) % 128) * 1
<1>1. \A j \in {3, 4, 5, 6} : Spares(FormatOf["logout_cmd"].puts[j], 1, 2)
  BY logout_cmdFormat, WordSpares, WordIfSpares
<1>2. BitsFirst("logout_cmd", 2)
  <2>1. 2 + 1..6 = {3, 4, 5, 6}
    OBVIOUS
  <2> QED BY <1>1, <2>1, logout_cmdTidy DEF BitsFirst
<1>3. PICK g : /\ g[0] = Blank("logout_cmd")
                /\ \A k \in 1..2 : Step(g, k - 1, k, FormatOf["logout_cmd"].puts[k], v)
                /\ Stored("logout_cmd", v)[1] = g[2][1] /\ Stored("logout_cmd", v)[2] = g[2][2]
  BY <1>2, logout_cmdTidy, FirstStores
<1>4. /\ Step(g, 0, 1, Bits("immediate", 0, 64, 2), v)
      /\ Step(g, 1, 2, Bits("reason", 1, 1, 128), v)
  <2>1. /\ Step(g, 1 - 1, 1, FormatOf["logout_cmd"].puts[1], v)
        /\ Step(g, 2 - 1, 2, FormatOf["logout_cmd"].puts[2], v)
    BY <1>3
  <2> QED BY <2>1, logout_cmdFormat DEF Flag
<1>5. g[0][1] = 6 /\ g[0][2] = 128
  BY <1>3, logout_cmdFormat DEF Blank
<1>6. /\ g[1][1] = g[0][1] + (Octet(v["immediate"], 1) % 2) * 64 /\ g[1][2] = g[0][2]
      /\ g[2][2] = g[1][2] + (Octet(v["reason"], 1) % 128) * 1 /\ g[2][1] = g[1][1]
  BY <1>4, BitsStep1, BitsStep2
<1> QED BY <1>3, <1>5, <1>6

LEMMA logout_cmdGood == Good("logout_cmd")
<1> SUFFICES ASSUME NEW v, Shaped("logout_cmd", v) PROVE Fine("logout_cmd", v)
  BY DEF Good
<1>1. v["zero"] = <<0>>
  BY DEF Shaped
<1>2. /\ v["immediate"] = <<v["immediate"][1]>> /\ v["immediate"][1] \in 0..1
      /\ Octet(v["immediate"], 1) = v["immediate"][1]
      /\ v["reason"] = <<v["reason"][1]>> /\ v["reason"][1] \in 0..127
      /\ Octet(v["reason"], 1) = v["reason"][1]
  <2>1. /\ Fits("logout_cmd", Bits("immediate", 0, 64, 2), v["immediate"])
        /\ Fits("logout_cmd", Bits("reason", 1, 1, 128), v["reason"])
    BY logout_cmdLoadOf, logout_cmdFields DEF Shaped
  <2> QED BY <2>1, BitsFit
<1>3. /\ Stored("logout_cmd", v)[1] \in 0..255
      /\ Stored("logout_cmd", v)[1] % 64 = 6
      /\ Stored("logout_cmd", v)[2] \in 0..255
      /\ Extracts(Stored("logout_cmd", v), 0, 128, 2, 0)
      /\ Extracts(Stored("logout_cmd", v), 0, 64, 2, v["immediate"][1])
      /\ Extracts(Stored("logout_cmd", v), 1, 1, 128, v["reason"][1])
  <2>1. Stored("logout_cmd", v)[1] =
          6 + v["immediate"][1] * 64
    BY <1>2, logout_cmdFirst
  <2>2. Stored("logout_cmd", v)[2] =
          128 + v["reason"][1] * 1
    BY <1>2, logout_cmdFirst
  <2>3. Stored("logout_cmd", v)[1] \in 0..255
    BY <2>1, <2>2, <1>2
  <2>4. Stored("logout_cmd", v)[1] % 64 = 6
    BY <2>1, <2>2, <1>2
  <2>5. Stored("logout_cmd", v)[2] \in 0..255
    BY <2>1, <2>2, <1>2
  <2>6. Extracts(Stored("logout_cmd", v), 0, 128, 2, 0)
    BY <2>1, <2>2, <1>2 DEF Extracts
  <2>7. Extracts(Stored("logout_cmd", v), 0, 64, 2, v["immediate"][1])
    BY <2>1, <2>2, <1>2 DEF Extracts
  <2>8. Extracts(Stored("logout_cmd", v), 1, 1, 128, v["reason"][1])
    BY <2>1, <2>2, <1>2 DEF Extracts
  <2> QED BY <2>3, <2>4, <2>5, <2>6, <2>7, <2>8
<1>4. Stored("logout_cmd", v) \in Header
  <2>1. HighWords("logout_cmd")
    BY logout_cmdSet, HighWord, HighBits DEF HighWords, Flag
  <2>2. PutFields("logout_cmd")
    <3>1. {"zero", "immediate", "reason", "tag", "cid", "CmdSN", "ExpStatSN"}
          \subseteq Carried("logout_cmd")
      BY logout_cmdFields DEF Carried
    <3>2. \A q \in Puts("logout_cmd") : Named(q, "logout_cmd")
      BY <3>1, logout_cmdSet, NamedWord, NamedBits DEF Flag
    <3> QED BY <3>2 DEF PutFields
  <2> QED BY <2>1, <2>2, <1>3, logout_cmdTidy, HeaderMade
<1>5. ZeroAt(Stored("logout_cmd", v), 3, 16)
  <2>1. Spared("logout_cmd", 3, 16)
    BY logout_cmdOwns
  <2> QED BY ONLY <2>1, logout_cmdTidy, 3 \in 3..48, 16 \in 3..48, SpareZero
<1>6. ZeroAt(Stored("logout_cmd", v), 33, 48)
  <2>1. Spared("logout_cmd", 33, 48)
    BY logout_cmdOwns
  <2> QED BY ONLY <2>1, logout_cmdTidy, 33 \in 3..48, 48 \in 3..48, SpareZero
<1>7. ~Refused(FormatOf["logout_cmd"], Stored("logout_cmd", v))
  <2>1. ASSUME NEW k \in FormatOf["logout_cmd"].zero PROVE Stored("logout_cmd", v)[k + 1] = 0
    <3> DEFINE i == k + 1
    <3>1. i \in 3..16 \/ i \in 33..48
      BY logout_cmdFormat
    <3> HIDE DEF i
    <3>2. Stored("logout_cmd", v)[i] = 0
      BY <3>1, <1>5, <1>6 DEF ZeroAt
    <3> QED BY <3>2 DEF i
  <2>2. \A b \in FormatOf["logout_cmd"].zbits : (Stored("logout_cmd", v)[b[1] + 1] \div b[2]) % b[3] = 0
    BY <1>3, logout_cmdFormat DEF Extracts
  <2> QED BY <2>1, <2>2, Zenon DEF Refused
<1>8. /\ Arrives("logout_cmd", v, "immediate")
      /\ Arrives("logout_cmd", v, "reason")
  BY <1>3, logout_cmdLoadOf, logout_cmdFields, logout_cmdAlways, ArrivesBits
<1>9. /\ Arrives("logout_cmd", v, "tag")
      /\ Arrives("logout_cmd", v, "cid")
      /\ Arrives("logout_cmd", v, "CmdSN")
      /\ Arrives("logout_cmd", v, "ExpStatSN")
  BY logout_cmdLoadOf, logout_cmdFields, logout_cmdAlways, logout_cmdOwns, logout_cmdTidy, ArrivesPlain
<1> QED BY <1>3, <1>4, <1>7, <1>8, <1>9, logout_cmdFields, logout_cmdFormat DEF Fine

-----------------------------------------------------------------------------
(* scsi_cmd *)

LEMMA scsi_cmdFormat ==
    /\ FormatOf["scsi_cmd"].op = 1 /\ FormatOf["scsi_cmd"].one = 0
    /\ FormatOf["scsi_cmd"].zero = {2, 3, 8}
    /\ FormatOf["scsi_cmd"].zbits = {<<1, 8, 4>>}
    /\ FormatOf["scsi_cmd"].puts = <<
         Flag("immediate", 0, 64), Flag("final", 1, 128), Flag("fromdev", 1, 64),
         Flag("todev", 1, 32), Bits("attr", 1, 1, 8), Word("length", 4, 4),
         Word("ahs_len", 4, 1), Word("lun", 9, 1), Word("tag", 16, 4),
         Word("trans_len", 20, 4), Word("CmdSN", 24, 4), Word("ExpStatSN", 28, 4),
         Word("cdb", 32, 16)>>
  BY DEF FormatOf, scsi_cmd, Format, ScsiFlags, Length32, Lun, Tag, CmdSNs

LEMMA scsi_cmdSet ==
    Puts("scsi_cmd") = {
         Flag("immediate", 0, 64), Flag("final", 1, 128), Flag("fromdev", 1, 64),
         Flag("todev", 1, 32), Bits("attr", 1, 1, 8), Word("length", 4, 4),
         Word("ahs_len", 4, 1), Word("lun", 9, 1), Word("tag", 16, 4),
         Word("trans_len", 20, 4), Word("CmdSN", 24, 4), Word("ExpStatSN", 28, 4),
         Word("cdb", 32, 16)}
  BY scsi_cmdFormat DEF Puts, ToSet

LEMMA scsi_cmdTidy == Tidy("scsi_cmd") /\ Len(FormatOf["scsi_cmd"].puts) = 13
<1>1. Len(FormatOf["scsi_cmd"].puts) = 13
  BY scsi_cmdFormat
<1>2. FormatOf["scsi_cmd"].puts \in Seq(Puts("scsi_cmd"))
  BY <1>1, scsi_cmdSet, scsi_cmdFormat
<1>3. \A q \in Puts("scsi_cmd") : Placed(q)
  BY scsi_cmdSet, PlacedKinds DEF Flag
<1> QED BY <1>1, <1>2, <1>3, Zenon DEF Tidy

LEMMA scsi_cmdLoads ==
    Loads("scsi_cmd") = {
         Flag("immediate", 0, 64), Flag("final", 1, 128), Flag("fromdev", 1, 64),
         Flag("todev", 1, 32), Bits("attr", 1, 1, 8), Word("ahs_len", 4, 1),
         Word("length", 5, 3), Word("lun", 9, 1), Word("tag", 16, 4), Word("trans_len", 20, 4),
         Word("CmdSN", 24, 4), Word("ExpStatSN", 28, 4), Word("cdb", 32, 16)}
  BY DEF Loads, ToSet, FormatOf, scsi_cmd, Format, ScsiFlags, Length32, Lun, Tag, CmdSNs

LEMMA scsi_cmdFields ==
    Fields("scsi_cmd") = {
         "immediate", "final", "fromdev", "todev", "attr", "ahs_len", "length", "lun", "tag",
         "trans_len", "CmdSN", "ExpStatSN", "cdb"}
  BY scsi_cmdLoads, Names DEF Fields

LEMMA scsi_cmdSound == SoundLoads("scsi_cmd")
<1>1. Once("scsi_cmd")
  BY scsi_cmdLoads, Names DEF Once
<1>2. \A g \in Loads("scsi_cmd") : Sound("scsi_cmd", g)
  BY scsi_cmdLoads, SoundWord, SoundBits DEF Flag
<1> QED BY <1>1, <1>2, scsi_cmdFields DEF SoundLoads

LEMMA scsi_cmdLoadOf ==
    /\ LoadOf("scsi_cmd", "immediate") = Bits("immediate", 0, 64, 2)
    /\ LoadOf("scsi_cmd", "final") = Bits("final", 1, 128, 2)
    /\ LoadOf("scsi_cmd", "fromdev") = Bits("fromdev", 1, 64, 2)
    /\ LoadOf("scsi_cmd", "todev") = Bits("todev", 1, 32, 2)
    /\ LoadOf("scsi_cmd", "attr") = Bits("attr", 1, 1, 8)
    /\ LoadOf("scsi_cmd", "ahs_len") = Word("ahs_len", 4, 1)
    /\ LoadOf("scsi_cmd", "length") = Word("length", 5, 3)
    /\ LoadOf("scsi_cmd", "lun") = Word("lun", 9, 1)
    /\ LoadOf("scsi_cmd", "tag") = Word("tag", 16, 4)
    /\ LoadOf("scsi_cmd", "trans_len") = Word("trans_len", 20, 4)
    /\ LoadOf("scsi_cmd", "CmdSN") = Word("CmdSN", 24, 4)
    /\ LoadOf("scsi_cmd", "ExpStatSN") = Word("ExpStatSN", 28, 4)
    /\ LoadOf("scsi_cmd", "cdb") = Word("cdb", 32, 16)
  BY scsi_cmdSound, scsi_cmdLoads, Names, LoadIs DEF SoundLoads, Flag

LEMMA scsi_cmdAlways ==
    ASSUME NEW f
    PROVE  Always("scsi_cmd", f)
<1>1. \A q \in Puts("scsi_cmd") : Free(q)
  BY scsi_cmdSet, FreeWord, FreeBits DEF Flag
<1> QED BY <1>1, Zenon DEF Always, Free

LEMMA scsi_cmdOwns ==
    /\ Owns("scsi_cmd", Word("length", 4, 4), 6, 8)
    /\ Owns("scsi_cmd", Word("lun", 9, 1), 10, 10)
    /\ Owns("scsi_cmd", Word("tag", 16, 4), 17, 20)
    /\ Owns("scsi_cmd", Word("trans_len", 20, 4), 21, 24)
    /\ Owns("scsi_cmd", Word("CmdSN", 24, 4), 25, 28)
    /\ Owns("scsi_cmd", Word("ExpStatSN", 28, 4), 29, 32)
    /\ Owns("scsi_cmd", Word("cdb", 32, 16), 33, 48)
    /\ Owns("scsi_cmd", Word("ahs_len", 4, 1), 5, 5)
    /\ Spared("scsi_cmd", 3, 4)
    /\ Spared("scsi_cmd", 9, 9)
    /\ Spared("scsi_cmd", 11, 16)
<1>1. Owns("scsi_cmd", Word("length", 4, 4), 6, 8)
  BY scsi_cmdSet, WordSpares, BitsSpare DEF Owns, Alone, Flag
<1>2. Owns("scsi_cmd", Word("lun", 9, 1), 10, 10)
  BY scsi_cmdSet, WordSpares, BitsSpare DEF Owns, Alone, Flag
<1>3. Owns("scsi_cmd", Word("tag", 16, 4), 17, 20)
  BY scsi_cmdSet, WordSpares, BitsSpare DEF Owns, Alone, Flag
<1>4. Owns("scsi_cmd", Word("trans_len", 20, 4), 21, 24)
  BY scsi_cmdSet, WordSpares, BitsSpare DEF Owns, Alone, Flag
<1>5. Owns("scsi_cmd", Word("CmdSN", 24, 4), 25, 28)
  BY scsi_cmdSet, WordSpares, BitsSpare DEF Owns, Alone, Flag
<1>6. Owns("scsi_cmd", Word("ExpStatSN", 28, 4), 29, 32)
  BY scsi_cmdSet, WordSpares, BitsSpare DEF Owns, Alone, Flag
<1>7. Owns("scsi_cmd", Word("cdb", 32, 16), 33, 48)
  BY scsi_cmdSet, WordSpares, BitsSpare DEF Owns, Alone, Flag
<1>8. Owns("scsi_cmd", Word("ahs_len", 4, 1), 5, 5)
  <2>1. \A j \in {8, 9, 10, 11, 12, 13} : Spares(FormatOf["scsi_cmd"].puts[j], 5, 5)
    <3>1. /\ FormatOf["scsi_cmd"].puts[8] = Word("lun", 9, 1)
          /\ FormatOf["scsi_cmd"].puts[9] = Word("tag", 16, 4)
          /\ FormatOf["scsi_cmd"].puts[10] = Word("trans_len", 20, 4)
          /\ FormatOf["scsi_cmd"].puts[11] = Word("CmdSN", 24, 4)
          /\ FormatOf["scsi_cmd"].puts[12] = Word("ExpStatSN", 28, 4)
          /\ FormatOf["scsi_cmd"].puts[13] = Word("cdb", 32, 16)
      BY scsi_cmdFormat
    <3>2. /\ Spares(Word("lun", 9, 1), 5, 5)
          /\ Spares(Word("tag", 16, 4), 5, 5)
          /\ Spares(Word("trans_len", 20, 4), 5, 5)
          /\ Spares(Word("CmdSN", 24, 4), 5, 5)
          /\ Spares(Word("ExpStatSN", 28, 4), 5, 5)
          /\ Spares(Word("cdb", 32, 16), 5, 5)
      BY WordSpares
    <3> QED BY <3>1, <3>2
  <2>2. /\ FormatOf["scsi_cmd"].puts[7] = Word("ahs_len", 4, 1) /\ 7 \in 1..13
        /\ 7 + 1..13 = {8, 9, 10, 11, 12, 13}
    BY scsi_cmdFormat
  <2> QED BY <2>1, <2>2, scsi_cmdTidy, Zenon DEF Owns, FinalStore
<1>9. Spared("scsi_cmd", 3, 4)
  BY scsi_cmdSet, WordSpares, BitsSpare DEF Spared, Flag
<1>10. Spared("scsi_cmd", 9, 9)
  BY scsi_cmdSet, WordSpares, BitsSpare DEF Spared, Flag
<1>11. Spared("scsi_cmd", 11, 16)
  BY scsi_cmdSet, WordSpares, BitsSpare DEF Spared, Flag
<1> QED BY <1>1, <1>2, <1>3, <1>4, <1>5, <1>6, <1>7, <1>8, <1>9, <1>10, <1>11

LEMMA scsi_cmdFirst ==
    ASSUME NEW v
    PROVE  /\ Stored("scsi_cmd", v)[1] = 1 + (Octet(v["immediate"], 1) % 2) * 64
           /\ Stored("scsi_cmd", v)[2] =
                0 + (Octet(v["final"], 1) % 2) * 128 + (Octet(v["fromdev"], 1) % 2) * 64
                + (Octet(v["todev"], 1) % 2) * 32 + (Octet(v["attr"], 1) % 8) * 1
<1>1. \A j \in {6, 7, 8, 9, 10, 11, 12, 13} : Spares(FormatOf["scsi_cmd"].puts[j], 1, 2)
  BY scsi_cmdFormat, WordSpares, WordIfSpares
<1>2. BitsFirst("scsi_cmd", 5)
  <2>1. 5 + 1..13 = {6, 7, 8, 9, 10, 11, 12, 13}
    OBVIOUS
  <2> QED BY <1>1, <2>1, scsi_cmdTidy DEF BitsFirst
<1>3. PICK g : /\ g[0] = Blank("scsi_cmd")
                /\ \A k \in 1..5 : Step(g, k - 1, k, FormatOf["scsi_cmd"].puts[k], v)
                /\ Stored("scsi_cmd", v)[1] = g[5][1] /\ Stored("scsi_cmd", v)[2] = g[5][2]
  BY <1>2, scsi_cmdTidy, FirstStores
<1>4. /\ Step(g, 0, 1, Bits("immediate", 0, 64, 2), v)
      /\ Step(g, 1, 2, Bits("final", 1, 128, 2), v)
      /\ Step(g, 2, 3, Bits("fromdev", 1, 64, 2), v)
      /\ Step(g, 3, 4, Bits("todev", 1, 32, 2), v)
      /\ Step(g, 4, 5, Bits("attr", 1, 1, 8), v)
  <2>1. /\ Step(g, 1 - 1, 1, FormatOf["scsi_cmd"].puts[1], v)
        /\ Step(g, 2 - 1, 2, FormatOf["scsi_cmd"].puts[2], v)
        /\ Step(g, 3 - 1, 3, FormatOf["scsi_cmd"].puts[3], v)
        /\ Step(g, 4 - 1, 4, FormatOf["scsi_cmd"].puts[4], v)
        /\ Step(g, 5 - 1, 5, FormatOf["scsi_cmd"].puts[5], v)
    BY <1>3
  <2> QED BY <2>1, scsi_cmdFormat DEF Flag
<1>5. g[0][1] = 1 /\ g[0][2] = 0
  BY <1>3, scsi_cmdFormat DEF Blank
<1>6. /\ g[1][1] = g[0][1] + (Octet(v["immediate"], 1) % 2) * 64 /\ g[1][2] = g[0][2]
      /\ g[2][2] = g[1][2] + (Octet(v["final"], 1) % 2) * 128 /\ g[2][1] = g[1][1]
      /\ g[3][2] = g[2][2] + (Octet(v["fromdev"], 1) % 2) * 64 /\ g[3][1] = g[2][1]
      /\ g[4][2] = g[3][2] + (Octet(v["todev"], 1) % 2) * 32 /\ g[4][1] = g[3][1]
      /\ g[5][2] = g[4][2] + (Octet(v["attr"], 1) % 8) * 1 /\ g[5][1] = g[4][1]
  BY <1>4, BitsStep1, BitsStep2
<1> QED BY <1>3, <1>5, <1>6

LEMMA scsi_cmdGood == Good("scsi_cmd")
<1> SUFFICES ASSUME NEW v, Shaped("scsi_cmd", v) PROVE Fine("scsi_cmd", v)
  BY DEF Good
<1>1. v["zero"] = <<0>>
  BY DEF Shaped
<1>2. /\ v["immediate"] = <<v["immediate"][1]>> /\ v["immediate"][1] \in 0..1
      /\ Octet(v["immediate"], 1) = v["immediate"][1]
      /\ v["final"] = <<v["final"][1]>> /\ v["final"][1] \in 0..1
      /\ Octet(v["final"], 1) = v["final"][1]
      /\ v["fromdev"] = <<v["fromdev"][1]>> /\ v["fromdev"][1] \in 0..1
      /\ Octet(v["fromdev"], 1) = v["fromdev"][1]
      /\ v["todev"] = <<v["todev"][1]>> /\ v["todev"][1] \in 0..1
      /\ Octet(v["todev"], 1) = v["todev"][1]
      /\ v["attr"] = <<v["attr"][1]>> /\ v["attr"][1] \in 0..7
      /\ Octet(v["attr"], 1) = v["attr"][1]
  <2>1. /\ Fits("scsi_cmd", Bits("immediate", 0, 64, 2), v["immediate"])
        /\ Fits("scsi_cmd", Bits("final", 1, 128, 2), v["final"])
        /\ Fits("scsi_cmd", Bits("fromdev", 1, 64, 2), v["fromdev"])
        /\ Fits("scsi_cmd", Bits("todev", 1, 32, 2), v["todev"])
        /\ Fits("scsi_cmd", Bits("attr", 1, 1, 8), v["attr"])
    BY scsi_cmdLoadOf, scsi_cmdFields DEF Shaped
  <2> QED BY <2>1, BitsFit
<1>3. Octet(v["length"], 4) = 0
  <2>1. "length" \in Fields("scsi_cmd") /\ "scsi_cmd" # "r2t"
    BY scsi_cmdFields
  <2> QED BY ONLY <2>1, Shaped("scsi_cmd", v), LengthTop
<1>4. /\ Stored("scsi_cmd", v)[1] \in 0..255
      /\ Stored("scsi_cmd", v)[1] % 64 = 1
      /\ Stored("scsi_cmd", v)[2] \in 0..255
      /\ Extracts(Stored("scsi_cmd", v), 1, 8, 4, 0)
      /\ Extracts(Stored("scsi_cmd", v), 0, 64, 2, v["immediate"][1])
      /\ Extracts(Stored("scsi_cmd", v), 1, 128, 2, v["final"][1])
      /\ Extracts(Stored("scsi_cmd", v), 1, 64, 2, v["fromdev"][1])
      /\ Extracts(Stored("scsi_cmd", v), 1, 32, 2, v["todev"][1])
      /\ Extracts(Stored("scsi_cmd", v), 1, 1, 8, v["attr"][1])
  <2>1. Stored("scsi_cmd", v)[1] =
          1 + v["immediate"][1] * 64
    BY <1>2, scsi_cmdFirst
  <2>2. Stored("scsi_cmd", v)[2] =
          0 + v["final"][1] * 128 + v["fromdev"][1] * 64 + v["todev"][1] * 32 + v["attr"][1] * 1
    BY <1>2, scsi_cmdFirst
  <2>3. Stored("scsi_cmd", v)[1] \in 0..255
    BY <2>1, <2>2, <1>2
  <2>4. Stored("scsi_cmd", v)[1] % 64 = 1
    BY <2>1, <2>2, <1>2
  <2>5. Stored("scsi_cmd", v)[2] \in 0..255
    BY <2>1, <2>2, <1>2
  <2>6. Extracts(Stored("scsi_cmd", v), 1, 8, 4, 0)
    BY <2>1, <2>2, <1>2 DEF Extracts
  <2>7. Extracts(Stored("scsi_cmd", v), 0, 64, 2, v["immediate"][1])
    BY <2>1, <2>2, <1>2 DEF Extracts
  <2>8. Extracts(Stored("scsi_cmd", v), 1, 128, 2, v["final"][1])
    BY <2>1, <2>2, <1>2 DEF Extracts
  <2>9. Extracts(Stored("scsi_cmd", v), 1, 64, 2, v["fromdev"][1])
    BY <2>1, <2>2, <1>2 DEF Extracts
  <2>10. Extracts(Stored("scsi_cmd", v), 1, 32, 2, v["todev"][1])
    BY <2>1, <2>2, <1>2 DEF Extracts
  <2>11. Extracts(Stored("scsi_cmd", v), 1, 1, 8, v["attr"][1])
    BY <2>1, <2>2, <1>2 DEF Extracts
  <2> QED BY <2>3, <2>4, <2>5, <2>6, <2>7, <2>8, <2>9, <2>10, <2>11
<1>5. Stored("scsi_cmd", v) \in Header
  <2>1. HighWords("scsi_cmd")
    BY scsi_cmdSet, HighWord, HighBits DEF HighWords, Flag
  <2>2. PutFields("scsi_cmd")
    <3>1. {"zero", "immediate", "final", "fromdev", "todev", "attr", "ahs_len", "length", "lun",
            "tag", "trans_len", "CmdSN", "ExpStatSN", "cdb"}
          \subseteq Carried("scsi_cmd")
      BY scsi_cmdFields DEF Carried
    <3>2. \A q \in Puts("scsi_cmd") : Named(q, "scsi_cmd")
      BY <3>1, scsi_cmdSet, NamedWord, NamedBits DEF Flag
    <3> QED BY <3>2 DEF PutFields
  <2> QED BY <2>1, <2>2, <1>4, scsi_cmdTidy, HeaderMade
<1>6. ZeroAt(Stored("scsi_cmd", v), 3, 4)
  <2>1. Spared("scsi_cmd", 3, 4)
    BY scsi_cmdOwns
  <2> QED BY ONLY <2>1, scsi_cmdTidy, 3 \in 3..48, 4 \in 3..48, SpareZero
<1>7. ZeroAt(Stored("scsi_cmd", v), 9, 9)
  <2>1. Spared("scsi_cmd", 9, 9)
    BY scsi_cmdOwns
  <2> QED BY ONLY <2>1, scsi_cmdTidy, 9 \in 3..48, 9 \in 3..48, SpareZero
<1>8. ~Refused(FormatOf["scsi_cmd"], Stored("scsi_cmd", v))
  <2>1. ASSUME NEW k \in FormatOf["scsi_cmd"].zero PROVE Stored("scsi_cmd", v)[k + 1] = 0
    <3> DEFINE i == k + 1
    <3>1. i \in 3..4 \/ i \in 9..9
      BY scsi_cmdFormat
    <3> HIDE DEF i
    <3>2. Stored("scsi_cmd", v)[i] = 0
      BY <3>1, <1>6, <1>7 DEF ZeroAt
    <3> QED BY <3>2 DEF i
  <2>2. \A b \in FormatOf["scsi_cmd"].zbits : (Stored("scsi_cmd", v)[b[1] + 1] \div b[2]) % b[3] = 0
    BY <1>4, scsi_cmdFormat DEF Extracts
  <2> QED BY <2>1, <2>2, Zenon DEF Refused
<1>9. /\ Arrives("scsi_cmd", v, "immediate")
      /\ Arrives("scsi_cmd", v, "final")
      /\ Arrives("scsi_cmd", v, "fromdev")
      /\ Arrives("scsi_cmd", v, "todev")
      /\ Arrives("scsi_cmd", v, "attr")
  BY <1>4, scsi_cmdLoadOf, scsi_cmdFields, scsi_cmdAlways, ArrivesBits
<1>10. /\ Arrives("scsi_cmd", v, "ahs_len")
      /\ Arrives("scsi_cmd", v, "lun")
      /\ Arrives("scsi_cmd", v, "tag")
      /\ Arrives("scsi_cmd", v, "trans_len")
  BY scsi_cmdLoadOf, scsi_cmdFields, scsi_cmdAlways, scsi_cmdOwns, scsi_cmdTidy, ArrivesPlain
<1>11. /\ Arrives("scsi_cmd", v, "CmdSN")
      /\ Arrives("scsi_cmd", v, "ExpStatSN")
      /\ Arrives("scsi_cmd", v, "cdb")
  BY scsi_cmdLoadOf, scsi_cmdFields, scsi_cmdAlways, scsi_cmdOwns, scsi_cmdTidy, ArrivesPlain
<1>12. Arrives("scsi_cmd", v, "length")
  <2>1. /\ LoadOf("scsi_cmd", "length") = Word("length", 5, 3) /\ "length" \in Fields("scsi_cmd")
        /\ Always("scsi_cmd", "length")
    BY scsi_cmdLoadOf, scsi_cmdFields, scsi_cmdAlways
  <2>2. Owns("scsi_cmd", Word("length", 5 - 1, 3 + 1), 5 + 1, 5 + 3)
    BY scsi_cmdOwns
  <2>3. 5 \in 0..47 /\ 3 \in 1..16 /\ 5 + 3 <= 48 /\ 1 \in 0..3 /\ 1 <= 5 /\ 3 + 1 <= 16
    OBVIOUS
  <2> QED BY ONLY <2>1, <2>2, <2>3, Shaped("scsi_cmd", v), scsi_cmdTidy, ArrivesTail
<1> QED BY <1>4, <1>5, <1>8, <1>9, <1>10, <1>11, <1>12, scsi_cmdFields, scsi_cmdFormat DEF Fine

-----------------------------------------------------------------------------
(* write_data *)

LEMMA write_dataFormat ==
    /\ FormatOf["write_data"].op = 5 /\ FormatOf["write_data"].one = 0
    /\ FormatOf["write_data"].zero = {2, 3, 4, 8} \cup 24..27 \cup 32..35 \cup 44..47
    /\ FormatOf["write_data"].zbits = {<<1, 1, 128>>}
    /\ FormatOf["write_data"].puts = <<
         Flag("final", 1, 128), Word("length", 4, 4), Word("lun", 9, 1), Word("tag", 16, 4),
         Word("transfer_tag", 20, 4), Word("ExpStatSN", 28, 4), Word("DataSN", 36, 4),
         Word("offset", 40, 4)>>
  BY DEF FormatOf, write_data, Format, Length32, Lun, Tags, Tag, Low7

LEMMA write_dataSet ==
    Puts("write_data") = {
         Flag("final", 1, 128), Word("length", 4, 4), Word("lun", 9, 1), Word("tag", 16, 4),
         Word("transfer_tag", 20, 4), Word("ExpStatSN", 28, 4), Word("DataSN", 36, 4),
         Word("offset", 40, 4)}
  BY write_dataFormat DEF Puts, ToSet

LEMMA write_dataTidy == Tidy("write_data") /\ Len(FormatOf["write_data"].puts) = 8
<1>1. Len(FormatOf["write_data"].puts) = 8
  BY write_dataFormat
<1>2. FormatOf["write_data"].puts \in Seq(Puts("write_data"))
  BY <1>1, write_dataSet, write_dataFormat
<1>3. \A q \in Puts("write_data") : Placed(q)
  BY write_dataSet, PlacedKinds DEF Flag
<1> QED BY <1>1, <1>2, <1>3, Zenon DEF Tidy

LEMMA write_dataLoads ==
    Loads("write_data") = {
         Flag("final", 1, 128), Word("length", 4, 4), Word("lun", 9, 1), Word("tag", 16, 4),
         Word("transfer_tag", 20, 4), Word("ExpStatSN", 28, 4), Word("DataSN", 36, 4),
         Word("offset", 40, 4)}
  BY DEF Loads, ToSet, FormatOf, write_data, Format, Length32, Lun, Tags, Tag, Low7

LEMMA write_dataFields ==
    Fields("write_data") = {
         "final", "length", "lun", "tag", "transfer_tag", "ExpStatSN", "DataSN", "offset"}
  BY write_dataLoads, Names DEF Fields

LEMMA write_dataSound == SoundLoads("write_data")
<1>1. Once("write_data")
  BY write_dataLoads, Names DEF Once
<1>2. \A g \in Loads("write_data") : Sound("write_data", g)
  BY write_dataLoads, SoundWord, SoundBits DEF Flag
<1> QED BY <1>1, <1>2, write_dataFields DEF SoundLoads

LEMMA write_dataLoadOf ==
    /\ LoadOf("write_data", "final") = Bits("final", 1, 128, 2)
    /\ LoadOf("write_data", "length") = Word("length", 4, 4)
    /\ LoadOf("write_data", "lun") = Word("lun", 9, 1)
    /\ LoadOf("write_data", "tag") = Word("tag", 16, 4)
    /\ LoadOf("write_data", "transfer_tag") = Word("transfer_tag", 20, 4)
    /\ LoadOf("write_data", "ExpStatSN") = Word("ExpStatSN", 28, 4)
    /\ LoadOf("write_data", "DataSN") = Word("DataSN", 36, 4)
    /\ LoadOf("write_data", "offset") = Word("offset", 40, 4)
  BY write_dataSound, write_dataLoads, Names, LoadIs DEF SoundLoads, Flag

LEMMA write_dataAlways ==
    ASSUME NEW f
    PROVE  Always("write_data", f)
<1>1. \A q \in Puts("write_data") : Free(q)
  BY write_dataSet, FreeWord, FreeBits DEF Flag
<1> QED BY <1>1, Zenon DEF Always, Free

LEMMA write_dataOwns ==
    /\ Owns("write_data", Word("length", 4, 4), 5, 8)
    /\ Owns("write_data", Word("lun", 9, 1), 10, 10)
    /\ Owns("write_data", Word("tag", 16, 4), 17, 20)
    /\ Owns("write_data", Word("transfer_tag", 20, 4), 21, 24)
    /\ Owns("write_data", Word("ExpStatSN", 28, 4), 29, 32)
    /\ Owns("write_data", Word("DataSN", 36, 4), 37, 40)
    /\ Owns("write_data", Word("offset", 40, 4), 41, 44)
    /\ Spared("write_data", 3, 4)
    /\ Spared("write_data", 9, 9)
    /\ Spared("write_data", 11, 16)
    /\ Spared("write_data", 25, 28)
    /\ Spared("write_data", 33, 36)
    /\ Spared("write_data", 45, 48)
<1>1. Owns("write_data", Word("length", 4, 4), 5, 8)
  BY write_dataSet, WordSpares, BitsSpare DEF Owns, Alone, Flag
<1>2. Owns("write_data", Word("lun", 9, 1), 10, 10)
  BY write_dataSet, WordSpares, BitsSpare DEF Owns, Alone, Flag
<1>3. Owns("write_data", Word("tag", 16, 4), 17, 20)
  BY write_dataSet, WordSpares, BitsSpare DEF Owns, Alone, Flag
<1>4. Owns("write_data", Word("transfer_tag", 20, 4), 21, 24)
  BY write_dataSet, WordSpares, BitsSpare DEF Owns, Alone, Flag
<1>5. Owns("write_data", Word("ExpStatSN", 28, 4), 29, 32)
  BY write_dataSet, WordSpares, BitsSpare DEF Owns, Alone, Flag
<1>6. Owns("write_data", Word("DataSN", 36, 4), 37, 40)
  BY write_dataSet, WordSpares, BitsSpare DEF Owns, Alone, Flag
<1>7. Owns("write_data", Word("offset", 40, 4), 41, 44)
  BY write_dataSet, WordSpares, BitsSpare DEF Owns, Alone, Flag
<1>8. Spared("write_data", 3, 4)
  BY write_dataSet, WordSpares, BitsSpare DEF Spared, Flag
<1>9. Spared("write_data", 9, 9)
  BY write_dataSet, WordSpares, BitsSpare DEF Spared, Flag
<1>10. Spared("write_data", 11, 16)
  BY write_dataSet, WordSpares, BitsSpare DEF Spared, Flag
<1>11. Spared("write_data", 25, 28)
  BY write_dataSet, WordSpares, BitsSpare DEF Spared, Flag
<1>12. Spared("write_data", 33, 36)
  BY write_dataSet, WordSpares, BitsSpare DEF Spared, Flag
<1>13. Spared("write_data", 45, 48)
  BY write_dataSet, WordSpares, BitsSpare DEF Spared, Flag
<1> QED BY <1>1, <1>2, <1>3, <1>4, <1>5, <1>6, <1>7, <1>8, <1>9, <1>10, <1>11, <1>12, <1>13

LEMMA write_dataFirst ==
    ASSUME NEW v
    PROVE  /\ Stored("write_data", v)[1] = 5
           /\ Stored("write_data", v)[2] =
                0 + (Octet(v["final"], 1) % 2) * 128
<1>1. \A j \in {2, 3, 4, 5, 6, 7, 8} : Spares(FormatOf["write_data"].puts[j], 1, 2)
  BY write_dataFormat, WordSpares, WordIfSpares
<1>2. BitsFirst("write_data", 1)
  <2>1. 1 + 1..8 = {2, 3, 4, 5, 6, 7, 8}
    OBVIOUS
  <2> QED BY <1>1, <2>1, write_dataTidy DEF BitsFirst
<1>3. PICK g : /\ g[0] = Blank("write_data")
                /\ \A k \in 1..1 : Step(g, k - 1, k, FormatOf["write_data"].puts[k], v)
                /\ Stored("write_data", v)[1] = g[1][1] /\ Stored("write_data", v)[2] = g[1][2]
  BY <1>2, write_dataTidy, FirstStores
<1>4. Step(g, 0, 1, Bits("final", 1, 128, 2), v)
  <2>1. Step(g, 1 - 1, 1, FormatOf["write_data"].puts[1], v)
    BY <1>3
  <2> QED BY <2>1, write_dataFormat DEF Flag
<1>5. g[0][1] = 5 /\ g[0][2] = 0
  BY <1>3, write_dataFormat DEF Blank
<1>6. g[1][2] = g[0][2] + (Octet(v["final"], 1) % 2) * 128 /\ g[1][1] = g[0][1]
  BY <1>4, BitsStep1, BitsStep2
<1> QED BY <1>3, <1>5, <1>6

LEMMA write_dataGood == Good("write_data")
<1> SUFFICES ASSUME NEW v, Shaped("write_data", v) PROVE Fine("write_data", v)
  BY DEF Good
<1>1. v["zero"] = <<0>>
  BY DEF Shaped
<1>2. /\ v["final"] = <<v["final"][1]>> /\ v["final"][1] \in 0..1
      /\ Octet(v["final"], 1) = v["final"][1]
  <2>1. Fits("write_data", Bits("final", 1, 128, 2), v["final"])
    BY write_dataLoadOf, write_dataFields DEF Shaped
  <2> QED BY <2>1, BitsFit
<1>3. Octet(v["length"], 4) = 0
  <2>1. "length" \in Fields("write_data") /\ "write_data" # "r2t"
    BY write_dataFields
  <2> QED BY ONLY <2>1, Shaped("write_data", v), LengthTop
<1>4. /\ Stored("write_data", v)[1] \in 0..255
      /\ Stored("write_data", v)[1] % 64 = 5
      /\ Stored("write_data", v)[2] \in 0..255
      /\ Extracts(Stored("write_data", v), 1, 1, 128, 0)
      /\ Extracts(Stored("write_data", v), 1, 128, 2, v["final"][1])
  <2>1. Stored("write_data", v)[1] =
          5
    BY <1>2, write_dataFirst
  <2>2. Stored("write_data", v)[2] =
          0 + v["final"][1] * 128
    BY <1>2, write_dataFirst
  <2>3. Stored("write_data", v)[1] \in 0..255
    BY <2>1, <2>2, <1>2
  <2>4. Stored("write_data", v)[1] % 64 = 5
    BY <2>1, <2>2, <1>2
  <2>5. Stored("write_data", v)[2] \in 0..255
    BY <2>1, <2>2, <1>2
  <2>6. Extracts(Stored("write_data", v), 1, 1, 128, 0)
    BY <2>1, <2>2, <1>2 DEF Extracts
  <2>7. Extracts(Stored("write_data", v), 1, 128, 2, v["final"][1])
    BY <2>1, <2>2, <1>2 DEF Extracts
  <2> QED BY <2>3, <2>4, <2>5, <2>6, <2>7
<1>5. Stored("write_data", v) \in Header
  <2>1. HighWords("write_data")
    BY write_dataSet, HighWord, HighBits DEF HighWords, Flag
  <2>2. PutFields("write_data")
    <3>1. {"zero", "final", "length", "lun", "tag", "transfer_tag", "ExpStatSN", "DataSN", "offset"}
          \subseteq Carried("write_data")
      BY write_dataFields DEF Carried
    <3>2. \A q \in Puts("write_data") : Named(q, "write_data")
      BY <3>1, write_dataSet, NamedWord, NamedBits DEF Flag
    <3> QED BY <3>2 DEF PutFields
  <2> QED BY <2>1, <2>2, <1>4, write_dataTidy, HeaderMade
<1>6. ZeroAt(Stored("write_data", v), 3, 4)
  <2>1. Spared("write_data", 3, 4)
    BY write_dataOwns
  <2> QED BY ONLY <2>1, write_dataTidy, 3 \in 3..48, 4 \in 3..48, SpareZero
<1>7. ZeroAt(Stored("write_data", v), 9, 9)
  <2>1. Spared("write_data", 9, 9)
    BY write_dataOwns
  <2> QED BY ONLY <2>1, write_dataTidy, 9 \in 3..48, 9 \in 3..48, SpareZero
<1>8. ZeroAt(Stored("write_data", v), 25, 28)
  <2>1. Spared("write_data", 25, 28)
    BY write_dataOwns
  <2> QED BY ONLY <2>1, write_dataTidy, 25 \in 3..48, 28 \in 3..48, SpareZero
<1>9. ZeroAt(Stored("write_data", v), 33, 36)
  <2>1. Spared("write_data", 33, 36)
    BY write_dataOwns
  <2> QED BY ONLY <2>1, write_dataTidy, 33 \in 3..48, 36 \in 3..48, SpareZero
<1>10. ZeroAt(Stored("write_data", v), 45, 48)
  <2>1. Spared("write_data", 45, 48)
    BY write_dataOwns
  <2> QED BY ONLY <2>1, write_dataTidy, 45 \in 3..48, 48 \in 3..48, SpareZero
<1>11. ZeroAt(Stored("write_data", v), 5, 5)
  BY <1>3, write_dataOwns, write_dataTidy, TopZero
<1>12. ~Refused(FormatOf["write_data"], Stored("write_data", v))
  <2>1. ASSUME NEW k \in FormatOf["write_data"].zero PROVE Stored("write_data", v)[k + 1] = 0
    <3> DEFINE i == k + 1
    <3>1. i \in 3..4 \/ i \in 5..5 \/ i \in 9..9 \/ i \in 25..28 \/ i \in 33..36 \/ i \in 45..48
      BY write_dataFormat
    <3> HIDE DEF i
    <3>2. Stored("write_data", v)[i] = 0
      BY <3>1, <1>6, <1>7, <1>8, <1>9, <1>10, <1>11 DEF ZeroAt
    <3> QED BY <3>2 DEF i
  <2>2. \A b \in FormatOf["write_data"].zbits : (Stored("write_data", v)[b[1] + 1] \div b[2]) % b[3] = 0
    BY <1>4, write_dataFormat DEF Extracts
  <2> QED BY <2>1, <2>2, Zenon DEF Refused
<1>13. Arrives("write_data", v, "final")
  BY <1>4, write_dataLoadOf, write_dataFields, write_dataAlways, ArrivesBits
<1>14. /\ Arrives("write_data", v, "length")
      /\ Arrives("write_data", v, "lun")
      /\ Arrives("write_data", v, "tag")
      /\ Arrives("write_data", v, "transfer_tag")
  BY write_dataLoadOf, write_dataFields, write_dataAlways, write_dataOwns, write_dataTidy, ArrivesPlain
<1>15. /\ Arrives("write_data", v, "ExpStatSN")
      /\ Arrives("write_data", v, "DataSN")
      /\ Arrives("write_data", v, "offset")
  BY write_dataLoadOf, write_dataFields, write_dataAlways, write_dataOwns, write_dataTidy, ArrivesPlain
<1> QED BY <1>4, <1>5, <1>12, <1>13, <1>14, <1>15, write_dataFields, write_dataFormat DEF Fine

-----------------------------------------------------------------------------
(* nop_in *)

LEMMA nop_inFormat ==
    /\ FormatOf["nop_in"].op = 32 /\ FormatOf["nop_in"].one = 128
    /\ FormatOf["nop_in"].zero = {2, 3, 4, 8} \cup 36..47
    /\ FormatOf["nop_in"].zbits = {<<1, 1, 128>>, <<0, 64, 4>>}
    /\ FormatOf["nop_in"].puts = <<
         Word("zero", 4, 1), Word("length", 5, 3), Word("lun", 9, 1), Word("tag", 16, 4),
         Word("transfer_tag", 20, 4), Word("StatSN", 24, 4), Word("ExpCmdSN", 28, 4),
         Word("MaxCmdSN", 32, 4)>>
  BY DEF FormatOf, nop_in, Format, Length24, Length32, Lun, Tags, Tag, StatSNs, Low7

LEMMA nop_inSet ==
    Puts("nop_in") = {
         Word("zero", 4, 1), Word("length", 5, 3), Word("lun", 9, 1), Word("tag", 16, 4),
         Word("transfer_tag", 20, 4), Word("StatSN", 24, 4), Word("ExpCmdSN", 28, 4),
         Word("MaxCmdSN", 32, 4)}
  BY nop_inFormat DEF Puts, ToSet

LEMMA nop_inTidy == Tidy("nop_in") /\ Len(FormatOf["nop_in"].puts) = 8
<1>1. Len(FormatOf["nop_in"].puts) = 8
  BY nop_inFormat
<1>2. FormatOf["nop_in"].puts \in Seq(Puts("nop_in"))
  BY <1>1, nop_inSet, nop_inFormat
<1>3. \A q \in Puts("nop_in") : Placed(q)
  BY nop_inSet, PlacedKinds
<1> QED BY <1>1, <1>2, <1>3, Zenon DEF Tidy

LEMMA nop_inLoads ==
    Loads("nop_in") = {
         Word("length", 4, 4), Word("lun", 9, 1), Word("tag", 16, 4),
         Word("transfer_tag", 20, 4), Word("StatSN", 24, 4), Word("ExpCmdSN", 28, 4),
         Word("MaxCmdSN", 32, 4)}
  BY DEF Loads, ToSet, FormatOf, nop_in, Format, Length24, Length32, Lun, Tags, Tag, StatSNs, Low7

LEMMA nop_inFields ==
    Fields("nop_in") = {
         "length", "lun", "tag", "transfer_tag", "StatSN", "ExpCmdSN", "MaxCmdSN"}
  BY nop_inLoads, Names DEF Fields

LEMMA nop_inSound == SoundLoads("nop_in")
<1>1. Once("nop_in")
  BY nop_inLoads, Names DEF Once
<1>2. \A g \in Loads("nop_in") : Sound("nop_in", g)
  BY nop_inLoads, SoundWord
<1> QED BY <1>1, <1>2, nop_inFields DEF SoundLoads

LEMMA nop_inLoadOf ==
    /\ LoadOf("nop_in", "length") = Word("length", 4, 4)
    /\ LoadOf("nop_in", "lun") = Word("lun", 9, 1)
    /\ LoadOf("nop_in", "tag") = Word("tag", 16, 4)
    /\ LoadOf("nop_in", "transfer_tag") = Word("transfer_tag", 20, 4)
    /\ LoadOf("nop_in", "StatSN") = Word("StatSN", 24, 4)
    /\ LoadOf("nop_in", "ExpCmdSN") = Word("ExpCmdSN", 28, 4)
    /\ LoadOf("nop_in", "MaxCmdSN") = Word("MaxCmdSN", 32, 4)
  BY nop_inSound, nop_inLoads, Names, LoadIs DEF SoundLoads

LEMMA nop_inAlways ==
    ASSUME NEW f
    PROVE  Always("nop_in", f)
<1>1. \A q \in Puts("nop_in") : Free(q)
  BY nop_inSet, FreeWord
<1> QED BY <1>1, Zenon DEF Always, Free

LEMMA nop_inOwns ==
    /\ Owns("nop_in", Word("zero", 4, 1), 5, 5)
    /\ Owns("nop_in", Word("length", 5, 3), 6, 8)
    /\ Owns("nop_in", Word("lun", 9, 1), 10, 10)
    /\ Owns("nop_in", Word("tag", 16, 4), 17, 20)
    /\ Owns("nop_in", Word("transfer_tag", 20, 4), 21, 24)
    /\ Owns("nop_in", Word("StatSN", 24, 4), 25, 28)
    /\ Owns("nop_in", Word("ExpCmdSN", 28, 4), 29, 32)
    /\ Owns("nop_in", Word("MaxCmdSN", 32, 4), 33, 36)
    /\ Spared("nop_in", 3, 4)
    /\ Spared("nop_in", 9, 9)
    /\ Spared("nop_in", 11, 16)
    /\ Spared("nop_in", 37, 48)
<1>1. Owns("nop_in", Word("zero", 4, 1), 5, 5)
  BY nop_inSet, WordSpares DEF Owns, Alone
<1>2. Owns("nop_in", Word("length", 5, 3), 6, 8)
  BY nop_inSet, WordSpares DEF Owns, Alone
<1>3. Owns("nop_in", Word("lun", 9, 1), 10, 10)
  BY nop_inSet, WordSpares DEF Owns, Alone
<1>4. Owns("nop_in", Word("tag", 16, 4), 17, 20)
  BY nop_inSet, WordSpares DEF Owns, Alone
<1>5. Owns("nop_in", Word("transfer_tag", 20, 4), 21, 24)
  BY nop_inSet, WordSpares DEF Owns, Alone
<1>6. Owns("nop_in", Word("StatSN", 24, 4), 25, 28)
  BY nop_inSet, WordSpares DEF Owns, Alone
<1>7. Owns("nop_in", Word("ExpCmdSN", 28, 4), 29, 32)
  BY nop_inSet, WordSpares DEF Owns, Alone
<1>8. Owns("nop_in", Word("MaxCmdSN", 32, 4), 33, 36)
  BY nop_inSet, WordSpares DEF Owns, Alone
<1>9. Spared("nop_in", 3, 4)
  BY nop_inSet, WordSpares DEF Spared
<1>10. Spared("nop_in", 9, 9)
  BY nop_inSet, WordSpares DEF Spared
<1>11. Spared("nop_in", 11, 16)
  BY nop_inSet, WordSpares DEF Spared
<1>12. Spared("nop_in", 37, 48)
  BY nop_inSet, WordSpares DEF Spared
<1> QED BY <1>1, <1>2, <1>3, <1>4, <1>5, <1>6, <1>7, <1>8, <1>9, <1>10, <1>11, <1>12

LEMMA nop_inFirst ==
    ASSUME NEW v
    PROVE  /\ Stored("nop_in", v)[1] = 32
           /\ Stored("nop_in", v)[2] =
                128
<1>1. Spared("nop_in", 1, 2)
  BY nop_inSet, WordSpares DEF Spared
<1>2. 1 \in 1..48 /\ 2 \in 1..48 /\ 1 \in 1..2 /\ 2 \in 1..2
  OBVIOUS
<1>3. LeftBlank("nop_in", v, 1, 2)
  BY ONLY <1>1, <1>2, nop_inTidy, SparedStored
<1> QED BY <1>2, <1>3, nop_inFormat DEF Blank, LeftBlank

LEMMA nop_inGood == Good("nop_in")
<1> SUFFICES ASSUME NEW v, Shaped("nop_in", v) PROVE Fine("nop_in", v)
  BY DEF Good
<1>1. v["zero"] = <<0>>
  BY DEF Shaped
<1>2. Octet(v["length"], 4) = 0
  <2>1. "length" \in Fields("nop_in") /\ "nop_in" # "r2t"
    BY nop_inFields
  <2> QED BY ONLY <2>1, Shaped("nop_in", v), LengthTop
<1>3. /\ Stored("nop_in", v)[1] \in 0..255
      /\ Stored("nop_in", v)[1] % 64 = 32
      /\ Stored("nop_in", v)[2] \in 0..255
      /\ Extracts(Stored("nop_in", v), 1, 1, 128, 0)
      /\ Extracts(Stored("nop_in", v), 0, 64, 4, 0)
  BY nop_inFirst DEF Extracts
<1>4. Stored("nop_in", v) \in Header
  <2>1. HighWords("nop_in")
    BY nop_inSet, HighWord DEF HighWords
  <2>2. PutFields("nop_in")
    <3>1. {"zero", "length", "lun", "tag", "transfer_tag", "StatSN", "ExpCmdSN", "MaxCmdSN"}
          \subseteq Carried("nop_in")
      BY nop_inFields DEF Carried
    <3>2. \A q \in Puts("nop_in") : Named(q, "nop_in")
      BY <3>1, nop_inSet, NamedWord
    <3> QED BY <3>2 DEF PutFields
  <2> QED BY <2>1, <2>2, <1>3, nop_inTidy, HeaderMade
<1>5. ZeroAt(Stored("nop_in", v), 3, 4)
  <2>1. Spared("nop_in", 3, 4)
    BY nop_inOwns
  <2> QED BY ONLY <2>1, nop_inTidy, 3 \in 3..48, 4 \in 3..48, SpareZero
<1>6. ZeroAt(Stored("nop_in", v), 9, 9)
  <2>1. Spared("nop_in", 9, 9)
    BY nop_inOwns
  <2> QED BY ONLY <2>1, nop_inTidy, 9 \in 3..48, 9 \in 3..48, SpareZero
<1>7. ZeroAt(Stored("nop_in", v), 37, 48)
  <2>1. Spared("nop_in", 37, 48)
    BY nop_inOwns
  <2> QED BY ONLY <2>1, nop_inTidy, 37 \in 3..48, 48 \in 3..48, SpareZero
<1>8. ZeroAt(Stored("nop_in", v), 5, 5)
  <2>1. Owns("nop_in", Word("zero", 4, 1), 5, 5)
    BY nop_inOwns
  <2>2. 4 \in 0..47 /\ 1 \in 1..16 /\ 5 \in 1..48 /\ 5 \in 1..48 /\ 4 + 1 <= 5 /\ 5 <= 4 + 1
    OBVIOUS
  <2> QED BY ONLY <2>1, <2>2, <1>1, nop_inTidy, FieldZero
<1>9. ~Refused(FormatOf["nop_in"], Stored("nop_in", v))
  <2>1. ASSUME NEW k \in FormatOf["nop_in"].zero PROVE Stored("nop_in", v)[k + 1] = 0
    <3> DEFINE i == k + 1
    <3>1. i \in 3..4 \/ i \in 5..5 \/ i \in 9..9 \/ i \in 37..48
      BY nop_inFormat
    <3> HIDE DEF i
    <3>2. Stored("nop_in", v)[i] = 0
      BY <3>1, <1>5, <1>6, <1>7, <1>8 DEF ZeroAt
    <3> QED BY <3>2 DEF i
  <2>2. \A b \in FormatOf["nop_in"].zbits : (Stored("nop_in", v)[b[1] + 1] \div b[2]) % b[3] = 0
    BY <1>3, nop_inFormat DEF Extracts
  <2> QED BY <2>1, <2>2, Zenon DEF Refused
<1>10. /\ Arrives("nop_in", v, "lun")
      /\ Arrives("nop_in", v, "tag")
      /\ Arrives("nop_in", v, "transfer_tag")
      /\ Arrives("nop_in", v, "StatSN")
      /\ Arrives("nop_in", v, "ExpCmdSN")
      /\ Arrives("nop_in", v, "MaxCmdSN")
  BY nop_inLoadOf, nop_inFields, nop_inAlways, nop_inOwns, nop_inTidy, ArrivesPlain
<1>11. Arrives("nop_in", v, "length")
  <2>1. /\ LoadOf("nop_in", "length") = Word("length", 4, 4) /\ "length" \in Fields("nop_in")
        /\ Always("nop_in", "length")
    BY nop_inLoadOf, nop_inFields, nop_inAlways
  <2>2. v["zero"] = <<0>> /\ Octet(v["length"], 4) = 0 /\ 5 \in {4, 5}
    BY <1>1, <1>2
  <2>3. Owns("nop_in", Word("zero", 4, 1), 5, 5) /\ Owns("nop_in", Word("length", 5, 8 - 5), 6, 8)
    BY nop_inOwns
  <2> QED BY ONLY <2>1, <2>2, <2>3, Shaped("nop_in", v), nop_inTidy, ArrivesLength
<1> QED BY <1>3, <1>4, <1>9, <1>10, <1>11, nop_inFields, nop_inFormat DEF Fine

-----------------------------------------------------------------------------
(* text_rsp *)

LEMMA text_rspFormat ==
    /\ FormatOf["text_rsp"].op = 36 /\ FormatOf["text_rsp"].one = 0
    /\ FormatOf["text_rsp"].zero = {2, 3, 4} \cup 8..15 \cup 36..47
    /\ FormatOf["text_rsp"].zbits = {<<1, 1, 64>>}
    /\ FormatOf["text_rsp"].puts = <<
         Flag("final", 1, 128), Flag("cont", 1, 64), Word("zero", 4, 1), Word("length", 5, 3),
         Word("lun", 9, 1), Word("tag", 16, 4), Word("transfer_tag", 20, 4),
         Word("StatSN", 24, 4), Word("ExpCmdSN", 28, 4), Word("MaxCmdSN", 32, 4)>>
  BY DEF FormatOf, text_rsp, Format, Length24, Length32, Lun, Tags, Tag, StatSNs, Low6

LEMMA text_rspSet ==
    Puts("text_rsp") = {
         Flag("final", 1, 128), Flag("cont", 1, 64), Word("zero", 4, 1), Word("length", 5, 3),
         Word("lun", 9, 1), Word("tag", 16, 4), Word("transfer_tag", 20, 4),
         Word("StatSN", 24, 4), Word("ExpCmdSN", 28, 4), Word("MaxCmdSN", 32, 4)}
  BY text_rspFormat DEF Puts, ToSet

LEMMA text_rspTidy == Tidy("text_rsp") /\ Len(FormatOf["text_rsp"].puts) = 10
<1>1. Len(FormatOf["text_rsp"].puts) = 10
  BY text_rspFormat
<1>2. FormatOf["text_rsp"].puts \in Seq(Puts("text_rsp"))
  BY <1>1, text_rspSet, text_rspFormat
<1>3. \A q \in Puts("text_rsp") : Placed(q)
  BY text_rspSet, PlacedKinds DEF Flag
<1> QED BY <1>1, <1>2, <1>3, Zenon DEF Tidy

LEMMA text_rspLoads ==
    Loads("text_rsp") = {
         Flag("final", 1, 128), Flag("cont", 1, 64), Word("length", 4, 4), Word("lun", 9, 1),
         Word("tag", 16, 4), Word("transfer_tag", 20, 4), Word("StatSN", 24, 4),
         Word("ExpCmdSN", 28, 4), Word("MaxCmdSN", 32, 4)}
  BY DEF Loads, ToSet, FormatOf, text_rsp, Format, Length24, Length32, Lun, Tags, Tag, StatSNs, Low6

LEMMA text_rspFields ==
    Fields("text_rsp") = {
         "final", "cont", "length", "lun", "tag", "transfer_tag", "StatSN", "ExpCmdSN",
         "MaxCmdSN"}
  BY text_rspLoads, Names DEF Fields

LEMMA text_rspSound == SoundLoads("text_rsp")
<1>1. Once("text_rsp")
  BY text_rspLoads, Names DEF Once
<1>2. \A g \in Loads("text_rsp") : Sound("text_rsp", g)
  BY text_rspLoads, SoundWord, SoundBits DEF Flag
<1> QED BY <1>1, <1>2, text_rspFields DEF SoundLoads

LEMMA text_rspLoadOf ==
    /\ LoadOf("text_rsp", "final") = Bits("final", 1, 128, 2)
    /\ LoadOf("text_rsp", "cont") = Bits("cont", 1, 64, 2)
    /\ LoadOf("text_rsp", "length") = Word("length", 4, 4)
    /\ LoadOf("text_rsp", "lun") = Word("lun", 9, 1)
    /\ LoadOf("text_rsp", "tag") = Word("tag", 16, 4)
    /\ LoadOf("text_rsp", "transfer_tag") = Word("transfer_tag", 20, 4)
    /\ LoadOf("text_rsp", "StatSN") = Word("StatSN", 24, 4)
    /\ LoadOf("text_rsp", "ExpCmdSN") = Word("ExpCmdSN", 28, 4)
    /\ LoadOf("text_rsp", "MaxCmdSN") = Word("MaxCmdSN", 32, 4)
  BY text_rspSound, text_rspLoads, Names, LoadIs DEF SoundLoads, Flag

LEMMA text_rspAlways ==
    ASSUME NEW f
    PROVE  Always("text_rsp", f)
<1>1. \A q \in Puts("text_rsp") : Free(q)
  BY text_rspSet, FreeWord, FreeBits DEF Flag
<1> QED BY <1>1, Zenon DEF Always, Free

LEMMA text_rspOwns ==
    /\ Owns("text_rsp", Word("zero", 4, 1), 5, 5)
    /\ Owns("text_rsp", Word("length", 5, 3), 6, 8)
    /\ Owns("text_rsp", Word("lun", 9, 1), 10, 10)
    /\ Owns("text_rsp", Word("tag", 16, 4), 17, 20)
    /\ Owns("text_rsp", Word("transfer_tag", 20, 4), 21, 24)
    /\ Owns("text_rsp", Word("StatSN", 24, 4), 25, 28)
    /\ Owns("text_rsp", Word("ExpCmdSN", 28, 4), 29, 32)
    /\ Owns("text_rsp", Word("MaxCmdSN", 32, 4), 33, 36)
    /\ Spared("text_rsp", 3, 4)
    /\ Spared("text_rsp", 9, 9)
    /\ Spared("text_rsp", 11, 16)
    /\ Spared("text_rsp", 37, 48)
<1>1. Owns("text_rsp", Word("zero", 4, 1), 5, 5)
  BY text_rspSet, WordSpares, BitsSpare DEF Owns, Alone, Flag
<1>2. Owns("text_rsp", Word("length", 5, 3), 6, 8)
  BY text_rspSet, WordSpares, BitsSpare DEF Owns, Alone, Flag
<1>3. Owns("text_rsp", Word("lun", 9, 1), 10, 10)
  BY text_rspSet, WordSpares, BitsSpare DEF Owns, Alone, Flag
<1>4. Owns("text_rsp", Word("tag", 16, 4), 17, 20)
  BY text_rspSet, WordSpares, BitsSpare DEF Owns, Alone, Flag
<1>5. Owns("text_rsp", Word("transfer_tag", 20, 4), 21, 24)
  BY text_rspSet, WordSpares, BitsSpare DEF Owns, Alone, Flag
<1>6. Owns("text_rsp", Word("StatSN", 24, 4), 25, 28)
  BY text_rspSet, WordSpares, BitsSpare DEF Owns, Alone, Flag
<1>7. Owns("text_rsp", Word("ExpCmdSN", 28, 4), 29, 32)
  BY text_rspSet, WordSpares, BitsSpare DEF Owns, Alone, Flag
<1>8. Owns("text_rsp", Word("MaxCmdSN", 32, 4), 33, 36)
  BY text_rspSet, WordSpares, BitsSpare DEF Owns, Alone, Flag
<1>9. Spared("text_rsp", 3, 4)
  BY text_rspSet, WordSpares, BitsSpare DEF Spared, Flag
<1>10. Spared("text_rsp", 9, 9)
  BY text_rspSet, WordSpares, BitsSpare DEF Spared, Flag
<1>11. Spared("text_rsp", 11, 16)
  BY text_rspSet, WordSpares, BitsSpare DEF Spared, Flag
<1>12. Spared("text_rsp", 37, 48)
  BY text_rspSet, WordSpares, BitsSpare DEF Spared, Flag
<1> QED BY <1>1, <1>2, <1>3, <1>4, <1>5, <1>6, <1>7, <1>8, <1>9, <1>10, <1>11, <1>12

LEMMA text_rspFirst ==
    ASSUME NEW v
    PROVE  /\ Stored("text_rsp", v)[1] = 36
           /\ Stored("text_rsp", v)[2] =
                0 + (Octet(v["final"], 1) % 2) * 128 + (Octet(v["cont"], 1) % 2) * 64
<1>1. \A j \in {3, 4, 5, 6, 7, 8, 9, 10} : Spares(FormatOf["text_rsp"].puts[j], 1, 2)
  BY text_rspFormat, WordSpares, WordIfSpares
<1>2. BitsFirst("text_rsp", 2)
  <2>1. 2 + 1..10 = {3, 4, 5, 6, 7, 8, 9, 10}
    OBVIOUS
  <2> QED BY <1>1, <2>1, text_rspTidy DEF BitsFirst
<1>3. PICK g : /\ g[0] = Blank("text_rsp")
                /\ \A k \in 1..2 : Step(g, k - 1, k, FormatOf["text_rsp"].puts[k], v)
                /\ Stored("text_rsp", v)[1] = g[2][1] /\ Stored("text_rsp", v)[2] = g[2][2]
  BY <1>2, text_rspTidy, FirstStores
<1>4. /\ Step(g, 0, 1, Bits("final", 1, 128, 2), v)
      /\ Step(g, 1, 2, Bits("cont", 1, 64, 2), v)
  <2>1. /\ Step(g, 1 - 1, 1, FormatOf["text_rsp"].puts[1], v)
        /\ Step(g, 2 - 1, 2, FormatOf["text_rsp"].puts[2], v)
    BY <1>3
  <2> QED BY <2>1, text_rspFormat DEF Flag
<1>5. g[0][1] = 36 /\ g[0][2] = 0
  BY <1>3, text_rspFormat DEF Blank
<1>6. /\ g[1][2] = g[0][2] + (Octet(v["final"], 1) % 2) * 128 /\ g[1][1] = g[0][1]
      /\ g[2][2] = g[1][2] + (Octet(v["cont"], 1) % 2) * 64 /\ g[2][1] = g[1][1]
  BY <1>4, BitsStep1, BitsStep2
<1> QED BY <1>3, <1>5, <1>6

LEMMA text_rspGood == Good("text_rsp")
<1> SUFFICES ASSUME NEW v, Shaped("text_rsp", v) PROVE Fine("text_rsp", v)
  BY DEF Good
<1>1. v["zero"] = <<0>>
  BY DEF Shaped
<1>2. /\ v["final"] = <<v["final"][1]>> /\ v["final"][1] \in 0..1
      /\ Octet(v["final"], 1) = v["final"][1]
      /\ v["cont"] = <<v["cont"][1]>> /\ v["cont"][1] \in 0..1
      /\ Octet(v["cont"], 1) = v["cont"][1]
  <2>1. /\ Fits("text_rsp", Bits("final", 1, 128, 2), v["final"])
        /\ Fits("text_rsp", Bits("cont", 1, 64, 2), v["cont"])
    BY text_rspLoadOf, text_rspFields DEF Shaped
  <2> QED BY <2>1, BitsFit
<1>3. v["lun"] = <<0>>
  <2>1. Unset("text_rsp", "lun") /\ "lun" \in Fields("text_rsp")
    BY text_rspFields DEF Unset, LeftZero
  <2> QED BY <2>1, UnsetZero
<1>4. Octet(v["length"], 4) = 0
  <2>1. "length" \in Fields("text_rsp") /\ "text_rsp" # "r2t"
    BY text_rspFields
  <2> QED BY ONLY <2>1, Shaped("text_rsp", v), LengthTop
<1>5. /\ Stored("text_rsp", v)[1] \in 0..255
      /\ Stored("text_rsp", v)[1] % 64 = 36
      /\ Stored("text_rsp", v)[2] \in 0..255
      /\ Extracts(Stored("text_rsp", v), 1, 1, 64, 0)
      /\ Extracts(Stored("text_rsp", v), 1, 128, 2, v["final"][1])
      /\ Extracts(Stored("text_rsp", v), 1, 64, 2, v["cont"][1])
  <2>1. Stored("text_rsp", v)[1] =
          36
    BY <1>2, text_rspFirst
  <2>2. Stored("text_rsp", v)[2] =
          0 + v["final"][1] * 128 + v["cont"][1] * 64
    BY <1>2, text_rspFirst
  <2>3. Stored("text_rsp", v)[1] \in 0..255
    BY <2>1, <2>2, <1>2
  <2>4. Stored("text_rsp", v)[1] % 64 = 36
    BY <2>1, <2>2, <1>2
  <2>5. Stored("text_rsp", v)[2] \in 0..255
    BY <2>1, <2>2, <1>2
  <2>6. Extracts(Stored("text_rsp", v), 1, 1, 64, 0)
    BY <2>1, <2>2, <1>2 DEF Extracts
  <2>7. Extracts(Stored("text_rsp", v), 1, 128, 2, v["final"][1])
    BY <2>1, <2>2, <1>2 DEF Extracts
  <2>8. Extracts(Stored("text_rsp", v), 1, 64, 2, v["cont"][1])
    BY <2>1, <2>2, <1>2 DEF Extracts
  <2> QED BY <2>3, <2>4, <2>5, <2>6, <2>7, <2>8
<1>6. Stored("text_rsp", v) \in Header
  <2>1. HighWords("text_rsp")
    BY text_rspSet, HighWord, HighBits DEF HighWords, Flag
  <2>2. PutFields("text_rsp")
    <3>1. {"zero", "final", "cont", "length", "lun", "tag", "transfer_tag", "StatSN", "ExpCmdSN",
            "MaxCmdSN"}
          \subseteq Carried("text_rsp")
      BY text_rspFields DEF Carried
    <3>2. \A q \in Puts("text_rsp") : Named(q, "text_rsp")
      BY <3>1, text_rspSet, NamedWord, NamedBits DEF Flag
    <3> QED BY <3>2 DEF PutFields
  <2> QED BY <2>1, <2>2, <1>5, text_rspTidy, HeaderMade
<1>7. ZeroAt(Stored("text_rsp", v), 3, 4)
  <2>1. Spared("text_rsp", 3, 4)
    BY text_rspOwns
  <2> QED BY ONLY <2>1, text_rspTidy, 3 \in 3..48, 4 \in 3..48, SpareZero
<1>8. ZeroAt(Stored("text_rsp", v), 9, 9)
  <2>1. Spared("text_rsp", 9, 9)
    BY text_rspOwns
  <2> QED BY ONLY <2>1, text_rspTidy, 9 \in 3..48, 9 \in 3..48, SpareZero
<1>9. ZeroAt(Stored("text_rsp", v), 11, 16)
  <2>1. Spared("text_rsp", 11, 16)
    BY text_rspOwns
  <2> QED BY ONLY <2>1, text_rspTidy, 11 \in 3..48, 16 \in 3..48, SpareZero
<1>10. ZeroAt(Stored("text_rsp", v), 37, 48)
  <2>1. Spared("text_rsp", 37, 48)
    BY text_rspOwns
  <2> QED BY ONLY <2>1, text_rspTidy, 37 \in 3..48, 48 \in 3..48, SpareZero
<1>11. ZeroAt(Stored("text_rsp", v), 5, 5)
  <2>1. Owns("text_rsp", Word("zero", 4, 1), 5, 5)
    BY text_rspOwns
  <2>2. 4 \in 0..47 /\ 1 \in 1..16 /\ 5 \in 1..48 /\ 5 \in 1..48 /\ 4 + 1 <= 5 /\ 5 <= 4 + 1
    OBVIOUS
  <2> QED BY ONLY <2>1, <2>2, <1>1, text_rspTidy, FieldZero
<1>12. ZeroAt(Stored("text_rsp", v), 10, 10)
  <2>1. Owns("text_rsp", Word("lun", 9, 1), 10, 10)
    BY text_rspOwns
  <2>2. 9 \in 0..47 /\ 1 \in 1..16 /\ 10 \in 1..48 /\ 10 \in 1..48 /\ 9 + 1 <= 10 /\ 10 <= 9 + 1
    OBVIOUS
  <2> QED BY ONLY <2>1, <2>2, <1>3, text_rspTidy, FieldZero
<1>13. ~Refused(FormatOf["text_rsp"], Stored("text_rsp", v))
  <2>1. ASSUME NEW k \in FormatOf["text_rsp"].zero PROVE Stored("text_rsp", v)[k + 1] = 0
    <3> DEFINE i == k + 1
    <3>1. i \in 3..4 \/ i \in 5..5 \/ i \in 9..9 \/ i \in 10..10 \/ i \in 11..16 \/ i \in 37..48
      BY text_rspFormat
    <3> HIDE DEF i
    <3>2. Stored("text_rsp", v)[i] = 0
      BY <3>1, <1>7, <1>8, <1>9, <1>10, <1>11, <1>12 DEF ZeroAt
    <3> QED BY <3>2 DEF i
  <2>2. \A b \in FormatOf["text_rsp"].zbits : (Stored("text_rsp", v)[b[1] + 1] \div b[2]) % b[3] = 0
    BY <1>5, text_rspFormat DEF Extracts
  <2> QED BY <2>1, <2>2, Zenon DEF Refused
<1>14. /\ Arrives("text_rsp", v, "final")
      /\ Arrives("text_rsp", v, "cont")
  BY <1>5, text_rspLoadOf, text_rspFields, text_rspAlways, ArrivesBits
<1>15. /\ Arrives("text_rsp", v, "lun")
      /\ Arrives("text_rsp", v, "tag")
      /\ Arrives("text_rsp", v, "transfer_tag")
      /\ Arrives("text_rsp", v, "StatSN")
      /\ Arrives("text_rsp", v, "ExpCmdSN")
      /\ Arrives("text_rsp", v, "MaxCmdSN")
  BY text_rspLoadOf, text_rspFields, text_rspAlways, text_rspOwns, text_rspTidy, ArrivesPlain
<1>16. Arrives("text_rsp", v, "length")
  <2>1. /\ LoadOf("text_rsp", "length") = Word("length", 4, 4) /\ "length" \in Fields("text_rsp")
        /\ Always("text_rsp", "length")
    BY text_rspLoadOf, text_rspFields, text_rspAlways
  <2>2. v["zero"] = <<0>> /\ Octet(v["length"], 4) = 0 /\ 5 \in {4, 5}
    BY <1>1, <1>4
  <2>3. Owns("text_rsp", Word("zero", 4, 1), 5, 5) /\ Owns("text_rsp", Word("length", 5, 8 - 5), 6, 8)
    BY text_rspOwns
  <2> QED BY ONLY <2>1, <2>2, <2>3, Shaped("text_rsp", v), text_rspTidy, ArrivesLength
<1> QED BY <1>5, <1>6, <1>13, <1>14, <1>15, <1>16, text_rspFields, text_rspFormat DEF Fine

-----------------------------------------------------------------------------
(* login_rsp *)

LEMMA login_rspFormat ==
    /\ FormatOf["login_rsp"].op = 35 /\ FormatOf["login_rsp"].one = 0
    /\ FormatOf["login_rsp"].zero = 20..23 \cup {38, 39} \cup 40..47
    /\ FormatOf["login_rsp"].zbits = {<<1, 16, 4>>}
    /\ FormatOf["login_rsp"].puts = <<
         Flag("transit", 1, 128), Flag("cont", 1, 64), Bits("csg", 1, 4, 4),
         BitsIf("transit", "nsg", 1, 1, 4), Word("version_max", 2, 1),
         Word("version_active", 3, 1), Word("zero", 6, 2), Word("isid", 8, 6),
         Word("zero", 4, 1), Word("length", 5, 3), Word("AHSlength", 4, 1),
         Word("tsih", 14, 2), Word("tag", 16, 4), Word("StatSN", 24, 4),
         Word("ExpCmdSN", 28, 4), Word("MaxCmdSN", 32, 4), Word("status_class", 36, 1),
         Word("status_detail", 37, 1)>>
  BY DEF FormatOf, login_rsp, Format, Stages, Length24, Length32, Tag, StatSNs

LEMMA login_rspSet ==
    Puts("login_rsp") = {
         Flag("transit", 1, 128), Flag("cont", 1, 64), Bits("csg", 1, 4, 4),
         BitsIf("transit", "nsg", 1, 1, 4), Word("version_max", 2, 1),
         Word("version_active", 3, 1), Word("zero", 6, 2), Word("isid", 8, 6),
         Word("zero", 4, 1), Word("length", 5, 3), Word("AHSlength", 4, 1),
         Word("tsih", 14, 2), Word("tag", 16, 4), Word("StatSN", 24, 4),
         Word("ExpCmdSN", 28, 4), Word("MaxCmdSN", 32, 4), Word("status_class", 36, 1),
         Word("status_detail", 37, 1)}
  BY login_rspFormat DEF Puts, ToSet

LEMMA login_rspTidy == Tidy("login_rsp") /\ Len(FormatOf["login_rsp"].puts) = 18
<1>1. Len(FormatOf["login_rsp"].puts) = 18
  BY login_rspFormat
<1>2. FormatOf["login_rsp"].puts \in Seq(Puts("login_rsp"))
  BY <1>1, login_rspSet, login_rspFormat
<1>3. \A q \in Puts("login_rsp") : Placed(q)
  BY login_rspSet, PlacedKinds DEF Flag
<1> QED BY <1>1, <1>2, <1>3, Zenon DEF Tidy

LEMMA login_rspLoads ==
    Loads("login_rsp") = {
         Flag("transit", 1, 128), Flag("cont", 1, 64), Bits("csg", 1, 4, 4),
         Bits("nsg", 1, 1, 4), Word("version_max", 2, 1), Word("version_active", 3, 1),
         Word("AHSlength", 4, 1), Word("length", 4, 4), Word("isid", 8, 6),
         Word("tsih", 14, 2), Word("tag", 16, 4), Word("StatSN", 24, 4),
         Word("ExpCmdSN", 28, 4), Word("MaxCmdSN", 32, 4), Word("status_class", 36, 1),
         Word("status_detail", 37, 1)}
  BY DEF Loads, ToSet, FormatOf, login_rsp, Format, Stages, Length24, Length32, Tag, StatSNs

LEMMA login_rspFields ==
    Fields("login_rsp") = {
         "transit", "cont", "csg", "nsg", "version_max", "version_active", "AHSlength",
         "length", "isid", "tsih", "tag", "StatSN", "ExpCmdSN", "MaxCmdSN", "status_class",
         "status_detail"}
  BY login_rspLoads, Names DEF Fields

LEMMA login_rspSound == SoundLoads("login_rsp")
<1>1. Once("login_rsp")
  BY login_rspLoads, Names DEF Once
<1>2. \A g \in Loads("login_rsp") : Sound("login_rsp", g)
  BY login_rspLoads, SoundWord, SoundBits DEF Flag
<1> QED BY <1>1, <1>2, login_rspFields DEF SoundLoads

LEMMA login_rspLoadOf ==
    /\ LoadOf("login_rsp", "transit") = Bits("transit", 1, 128, 2)
    /\ LoadOf("login_rsp", "cont") = Bits("cont", 1, 64, 2)
    /\ LoadOf("login_rsp", "csg") = Bits("csg", 1, 4, 4)
    /\ LoadOf("login_rsp", "nsg") = Bits("nsg", 1, 1, 4)
    /\ LoadOf("login_rsp", "version_max") = Word("version_max", 2, 1)
    /\ LoadOf("login_rsp", "version_active") = Word("version_active", 3, 1)
    /\ LoadOf("login_rsp", "AHSlength") = Word("AHSlength", 4, 1)
    /\ LoadOf("login_rsp", "length") = Word("length", 4, 4)
    /\ LoadOf("login_rsp", "isid") = Word("isid", 8, 6)
    /\ LoadOf("login_rsp", "tsih") = Word("tsih", 14, 2)
    /\ LoadOf("login_rsp", "tag") = Word("tag", 16, 4)
    /\ LoadOf("login_rsp", "StatSN") = Word("StatSN", 24, 4)
    /\ LoadOf("login_rsp", "ExpCmdSN") = Word("ExpCmdSN", 28, 4)
    /\ LoadOf("login_rsp", "MaxCmdSN") = Word("MaxCmdSN", 32, 4)
    /\ LoadOf("login_rsp", "status_class") = Word("status_class", 36, 1)
    /\ LoadOf("login_rsp", "status_detail") = Word("status_detail", 37, 1)
  BY login_rspSound, login_rspLoads, Names, LoadIs DEF SoundLoads, Flag

LEMMA login_rspAlways ==
    /\ \A f \in Fields("login_rsp") \ {"nsg"} : Always("login_rsp", f)
    /\ OnlyWith("login_rsp", "nsg", "transit")
<1>1. \A f \in Fields("login_rsp") \ {"nsg"} : Always("login_rsp", f)
  <2> DEFINE C == {BitsIf("transit", "nsg", 1, 1, 4)}
  <2>1. \A q \in Puts("login_rsp") : Free(q) \/ q \in C
    BY login_rspSet, FreeWord, FreeBits DEF Flag
  <2>2. ASSUME NEW f, f \notin {"nsg"} PROVE \A q \in C : Under(q, f, "")
    BY <2>2, OtherWordIf, OtherBitsIf
  <2> QED BY <2>1, <2>2, Zenon DEF Always, Free
<1>2. OnlyWith("login_rsp", "nsg", "transit")
  <2>1. \A q \in Puts("login_rsp") : Under(q, "nsg", "transit")
    BY login_rspSet, OtherWord, OtherBits, OtherWordIf, OtherBitsIf, UnderWordIf, UnderBitsIf DEF Flag
  <2>2. /\ BitsIf("transit", "nsg", 1, 1, 4) \in Puts("login_rsp")
        /\ BitsIf("transit", "nsg", 1, 1, 4).f = "nsg"
    BY login_rspSet, Names
  <2> QED BY <2>1, <2>2 DEF OnlyWith
<1> QED BY <1>1, <1>2

LEMMA login_rspOwns ==
    /\ Owns("login_rsp", Word("version_max", 2, 1), 3, 3)
    /\ Owns("login_rsp", Word("version_active", 3, 1), 4, 4)
    /\ Owns("login_rsp", Word("isid", 8, 6), 9, 14)
    /\ Owns("login_rsp", Word("tsih", 14, 2), 15, 16)
    /\ Owns("login_rsp", Word("tag", 16, 4), 17, 20)
    /\ Owns("login_rsp", Word("StatSN", 24, 4), 25, 28)
    /\ Owns("login_rsp", Word("ExpCmdSN", 28, 4), 29, 32)
    /\ Owns("login_rsp", Word("MaxCmdSN", 32, 4), 33, 36)
    /\ Owns("login_rsp", Word("status_class", 36, 1), 37, 37)
    /\ Owns("login_rsp", Word("status_detail", 37, 1), 38, 38)
    /\ Owns("login_rsp", Word("AHSlength", 4, 1), 5, 5)
    /\ Owns("login_rsp", Word("length", 5, 3), 6, 8)
    /\ Spared("login_rsp", 21, 24)
    /\ Spared("login_rsp", 39, 48)
<1>1. Owns("login_rsp", Word("version_max", 2, 1), 3, 3)
  BY login_rspSet, WordSpares, BitsSpare, BitsIfSpare DEF Owns, Alone, Flag
<1>2. Owns("login_rsp", Word("version_active", 3, 1), 4, 4)
  BY login_rspSet, WordSpares, BitsSpare, BitsIfSpare DEF Owns, Alone, Flag
<1>3. Owns("login_rsp", Word("isid", 8, 6), 9, 14)
  BY login_rspSet, WordSpares, BitsSpare, BitsIfSpare DEF Owns, Alone, Flag
<1>4. Owns("login_rsp", Word("tsih", 14, 2), 15, 16)
  BY login_rspSet, WordSpares, BitsSpare, BitsIfSpare DEF Owns, Alone, Flag
<1>5. Owns("login_rsp", Word("tag", 16, 4), 17, 20)
  BY login_rspSet, WordSpares, BitsSpare, BitsIfSpare DEF Owns, Alone, Flag
<1>6. Owns("login_rsp", Word("StatSN", 24, 4), 25, 28)
  BY login_rspSet, WordSpares, BitsSpare, BitsIfSpare DEF Owns, Alone, Flag
<1>7. Owns("login_rsp", Word("ExpCmdSN", 28, 4), 29, 32)
  BY login_rspSet, WordSpares, BitsSpare, BitsIfSpare DEF Owns, Alone, Flag
<1>8. Owns("login_rsp", Word("MaxCmdSN", 32, 4), 33, 36)
  BY login_rspSet, WordSpares, BitsSpare, BitsIfSpare DEF Owns, Alone, Flag
<1>9. Owns("login_rsp", Word("status_class", 36, 1), 37, 37)
  BY login_rspSet, WordSpares, BitsSpare, BitsIfSpare DEF Owns, Alone, Flag
<1>10. Owns("login_rsp", Word("status_detail", 37, 1), 38, 38)
  BY login_rspSet, WordSpares, BitsSpare, BitsIfSpare DEF Owns, Alone, Flag
<1>11. Owns("login_rsp", Word("AHSlength", 4, 1), 5, 5)
  <2>1. \A j \in {12, 13, 14, 15, 16, 17, 18} : Spares(FormatOf["login_rsp"].puts[j], 5, 5)
    <3>1. /\ FormatOf["login_rsp"].puts[12] = Word("tsih", 14, 2)
          /\ FormatOf["login_rsp"].puts[13] = Word("tag", 16, 4)
          /\ FormatOf["login_rsp"].puts[14] = Word("StatSN", 24, 4)
          /\ FormatOf["login_rsp"].puts[15] = Word("ExpCmdSN", 28, 4)
          /\ FormatOf["login_rsp"].puts[16] = Word("MaxCmdSN", 32, 4)
          /\ FormatOf["login_rsp"].puts[17] = Word("status_class", 36, 1)
          /\ FormatOf["login_rsp"].puts[18] = Word("status_detail", 37, 1)
      BY login_rspFormat
    <3>2. /\ Spares(Word("tsih", 14, 2), 5, 5)
          /\ Spares(Word("tag", 16, 4), 5, 5)
          /\ Spares(Word("StatSN", 24, 4), 5, 5)
          /\ Spares(Word("ExpCmdSN", 28, 4), 5, 5)
          /\ Spares(Word("MaxCmdSN", 32, 4), 5, 5)
          /\ Spares(Word("status_class", 36, 1), 5, 5)
          /\ Spares(Word("status_detail", 37, 1), 5, 5)
      BY WordSpares
    <3> QED BY <3>1, <3>2
  <2>2. /\ FormatOf["login_rsp"].puts[11] = Word("AHSlength", 4, 1) /\ 11 \in 1..18
        /\ 11 + 1..18 = {12, 13, 14, 15, 16, 17, 18}
    BY login_rspFormat
  <2> QED BY <2>1, <2>2, login_rspTidy, Zenon DEF Owns, FinalStore
<1>12. Owns("login_rsp", Word("length", 5, 3), 6, 8)
  <2>1. \A j \in {11, 12, 13, 14, 15, 16, 17, 18} : Spares(FormatOf["login_rsp"].puts[j], 6, 8)
    <3>1. /\ FormatOf["login_rsp"].puts[11] = Word("AHSlength", 4, 1)
          /\ FormatOf["login_rsp"].puts[12] = Word("tsih", 14, 2)
          /\ FormatOf["login_rsp"].puts[13] = Word("tag", 16, 4)
          /\ FormatOf["login_rsp"].puts[14] = Word("StatSN", 24, 4)
          /\ FormatOf["login_rsp"].puts[15] = Word("ExpCmdSN", 28, 4)
          /\ FormatOf["login_rsp"].puts[16] = Word("MaxCmdSN", 32, 4)
          /\ FormatOf["login_rsp"].puts[17] = Word("status_class", 36, 1)
          /\ FormatOf["login_rsp"].puts[18] = Word("status_detail", 37, 1)
      BY login_rspFormat
    <3>2. /\ Spares(Word("AHSlength", 4, 1), 6, 8)
          /\ Spares(Word("tsih", 14, 2), 6, 8)
          /\ Spares(Word("tag", 16, 4), 6, 8)
          /\ Spares(Word("StatSN", 24, 4), 6, 8)
          /\ Spares(Word("ExpCmdSN", 28, 4), 6, 8)
          /\ Spares(Word("MaxCmdSN", 32, 4), 6, 8)
          /\ Spares(Word("status_class", 36, 1), 6, 8)
          /\ Spares(Word("status_detail", 37, 1), 6, 8)
      BY WordSpares
    <3> QED BY <3>1, <3>2
  <2>2. /\ FormatOf["login_rsp"].puts[10] = Word("length", 5, 3) /\ 10 \in 1..18
        /\ 10 + 1..18 = {11, 12, 13, 14, 15, 16, 17, 18}
    BY login_rspFormat
  <2> QED BY <2>1, <2>2, login_rspTidy, Zenon DEF Owns, FinalStore
<1>13. Spared("login_rsp", 21, 24)
  BY login_rspSet, WordSpares, BitsSpare, BitsIfSpare DEF Spared, Flag
<1>14. Spared("login_rsp", 39, 48)
  BY login_rspSet, WordSpares, BitsSpare, BitsIfSpare DEF Spared, Flag
<1> QED BY <1>1, <1>2, <1>3, <1>4, <1>5, <1>6, <1>7, <1>8, <1>9, <1>10, <1>11, <1>12, <1>13, <1>14

LEMMA login_rspFirst ==
    ASSUME NEW v
    PROVE  /\ Stored("login_rsp", v)[1] = 35
           /\ Stored("login_rsp", v)[2] =
                IF IsZero(v["transit"]) THEN 0 + (Octet(v["transit"], 1) % 2) * 128 + (Octet(v["cont"], 1) % 2) * 64
                      + (Octet(v["csg"], 1) % 4) * 4
                ELSE 0 + (Octet(v["transit"], 1) % 2) * 128 + (Octet(v["cont"], 1) % 2) * 64
                      + (Octet(v["csg"], 1) % 4) * 4 + (Octet(v["nsg"], 1) % 4) * 1
<1>1. \A j \in {5, 6, 7, 8, 9, 10, 11, 12, 13, 14, 15, 16, 17, 18} : Spares(FormatOf["login_rsp"].puts[j], 1, 2)
  BY login_rspFormat, WordSpares, WordIfSpares
<1>2. BitsFirst("login_rsp", 4)
  <2>1. 4 + 1..18 = {5, 6, 7, 8, 9, 10, 11, 12, 13, 14, 15, 16, 17, 18}
    OBVIOUS
  <2> QED BY <1>1, <2>1, login_rspTidy DEF BitsFirst
<1>3. PICK g : /\ g[0] = Blank("login_rsp")
                /\ \A k \in 1..4 : Step(g, k - 1, k, FormatOf["login_rsp"].puts[k], v)
                /\ Stored("login_rsp", v)[1] = g[4][1] /\ Stored("login_rsp", v)[2] = g[4][2]
  BY <1>2, login_rspTidy, FirstStores
<1>4. /\ Step(g, 0, 1, Bits("transit", 1, 128, 2), v)
      /\ Step(g, 1, 2, Bits("cont", 1, 64, 2), v)
      /\ Step(g, 2, 3, Bits("csg", 1, 4, 4), v)
      /\ Step(g, 3, 4, BitsIf("transit", "nsg", 1, 1, 4), v)
  <2>1. /\ Step(g, 1 - 1, 1, FormatOf["login_rsp"].puts[1], v)
        /\ Step(g, 2 - 1, 2, FormatOf["login_rsp"].puts[2], v)
        /\ Step(g, 3 - 1, 3, FormatOf["login_rsp"].puts[3], v)
        /\ Step(g, 4 - 1, 4, FormatOf["login_rsp"].puts[4], v)
    BY <1>3
  <2> QED BY <2>1, login_rspFormat DEF Flag
<1>5. g[0][1] = 35 /\ g[0][2] = 0
  BY <1>3, login_rspFormat DEF Blank
<1>6. /\ g[1][2] = g[0][2] + (Octet(v["transit"], 1) % 2) * 128 /\ g[1][1] = g[0][1]
      /\ g[2][2] = g[1][2] + (Octet(v["cont"], 1) % 2) * 64 /\ g[2][1] = g[1][1]
      /\ g[3][2] = g[2][2] + (Octet(v["csg"], 1) % 4) * 4 /\ g[3][1] = g[2][1]
  BY <1>4, BitsStep1, BitsStep2
<1>7. /\ g[4][2] = IF IsZero(v["transit"]) THEN g[3][2]
                 ELSE g[3][2] + (Octet(v["nsg"], 1) % 4) * 1
      /\ g[4][1] = g[3][1]
  <2>1. Conditional("transit") /\ 1 \in Nat \ {0}
    BY DEF Conditional
  <2>2. Step(g, 3, 4, BitsIf("transit", "nsg", 1, 1, 4), v)
    BY <1>4
  <2> QED BY ONLY <2>1, <2>2, BitsIfStep2
<1> QED BY <1>3, <1>5, <1>6, <1>7

LEMMA login_rspGood == Good("login_rsp")
<1> SUFFICES ASSUME NEW v, Shaped("login_rsp", v) PROVE Fine("login_rsp", v)
  BY DEF Good
<1>1. v["zero"] = <<0>>
  BY DEF Shaped
<1>2. /\ v["transit"] = <<v["transit"][1]>> /\ v["transit"][1] \in 0..1
      /\ Octet(v["transit"], 1) = v["transit"][1]
      /\ v["cont"] = <<v["cont"][1]>> /\ v["cont"][1] \in 0..1
      /\ Octet(v["cont"], 1) = v["cont"][1]
      /\ v["csg"] = <<v["csg"][1]>> /\ v["csg"][1] \in 0..3
      /\ Octet(v["csg"], 1) = v["csg"][1]
      /\ v["nsg"] = <<v["nsg"][1]>> /\ v["nsg"][1] \in 0..3
      /\ Octet(v["nsg"], 1) = v["nsg"][1]
  <2>1. /\ Fits("login_rsp", Bits("transit", 1, 128, 2), v["transit"])
        /\ Fits("login_rsp", Bits("cont", 1, 64, 2), v["cont"])
        /\ Fits("login_rsp", Bits("csg", 1, 4, 4), v["csg"])
        /\ Fits("login_rsp", Bits("nsg", 1, 1, 4), v["nsg"])
    BY login_rspLoadOf, login_rspFields DEF Shaped
  <2> QED BY <2>1, BitsFit
<1>3. v["AHSlength"] = <<0>>
  <2>1. Unset("login_rsp", "AHSlength") /\ "AHSlength" \in Fields("login_rsp")
    BY login_rspFields DEF Unset, LeftZero
  <2> QED BY <2>1, UnsetZero
<1>4. Octet(v["length"], 4) = 0
  <2>1. "length" \in Fields("login_rsp") /\ "login_rsp" # "r2t"
    BY login_rspFields
  <2> QED BY ONLY <2>1, Shaped("login_rsp", v), LengthTop
<1>5. /\ Stored("login_rsp", v)[1] \in 0..255
      /\ Stored("login_rsp", v)[1] % 64 = 35
      /\ Stored("login_rsp", v)[2] \in 0..255
      /\ Extracts(Stored("login_rsp", v), 1, 16, 4, 0)
      /\ Extracts(Stored("login_rsp", v), 1, 128, 2, v["transit"][1])
      /\ Extracts(Stored("login_rsp", v), 1, 64, 2, v["cont"][1])
      /\ Extracts(Stored("login_rsp", v), 1, 4, 4, v["csg"][1])
      /\ Extracts(Stored("login_rsp", v), 1, 1, 4, IF IsZero(v["transit"]) THEN 0 ELSE v["nsg"][1])
  <2>1. Stored("login_rsp", v)[1] =
          35
    BY <1>2, login_rspFirst
  <2>2. Stored("login_rsp", v)[2] =
          IF IsZero(v["transit"]) THEN 0 + v["transit"][1] * 128 + v["cont"][1] * 64 + v["csg"][1] * 4
          ELSE 0 + v["transit"][1] * 128 + v["cont"][1] * 64 + v["csg"][1] * 4 + v["nsg"][1] * 1
    BY <1>2, login_rspFirst
  <2>3. Stored("login_rsp", v)[1] \in 0..255
    BY <2>1, <2>2, <1>2
  <2>4. Stored("login_rsp", v)[1] % 64 = 35
    BY <2>1, <2>2, <1>2
  <2>5. Stored("login_rsp", v)[2] \in 0..255
    BY <2>1, <2>2, <1>2
  <2>6. Extracts(Stored("login_rsp", v), 1, 16, 4, 0)
    BY <2>1, <2>2, <1>2 DEF Extracts
  <2>7. Extracts(Stored("login_rsp", v), 1, 128, 2, v["transit"][1])
    BY <2>1, <2>2, <1>2 DEF Extracts
  <2>8. Extracts(Stored("login_rsp", v), 1, 64, 2, v["cont"][1])
    BY <2>1, <2>2, <1>2 DEF Extracts
  <2>9. Extracts(Stored("login_rsp", v), 1, 4, 4, v["csg"][1])
    BY <2>1, <2>2, <1>2 DEF Extracts
  <2>10. Extracts(Stored("login_rsp", v), 1, 1, 4, IF IsZero(v["transit"]) THEN 0 ELSE v["nsg"][1])
    BY <2>1, <2>2, <1>2 DEF Extracts
  <2> QED BY <2>3, <2>4, <2>5, <2>6, <2>7, <2>8, <2>9, <2>10
<1>6. Stored("login_rsp", v) \in Header
  <2>1. HighWords("login_rsp")
    BY login_rspSet, HighWord, HighBits, HighBitsIf DEF HighWords, Flag
  <2>2. PutFields("login_rsp")
    <3>1. {"zero", "transit", "cont", "csg", "nsg", "version_max", "version_active", "AHSlength",
            "length", "isid", "tsih", "tag", "StatSN", "ExpCmdSN", "MaxCmdSN", "status_class",
            "status_detail"}
          \subseteq Carried("login_rsp")
      BY login_rspFields DEF Carried
    <3>2. \A q \in Puts("login_rsp") : Named(q, "login_rsp")
      BY <3>1, login_rspSet, NamedWord, NamedBits, NamedBitsIf DEF Flag
    <3> QED BY <3>2 DEF PutFields
  <2> QED BY <2>1, <2>2, <1>5, login_rspTidy, HeaderMade
<1>7. ZeroAt(Stored("login_rsp", v), 21, 24)
  <2>1. Spared("login_rsp", 21, 24)
    BY login_rspOwns
  <2> QED BY ONLY <2>1, login_rspTidy, 21 \in 3..48, 24 \in 3..48, SpareZero
<1>8. ZeroAt(Stored("login_rsp", v), 39, 48)
  <2>1. Spared("login_rsp", 39, 48)
    BY login_rspOwns
  <2> QED BY ONLY <2>1, login_rspTidy, 39 \in 3..48, 48 \in 3..48, SpareZero
<1>9. ~Refused(FormatOf["login_rsp"], Stored("login_rsp", v))
  <2>1. ASSUME NEW k \in FormatOf["login_rsp"].zero PROVE Stored("login_rsp", v)[k + 1] = 0
    <3> DEFINE i == k + 1
    <3>1. i \in 21..24 \/ i \in 39..48
      BY login_rspFormat
    <3> HIDE DEF i
    <3>2. Stored("login_rsp", v)[i] = 0
      BY <3>1, <1>7, <1>8 DEF ZeroAt
    <3> QED BY <3>2 DEF i
  <2>2. \A b \in FormatOf["login_rsp"].zbits : (Stored("login_rsp", v)[b[1] + 1] \div b[2]) % b[3] = 0
    BY <1>5, login_rspFormat DEF Extracts
  <2> QED BY <2>1, <2>2, Zenon DEF Refused
<1>10. /\ Arrives("login_rsp", v, "transit")
      /\ Arrives("login_rsp", v, "cont")
      /\ Arrives("login_rsp", v, "csg")
  BY <1>5, login_rspLoadOf, login_rspFields, login_rspAlways, ArrivesBits
<1>11. /\ Arrives("login_rsp", v, "version_max")
      /\ Arrives("login_rsp", v, "version_active")
      /\ Arrives("login_rsp", v, "AHSlength")
      /\ Arrives("login_rsp", v, "isid")
      /\ Arrives("login_rsp", v, "tsih")
      /\ Arrives("login_rsp", v, "tag")
  BY login_rspLoadOf, login_rspFields, login_rspAlways, login_rspOwns, login_rspTidy, ArrivesPlain
<1>12. /\ Arrives("login_rsp", v, "StatSN")
      /\ Arrives("login_rsp", v, "ExpCmdSN")
      /\ Arrives("login_rsp", v, "MaxCmdSN")
      /\ Arrives("login_rsp", v, "status_class")
      /\ Arrives("login_rsp", v, "status_detail")
  BY login_rspLoadOf, login_rspFields, login_rspAlways, login_rspOwns, login_rspTidy, ArrivesPlain
<1>13. Arrives("login_rsp", v, "nsg")
  <2>1. /\ LoadOf("login_rsp", "nsg") = Bits("nsg", 1, 1, 4) /\ "nsg" \in Fields("login_rsp")
        /\ OnlyWith("login_rsp", "nsg", "transit") /\ Conditional("transit")
    BY login_rspLoadOf, login_rspFields, login_rspAlways DEF Conditional
  <2> QED BY ONLY <2>1, <1>5, Shaped("login_rsp", v), 1 \in Nat \ {0}, 4 \in Nat \ {0}, ArrivesBitsIf
<1>14. Arrives("login_rsp", v, "length")
  <2>1. /\ LoadOf("login_rsp", "length") = Word("length", 4, 4) /\ "length" \in Fields("login_rsp")
        /\ Always("login_rsp", "length")
    BY login_rspLoadOf, login_rspFields, login_rspAlways
  <2>2. v["AHSlength"] = <<0>> /\ Octet(v["length"], 4) = 0 /\ 5 \in {4, 5}
    BY <1>3, <1>4
  <2>3. Owns("login_rsp", Word("AHSlength", 4, 1), 5, 5) /\ Owns("login_rsp", Word("length", 5, 8 - 5), 6, 8)
    BY login_rspOwns
  <2> QED BY ONLY <2>1, <2>2, <2>3, Shaped("login_rsp", v), login_rspTidy, ArrivesLength
<1> QED BY <1>5, <1>6, <1>9, <1>10, <1>11, <1>12, <1>13, <1>14, login_rspFields, login_rspFormat DEF Fine

-----------------------------------------------------------------------------
(* logout_rsp *)

LEMMA logout_rspFormat ==
    /\ FormatOf["logout_rsp"].op = 38 /\ FormatOf["logout_rsp"].one = 128
    /\ FormatOf["logout_rsp"].zero = {3} \cup 4..15 \cup 20..23 \cup 36..39 \cup 44..47
    /\ FormatOf["logout_rsp"].zbits = {}
    /\ FormatOf["logout_rsp"].puts = <<
         Word("response", 2, 1), Word("length", 4, 4), Word("tag", 16, 4),
         Word("StatSN", 24, 4), Word("ExpCmdSN", 28, 4), Word("MaxCmdSN", 32, 4),
         Word("Time2Wait", 40, 2), Word("zero", 42, 2), Word("Time2Retain", 42, 2),
         Word("zero", 44, 2)>>
  BY DEF FormatOf, logout_rsp, Format, Length32, Tag, StatSNs, Times

LEMMA logout_rspSet ==
    Puts("logout_rsp") = {
         Word("response", 2, 1), Word("length", 4, 4), Word("tag", 16, 4),
         Word("StatSN", 24, 4), Word("ExpCmdSN", 28, 4), Word("MaxCmdSN", 32, 4),
         Word("Time2Wait", 40, 2), Word("zero", 42, 2), Word("Time2Retain", 42, 2),
         Word("zero", 44, 2)}
  BY logout_rspFormat DEF Puts, ToSet

LEMMA logout_rspTidy == Tidy("logout_rsp") /\ Len(FormatOf["logout_rsp"].puts) = 10
<1>1. Len(FormatOf["logout_rsp"].puts) = 10
  BY logout_rspFormat
<1>2. FormatOf["logout_rsp"].puts \in Seq(Puts("logout_rsp"))
  BY <1>1, logout_rspSet, logout_rspFormat
<1>3. \A q \in Puts("logout_rsp") : Placed(q)
  BY logout_rspSet, PlacedKinds
<1> QED BY <1>1, <1>2, <1>3, Zenon DEF Tidy

LEMMA logout_rspLoads ==
    Loads("logout_rsp") = {
         Word("response", 2, 1), Word("length", 4, 4), Word("tag", 16, 4),
         Word("StatSN", 24, 4), Word("ExpCmdSN", 28, 4), Word("MaxCmdSN", 32, 4),
         Word("Time2Wait", 40, 2), Word("Time2Retain", 42, 2)}
  BY DEF Loads, ToSet, FormatOf, logout_rsp, Format, Length32, Tag, StatSNs, Times

LEMMA logout_rspFields ==
    Fields("logout_rsp") = {
         "response", "length", "tag", "StatSN", "ExpCmdSN", "MaxCmdSN", "Time2Wait",
         "Time2Retain"}
  BY logout_rspLoads, Names DEF Fields

LEMMA logout_rspSound == SoundLoads("logout_rsp")
<1>1. Once("logout_rsp")
  BY logout_rspLoads, Names DEF Once
<1>2. \A g \in Loads("logout_rsp") : Sound("logout_rsp", g)
  BY logout_rspLoads, SoundWord
<1> QED BY <1>1, <1>2, logout_rspFields DEF SoundLoads

LEMMA logout_rspLoadOf ==
    /\ LoadOf("logout_rsp", "response") = Word("response", 2, 1)
    /\ LoadOf("logout_rsp", "length") = Word("length", 4, 4)
    /\ LoadOf("logout_rsp", "tag") = Word("tag", 16, 4)
    /\ LoadOf("logout_rsp", "StatSN") = Word("StatSN", 24, 4)
    /\ LoadOf("logout_rsp", "ExpCmdSN") = Word("ExpCmdSN", 28, 4)
    /\ LoadOf("logout_rsp", "MaxCmdSN") = Word("MaxCmdSN", 32, 4)
    /\ LoadOf("logout_rsp", "Time2Wait") = Word("Time2Wait", 40, 2)
    /\ LoadOf("logout_rsp", "Time2Retain") = Word("Time2Retain", 42, 2)
  BY logout_rspSound, logout_rspLoads, Names, LoadIs DEF SoundLoads

LEMMA logout_rspAlways ==
    ASSUME NEW f
    PROVE  Always("logout_rsp", f)
<1>1. \A q \in Puts("logout_rsp") : Free(q)
  BY logout_rspSet, FreeWord
<1> QED BY <1>1, Zenon DEF Always, Free

LEMMA logout_rspOwns ==
    /\ Owns("logout_rsp", Word("response", 2, 1), 3, 3)
    /\ Owns("logout_rsp", Word("length", 4, 4), 5, 8)
    /\ Owns("logout_rsp", Word("tag", 16, 4), 17, 20)
    /\ Owns("logout_rsp", Word("StatSN", 24, 4), 25, 28)
    /\ Owns("logout_rsp", Word("ExpCmdSN", 28, 4), 29, 32)
    /\ Owns("logout_rsp", Word("MaxCmdSN", 32, 4), 33, 36)
    /\ Owns("logout_rsp", Word("Time2Wait", 40, 2), 41, 42)
    /\ Owns("logout_rsp", Word("zero", 44, 2), 45, 46)
    /\ Owns("logout_rsp", Word("Time2Retain", 42, 2), 43, 44)
    /\ Spared("logout_rsp", 4, 4)
    /\ Spared("logout_rsp", 9, 16)
    /\ Spared("logout_rsp", 21, 24)
    /\ Spared("logout_rsp", 37, 40)
    /\ Spared("logout_rsp", 47, 48)
<1>1. Owns("logout_rsp", Word("response", 2, 1), 3, 3)
  BY logout_rspSet, WordSpares DEF Owns, Alone
<1>2. Owns("logout_rsp", Word("length", 4, 4), 5, 8)
  BY logout_rspSet, WordSpares DEF Owns, Alone
<1>3. Owns("logout_rsp", Word("tag", 16, 4), 17, 20)
  BY logout_rspSet, WordSpares DEF Owns, Alone
<1>4. Owns("logout_rsp", Word("StatSN", 24, 4), 25, 28)
  BY logout_rspSet, WordSpares DEF Owns, Alone
<1>5. Owns("logout_rsp", Word("ExpCmdSN", 28, 4), 29, 32)
  BY logout_rspSet, WordSpares DEF Owns, Alone
<1>6. Owns("logout_rsp", Word("MaxCmdSN", 32, 4), 33, 36)
  BY logout_rspSet, WordSpares DEF Owns, Alone
<1>7. Owns("logout_rsp", Word("Time2Wait", 40, 2), 41, 42)
  BY logout_rspSet, WordSpares DEF Owns, Alone
<1>8. Owns("logout_rsp", Word("zero", 44, 2), 45, 46)
  BY logout_rspSet, WordSpares DEF Owns, Alone
<1>9. Owns("logout_rsp", Word("Time2Retain", 42, 2), 43, 44)
  <2>1. \A j \in {10} : Spares(FormatOf["logout_rsp"].puts[j], 43, 44)
    <3>1. FormatOf["logout_rsp"].puts[10] = Word("zero", 44, 2)
      BY logout_rspFormat
    <3>2. Spares(Word("zero", 44, 2), 43, 44)
      BY WordSpares
    <3> QED BY <3>1, <3>2
  <2>2. /\ FormatOf["logout_rsp"].puts[9] = Word("Time2Retain", 42, 2) /\ 9 \in 1..10
        /\ 9 + 1..10 = {10}
    BY logout_rspFormat
  <2> QED BY <2>1, <2>2, logout_rspTidy, Zenon DEF Owns, FinalStore
<1>10. Spared("logout_rsp", 4, 4)
  BY logout_rspSet, WordSpares DEF Spared
<1>11. Spared("logout_rsp", 9, 16)
  BY logout_rspSet, WordSpares DEF Spared
<1>12. Spared("logout_rsp", 21, 24)
  BY logout_rspSet, WordSpares DEF Spared
<1>13. Spared("logout_rsp", 37, 40)
  BY logout_rspSet, WordSpares DEF Spared
<1>14. Spared("logout_rsp", 47, 48)
  BY logout_rspSet, WordSpares DEF Spared
<1> QED BY <1>1, <1>2, <1>3, <1>4, <1>5, <1>6, <1>7, <1>8, <1>9, <1>10, <1>11, <1>12, <1>13, <1>14

LEMMA logout_rspFirst ==
    ASSUME NEW v
    PROVE  /\ Stored("logout_rsp", v)[1] = 38
           /\ Stored("logout_rsp", v)[2] =
                128
<1>1. Spared("logout_rsp", 1, 2)
  BY logout_rspSet, WordSpares DEF Spared
<1>2. 1 \in 1..48 /\ 2 \in 1..48 /\ 1 \in 1..2 /\ 2 \in 1..2
  OBVIOUS
<1>3. LeftBlank("logout_rsp", v, 1, 2)
  BY ONLY <1>1, <1>2, logout_rspTidy, SparedStored
<1> QED BY <1>2, <1>3, logout_rspFormat DEF Blank, LeftBlank

LEMMA logout_rspGood == Good("logout_rsp")
<1> SUFFICES ASSUME NEW v, Shaped("logout_rsp", v) PROVE Fine("logout_rsp", v)
  BY DEF Good
<1>1. v["zero"] = <<0>>
  BY DEF Shaped
<1>2. v["length"] = <<0>>
  <2>1. Unset("logout_rsp", "length") /\ "length" \in Fields("logout_rsp")
    BY logout_rspFields DEF Unset, LeftZero
  <2> QED BY <2>1, UnsetZero
<1>3. Octet(v["length"], 4) = 0
  <2>1. "length" \in Fields("logout_rsp") /\ "logout_rsp" # "r2t"
    BY logout_rspFields
  <2> QED BY ONLY <2>1, Shaped("logout_rsp", v), LengthTop
<1>4. /\ Stored("logout_rsp", v)[1] \in 0..255
      /\ Stored("logout_rsp", v)[1] % 64 = 38
      /\ Stored("logout_rsp", v)[2] \in 0..255
  BY logout_rspFirst DEF Extracts
<1>5. Stored("logout_rsp", v) \in Header
  <2>1. HighWords("logout_rsp")
    BY logout_rspSet, HighWord DEF HighWords
  <2>2. PutFields("logout_rsp")
    <3>1. {"zero", "response", "length", "tag", "StatSN", "ExpCmdSN", "MaxCmdSN", "Time2Wait",
            "Time2Retain"}
          \subseteq Carried("logout_rsp")
      BY logout_rspFields DEF Carried
    <3>2. \A q \in Puts("logout_rsp") : Named(q, "logout_rsp")
      BY <3>1, logout_rspSet, NamedWord
    <3> QED BY <3>2 DEF PutFields
  <2> QED BY <2>1, <2>2, <1>4, logout_rspTidy, HeaderMade
<1>6. ZeroAt(Stored("logout_rsp", v), 4, 4)
  <2>1. Spared("logout_rsp", 4, 4)
    BY logout_rspOwns
  <2> QED BY ONLY <2>1, logout_rspTidy, 4 \in 3..48, 4 \in 3..48, SpareZero
<1>7. ZeroAt(Stored("logout_rsp", v), 9, 16)
  <2>1. Spared("logout_rsp", 9, 16)
    BY logout_rspOwns
  <2> QED BY ONLY <2>1, logout_rspTidy, 9 \in 3..48, 16 \in 3..48, SpareZero
<1>8. ZeroAt(Stored("logout_rsp", v), 21, 24)
  <2>1. Spared("logout_rsp", 21, 24)
    BY logout_rspOwns
  <2> QED BY ONLY <2>1, logout_rspTidy, 21 \in 3..48, 24 \in 3..48, SpareZero
<1>9. ZeroAt(Stored("logout_rsp", v), 37, 40)
  <2>1. Spared("logout_rsp", 37, 40)
    BY logout_rspOwns
  <2> QED BY ONLY <2>1, logout_rspTidy, 37 \in 3..48, 40 \in 3..48, SpareZero
<1>10. ZeroAt(Stored("logout_rsp", v), 47, 48)
  <2>1. Spared("logout_rsp", 47, 48)
    BY logout_rspOwns
  <2> QED BY ONLY <2>1, logout_rspTidy, 47 \in 3..48, 48 \in 3..48, SpareZero
<1>11. ZeroAt(Stored("logout_rsp", v), 5, 8)
  <2>1. Owns("logout_rsp", Word("length", 4, 4), 5, 8)
    BY logout_rspOwns
  <2>2. 4 \in 0..47 /\ 4 \in 1..16 /\ 5 \in 1..48 /\ 8 \in 1..48 /\ 4 + 1 <= 5 /\ 8 <= 4 + 4
    OBVIOUS
  <2> QED BY ONLY <2>1, <2>2, <1>2, logout_rspTidy, FieldZero
<1>12. ZeroAt(Stored("logout_rsp", v), 45, 46)
  <2>1. Owns("logout_rsp", Word("zero", 44, 2), 45, 46)
    BY logout_rspOwns
  <2>2. 44 \in 0..47 /\ 2 \in 1..16 /\ 45 \in 1..48 /\ 46 \in 1..48 /\ 44 + 1 <= 45 /\ 46 <= 44 + 2
    OBVIOUS
  <2> QED BY ONLY <2>1, <2>2, <1>1, logout_rspTidy, FieldZero
<1>13. ~Refused(FormatOf["logout_rsp"], Stored("logout_rsp", v))
  <2>1. ASSUME NEW k \in FormatOf["logout_rsp"].zero PROVE Stored("logout_rsp", v)[k + 1] = 0
    <3> DEFINE i == k + 1
    <3>1. i \in 4..4 \/ i \in 5..8 \/ i \in 9..16 \/ i \in 21..24 \/ i \in 37..40 \/ i \in 45..46 \/ i \in 47..48
      BY logout_rspFormat
    <3> HIDE DEF i
    <3>2. Stored("logout_rsp", v)[i] = 0
      BY <3>1, <1>6, <1>7, <1>8, <1>9, <1>10, <1>11, <1>12 DEF ZeroAt
    <3> QED BY <3>2 DEF i
  <2>2. \A b \in FormatOf["logout_rsp"].zbits : (Stored("logout_rsp", v)[b[1] + 1] \div b[2]) % b[3] = 0
    BY <1>4, logout_rspFormat DEF Extracts
  <2> QED BY <2>1, <2>2, Zenon DEF Refused
<1>14. /\ Arrives("logout_rsp", v, "response")
      /\ Arrives("logout_rsp", v, "length")
      /\ Arrives("logout_rsp", v, "tag")
      /\ Arrives("logout_rsp", v, "StatSN")
  BY logout_rspLoadOf, logout_rspFields, logout_rspAlways, logout_rspOwns, logout_rspTidy, ArrivesPlain
<1>15. /\ Arrives("logout_rsp", v, "ExpCmdSN")
      /\ Arrives("logout_rsp", v, "MaxCmdSN")
      /\ Arrives("logout_rsp", v, "Time2Wait")
      /\ Arrives("logout_rsp", v, "Time2Retain")
  BY logout_rspLoadOf, logout_rspFields, logout_rspAlways, logout_rspOwns, logout_rspTidy, ArrivesPlain
<1> QED BY <1>4, <1>5, <1>13, <1>14, <1>15, logout_rspFields, logout_rspFormat DEF Fine

-----------------------------------------------------------------------------
(* scsi_rsp *)

LEMMA scsi_rspFormat ==
    /\ FormatOf["scsi_rsp"].op = 33 /\ FormatOf["scsi_rsp"].one = 128
    /\ FormatOf["scsi_rsp"].zero = 40..43
    /\ FormatOf["scsi_rsp"].zbits = {<<1, 4, 8>>}
    /\ FormatOf["scsi_rsp"].puts = <<
         Flag("bidi_overflow", 1, 16), Flag("bidi_underflow", 1, 8), Flag("overflow", 1, 4),
         Flag("underflow", 1, 2), Word("response", 2, 1), Word("status", 3, 1),
         Word("length", 4, 4), Word("ahs_len", 4, 1), Word("tag", 16, 4),
         Word("StatSN", 24, 4), Word("ExpCmdSN", 28, 4), Word("MaxCmdSN", 32, 4),
         Word("ExpDataSN", 36, 4), Word("bidi_res_cnt", 40, 4), Word("basic_res_cnt", 44, 4)>>
  BY DEF FormatOf, scsi_rsp, Format, RspFlags, Length32, Tag, StatSNs, RspCounts

LEMMA scsi_rspSet ==
    Puts("scsi_rsp") = {
         Flag("bidi_overflow", 1, 16), Flag("bidi_underflow", 1, 8), Flag("overflow", 1, 4),
         Flag("underflow", 1, 2), Word("response", 2, 1), Word("status", 3, 1),
         Word("length", 4, 4), Word("ahs_len", 4, 1), Word("tag", 16, 4),
         Word("StatSN", 24, 4), Word("ExpCmdSN", 28, 4), Word("MaxCmdSN", 32, 4),
         Word("ExpDataSN", 36, 4), Word("bidi_res_cnt", 40, 4), Word("basic_res_cnt", 44, 4)}
  BY scsi_rspFormat DEF Puts, ToSet

LEMMA scsi_rspTidy == Tidy("scsi_rsp") /\ Len(FormatOf["scsi_rsp"].puts) = 15
<1>1. Len(FormatOf["scsi_rsp"].puts) = 15
  BY scsi_rspFormat
<1>2. FormatOf["scsi_rsp"].puts \in Seq(Puts("scsi_rsp"))
  BY <1>1, scsi_rspSet, scsi_rspFormat
<1>3. \A q \in Puts("scsi_rsp") : Placed(q)
  BY scsi_rspSet, PlacedKinds DEF Flag
<1> QED BY <1>1, <1>2, <1>3, Zenon DEF Tidy

LEMMA scsi_rspLoads ==
    Loads("scsi_rsp") = {
         Flag("bidi_overflow", 1, 16), Flag("bidi_underflow", 1, 8), Flag("overflow", 1, 4),
         Flag("underflow", 1, 2), Word("response", 2, 1), Word("status", 3, 1),
         Word("length", 4, 4), Word("ahs_len", 4, 1), Word("tag", 16, 4),
         Word("StatSN", 24, 4), Word("ExpCmdSN", 28, 4), Word("MaxCmdSN", 32, 4),
         Word("ExpDataSN", 36, 4), Word("bidi_res_cnt", 40, 4), Word("basic_res_cnt", 44, 4)}
  BY DEF Loads, ToSet, FormatOf, scsi_rsp, Format, RspFlags, Length32, Tag, StatSNs, RspCounts

LEMMA scsi_rspFields ==
    Fields("scsi_rsp") = {
         "bidi_overflow", "bidi_underflow", "overflow", "underflow", "response", "status",
         "length", "ahs_len", "tag", "StatSN", "ExpCmdSN", "MaxCmdSN", "ExpDataSN",
         "bidi_res_cnt", "basic_res_cnt"}
  BY scsi_rspLoads, Names DEF Fields

LEMMA scsi_rspSound == SoundLoads("scsi_rsp")
<1>1. Once("scsi_rsp")
  BY scsi_rspLoads, Names DEF Once
<1>2. \A g \in Loads("scsi_rsp") : Sound("scsi_rsp", g)
  BY scsi_rspLoads, SoundWord, SoundBits DEF Flag
<1> QED BY <1>1, <1>2, scsi_rspFields DEF SoundLoads

LEMMA scsi_rspLoadOf ==
    /\ LoadOf("scsi_rsp", "bidi_overflow") = Bits("bidi_overflow", 1, 16, 2)
    /\ LoadOf("scsi_rsp", "bidi_underflow") = Bits("bidi_underflow", 1, 8, 2)
    /\ LoadOf("scsi_rsp", "overflow") = Bits("overflow", 1, 4, 2)
    /\ LoadOf("scsi_rsp", "underflow") = Bits("underflow", 1, 2, 2)
    /\ LoadOf("scsi_rsp", "response") = Word("response", 2, 1)
    /\ LoadOf("scsi_rsp", "status") = Word("status", 3, 1)
    /\ LoadOf("scsi_rsp", "length") = Word("length", 4, 4)
    /\ LoadOf("scsi_rsp", "ahs_len") = Word("ahs_len", 4, 1)
    /\ LoadOf("scsi_rsp", "tag") = Word("tag", 16, 4)
    /\ LoadOf("scsi_rsp", "StatSN") = Word("StatSN", 24, 4)
    /\ LoadOf("scsi_rsp", "ExpCmdSN") = Word("ExpCmdSN", 28, 4)
    /\ LoadOf("scsi_rsp", "MaxCmdSN") = Word("MaxCmdSN", 32, 4)
    /\ LoadOf("scsi_rsp", "ExpDataSN") = Word("ExpDataSN", 36, 4)
    /\ LoadOf("scsi_rsp", "bidi_res_cnt") = Word("bidi_res_cnt", 40, 4)
    /\ LoadOf("scsi_rsp", "basic_res_cnt") = Word("basic_res_cnt", 44, 4)
  BY scsi_rspSound, scsi_rspLoads, Names, LoadIs DEF SoundLoads, Flag

LEMMA scsi_rspAlways ==
    ASSUME NEW f
    PROVE  Always("scsi_rsp", f)
<1>1. \A q \in Puts("scsi_rsp") : Free(q)
  BY scsi_rspSet, FreeWord, FreeBits DEF Flag
<1> QED BY <1>1, Zenon DEF Always, Free

LEMMA scsi_rspOwns ==
    /\ Owns("scsi_rsp", Word("response", 2, 1), 3, 3)
    /\ Owns("scsi_rsp", Word("status", 3, 1), 4, 4)
    /\ Owns("scsi_rsp", Word("length", 4, 4), 6, 8)
    /\ Owns("scsi_rsp", Word("tag", 16, 4), 17, 20)
    /\ Owns("scsi_rsp", Word("StatSN", 24, 4), 25, 28)
    /\ Owns("scsi_rsp", Word("ExpCmdSN", 28, 4), 29, 32)
    /\ Owns("scsi_rsp", Word("MaxCmdSN", 32, 4), 33, 36)
    /\ Owns("scsi_rsp", Word("ExpDataSN", 36, 4), 37, 40)
    /\ Owns("scsi_rsp", Word("bidi_res_cnt", 40, 4), 41, 44)
    /\ Owns("scsi_rsp", Word("basic_res_cnt", 44, 4), 45, 48)
    /\ Owns("scsi_rsp", Word("ahs_len", 4, 1), 5, 5)
    /\ Spared("scsi_rsp", 9, 16)
    /\ Spared("scsi_rsp", 21, 24)
<1>1. Owns("scsi_rsp", Word("response", 2, 1), 3, 3)
  BY scsi_rspSet, WordSpares, BitsSpare DEF Owns, Alone, Flag
<1>2. Owns("scsi_rsp", Word("status", 3, 1), 4, 4)
  BY scsi_rspSet, WordSpares, BitsSpare DEF Owns, Alone, Flag
<1>3. Owns("scsi_rsp", Word("length", 4, 4), 6, 8)
  BY scsi_rspSet, WordSpares, BitsSpare DEF Owns, Alone, Flag
<1>4. Owns("scsi_rsp", Word("tag", 16, 4), 17, 20)
  BY scsi_rspSet, WordSpares, BitsSpare DEF Owns, Alone, Flag
<1>5. Owns("scsi_rsp", Word("StatSN", 24, 4), 25, 28)
  BY scsi_rspSet, WordSpares, BitsSpare DEF Owns, Alone, Flag
<1>6. Owns("scsi_rsp", Word("ExpCmdSN", 28, 4), 29, 32)
  BY scsi_rspSet, WordSpares, BitsSpare DEF Owns, Alone, Flag
<1>7. Owns("scsi_rsp", Word("MaxCmdSN", 32, 4), 33, 36)
  BY scsi_rspSet, WordSpares, BitsSpare DEF Owns, Alone, Flag
<1>8. Owns("scsi_rsp", Word("ExpDataSN", 36, 4), 37, 40)
  BY scsi_rspSet, WordSpares, BitsSpare DEF Owns, Alone, Flag
<1>9. Owns("scsi_rsp", Word("bidi_res_cnt", 40, 4), 41, 44)
  BY scsi_rspSet, WordSpares, BitsSpare DEF Owns, Alone, Flag
<1>10. Owns("scsi_rsp", Word("basic_res_cnt", 44, 4), 45, 48)
  BY scsi_rspSet, WordSpares, BitsSpare DEF Owns, Alone, Flag
<1>11. Owns("scsi_rsp", Word("ahs_len", 4, 1), 5, 5)
  <2>1. \A j \in {9, 10, 11, 12, 13, 14, 15} : Spares(FormatOf["scsi_rsp"].puts[j], 5, 5)
    <3>1. /\ FormatOf["scsi_rsp"].puts[9] = Word("tag", 16, 4)
          /\ FormatOf["scsi_rsp"].puts[10] = Word("StatSN", 24, 4)
          /\ FormatOf["scsi_rsp"].puts[11] = Word("ExpCmdSN", 28, 4)
          /\ FormatOf["scsi_rsp"].puts[12] = Word("MaxCmdSN", 32, 4)
          /\ FormatOf["scsi_rsp"].puts[13] = Word("ExpDataSN", 36, 4)
          /\ FormatOf["scsi_rsp"].puts[14] = Word("bidi_res_cnt", 40, 4)
          /\ FormatOf["scsi_rsp"].puts[15] = Word("basic_res_cnt", 44, 4)
      BY scsi_rspFormat
    <3>2. /\ Spares(Word("tag", 16, 4), 5, 5)
          /\ Spares(Word("StatSN", 24, 4), 5, 5)
          /\ Spares(Word("ExpCmdSN", 28, 4), 5, 5)
          /\ Spares(Word("MaxCmdSN", 32, 4), 5, 5)
          /\ Spares(Word("ExpDataSN", 36, 4), 5, 5)
          /\ Spares(Word("bidi_res_cnt", 40, 4), 5, 5)
          /\ Spares(Word("basic_res_cnt", 44, 4), 5, 5)
      BY WordSpares
    <3> QED BY <3>1, <3>2
  <2>2. /\ FormatOf["scsi_rsp"].puts[8] = Word("ahs_len", 4, 1) /\ 8 \in 1..15
        /\ 8 + 1..15 = {9, 10, 11, 12, 13, 14, 15}
    BY scsi_rspFormat
  <2> QED BY <2>1, <2>2, scsi_rspTidy, Zenon DEF Owns, FinalStore
<1>12. Spared("scsi_rsp", 9, 16)
  BY scsi_rspSet, WordSpares, BitsSpare DEF Spared, Flag
<1>13. Spared("scsi_rsp", 21, 24)
  BY scsi_rspSet, WordSpares, BitsSpare DEF Spared, Flag
<1> QED BY <1>1, <1>2, <1>3, <1>4, <1>5, <1>6, <1>7, <1>8, <1>9, <1>10, <1>11, <1>12, <1>13

LEMMA scsi_rspFirst ==
    ASSUME NEW v
    PROVE  /\ Stored("scsi_rsp", v)[1] = 33
           /\ Stored("scsi_rsp", v)[2] =
                128 + (Octet(v["bidi_overflow"], 1) % 2) * 16 + (Octet(v["bidi_underflow"], 1) % 2) * 8
                + (Octet(v["overflow"], 1) % 2) * 4 + (Octet(v["underflow"], 1) % 2) * 2
<1>1. \A j \in {5, 6, 7, 8, 9, 10, 11, 12, 13, 14, 15} : Spares(FormatOf["scsi_rsp"].puts[j], 1, 2)
  BY scsi_rspFormat, WordSpares, WordIfSpares
<1>2. BitsFirst("scsi_rsp", 4)
  <2>1. 4 + 1..15 = {5, 6, 7, 8, 9, 10, 11, 12, 13, 14, 15}
    OBVIOUS
  <2> QED BY <1>1, <2>1, scsi_rspTidy DEF BitsFirst
<1>3. PICK g : /\ g[0] = Blank("scsi_rsp")
                /\ \A k \in 1..4 : Step(g, k - 1, k, FormatOf["scsi_rsp"].puts[k], v)
                /\ Stored("scsi_rsp", v)[1] = g[4][1] /\ Stored("scsi_rsp", v)[2] = g[4][2]
  BY <1>2, scsi_rspTidy, FirstStores
<1>4. /\ Step(g, 0, 1, Bits("bidi_overflow", 1, 16, 2), v)
      /\ Step(g, 1, 2, Bits("bidi_underflow", 1, 8, 2), v)
      /\ Step(g, 2, 3, Bits("overflow", 1, 4, 2), v)
      /\ Step(g, 3, 4, Bits("underflow", 1, 2, 2), v)
  <2>1. /\ Step(g, 1 - 1, 1, FormatOf["scsi_rsp"].puts[1], v)
        /\ Step(g, 2 - 1, 2, FormatOf["scsi_rsp"].puts[2], v)
        /\ Step(g, 3 - 1, 3, FormatOf["scsi_rsp"].puts[3], v)
        /\ Step(g, 4 - 1, 4, FormatOf["scsi_rsp"].puts[4], v)
    BY <1>3
  <2> QED BY <2>1, scsi_rspFormat DEF Flag
<1>5. g[0][1] = 33 /\ g[0][2] = 128
  BY <1>3, scsi_rspFormat DEF Blank
<1>6. /\ g[1][2] = g[0][2] + (Octet(v["bidi_overflow"], 1) % 2) * 16 /\ g[1][1] = g[0][1]
      /\ g[2][2] = g[1][2] + (Octet(v["bidi_underflow"], 1) % 2) * 8 /\ g[2][1] = g[1][1]
      /\ g[3][2] = g[2][2] + (Octet(v["overflow"], 1) % 2) * 4 /\ g[3][1] = g[2][1]
      /\ g[4][2] = g[3][2] + (Octet(v["underflow"], 1) % 2) * 2 /\ g[4][1] = g[3][1]
  BY <1>4, BitsStep1, BitsStep2
<1> QED BY <1>3, <1>5, <1>6

LEMMA scsi_rspGood == Good("scsi_rsp")
<1> SUFFICES ASSUME NEW v, Shaped("scsi_rsp", v) PROVE Fine("scsi_rsp", v)
  BY DEF Good
<1>1. v["zero"] = <<0>>
  BY DEF Shaped
<1>2. /\ v["bidi_overflow"] = <<v["bidi_overflow"][1]>> /\ v["bidi_overflow"][1] \in 0..1
      /\ Octet(v["bidi_overflow"], 1) = v["bidi_overflow"][1]
      /\ v["bidi_underflow"] = <<v["bidi_underflow"][1]>> /\ v["bidi_underflow"][1] \in 0..1
      /\ Octet(v["bidi_underflow"], 1) = v["bidi_underflow"][1]
      /\ v["overflow"] = <<v["overflow"][1]>> /\ v["overflow"][1] \in 0..1
      /\ Octet(v["overflow"], 1) = v["overflow"][1]
      /\ v["underflow"] = <<v["underflow"][1]>> /\ v["underflow"][1] \in 0..1
      /\ Octet(v["underflow"], 1) = v["underflow"][1]
  <2>1. /\ Fits("scsi_rsp", Bits("bidi_overflow", 1, 16, 2), v["bidi_overflow"])
        /\ Fits("scsi_rsp", Bits("bidi_underflow", 1, 8, 2), v["bidi_underflow"])
        /\ Fits("scsi_rsp", Bits("overflow", 1, 4, 2), v["overflow"])
        /\ Fits("scsi_rsp", Bits("underflow", 1, 2, 2), v["underflow"])
    BY scsi_rspLoadOf, scsi_rspFields DEF Shaped
  <2> QED BY <2>1, BitsFit
<1>3. /\ v["ahs_len"] = <<0>>
      /\ v["bidi_overflow"] = <<0>>
      /\ v["bidi_underflow"] = <<0>>
      /\ v["overflow"] = <<0>>
      /\ v["bidi_res_cnt"] = <<0>>
  <2>1. /\ Unset("scsi_rsp", "ahs_len") /\ "ahs_len" \in Fields("scsi_rsp")
        /\ Unset("scsi_rsp", "bidi_overflow") /\ "bidi_overflow" \in Fields("scsi_rsp")
        /\ Unset("scsi_rsp", "bidi_underflow") /\ "bidi_underflow" \in Fields("scsi_rsp")
        /\ Unset("scsi_rsp", "overflow") /\ "overflow" \in Fields("scsi_rsp")
        /\ Unset("scsi_rsp", "bidi_res_cnt") /\ "bidi_res_cnt" \in Fields("scsi_rsp")
    BY scsi_rspFields DEF Unset, LeftZero
  <2> QED BY <2>1, UnsetZero
<1>4. Octet(v["length"], 4) = 0
  <2>1. "length" \in Fields("scsi_rsp") /\ "scsi_rsp" # "r2t"
    BY scsi_rspFields
  <2> QED BY ONLY <2>1, Shaped("scsi_rsp", v), LengthTop
<1>5. /\ Stored("scsi_rsp", v)[1] \in 0..255
      /\ Stored("scsi_rsp", v)[1] % 64 = 33
      /\ Stored("scsi_rsp", v)[2] \in 0..255
      /\ Extracts(Stored("scsi_rsp", v), 1, 4, 8, 0)
      /\ Extracts(Stored("scsi_rsp", v), 1, 16, 2, v["bidi_overflow"][1])
      /\ Extracts(Stored("scsi_rsp", v), 1, 8, 2, v["bidi_underflow"][1])
      /\ Extracts(Stored("scsi_rsp", v), 1, 4, 2, v["overflow"][1])
      /\ Extracts(Stored("scsi_rsp", v), 1, 2, 2, v["underflow"][1])
  <2>1. Stored("scsi_rsp", v)[1] =
          33
    BY <1>2, scsi_rspFirst
  <2>2. Stored("scsi_rsp", v)[2] =
          128 + v["bidi_overflow"][1] * 16 + v["bidi_underflow"][1] * 8 + v["overflow"][1] * 4
            + v["underflow"][1] * 2
    BY <1>2, scsi_rspFirst
  <2>3. Stored("scsi_rsp", v)[1] \in 0..255
    BY <2>1, <2>2, <1>2, <1>3
  <2>4. Stored("scsi_rsp", v)[1] % 64 = 33
    BY <2>1, <2>2, <1>2, <1>3
  <2>5. Stored("scsi_rsp", v)[2] \in 0..255
    BY <2>1, <2>2, <1>2, <1>3
  <2>6. Extracts(Stored("scsi_rsp", v), 1, 4, 8, 0)
    BY <2>1, <2>2, <1>2, <1>3 DEF Extracts
  <2>7. Extracts(Stored("scsi_rsp", v), 1, 16, 2, v["bidi_overflow"][1])
    BY <2>1, <2>2, <1>2, <1>3 DEF Extracts
  <2>8. Extracts(Stored("scsi_rsp", v), 1, 8, 2, v["bidi_underflow"][1])
    BY <2>1, <2>2, <1>2, <1>3 DEF Extracts
  <2>9. Extracts(Stored("scsi_rsp", v), 1, 4, 2, v["overflow"][1])
    BY <2>1, <2>2, <1>2, <1>3 DEF Extracts
  <2>10. Extracts(Stored("scsi_rsp", v), 1, 2, 2, v["underflow"][1])
    BY <2>1, <2>2, <1>2, <1>3 DEF Extracts
  <2> QED BY <2>3, <2>4, <2>5, <2>6, <2>7, <2>8, <2>9, <2>10
<1>6. Stored("scsi_rsp", v) \in Header
  <2>1. HighWords("scsi_rsp")
    BY scsi_rspSet, HighWord, HighBits DEF HighWords, Flag
  <2>2. PutFields("scsi_rsp")
    <3>1. {"zero", "bidi_overflow", "bidi_underflow", "overflow", "underflow", "response", "status",
            "length", "ahs_len", "tag", "StatSN", "ExpCmdSN", "MaxCmdSN", "ExpDataSN",
            "bidi_res_cnt", "basic_res_cnt"}
          \subseteq Carried("scsi_rsp")
      BY scsi_rspFields DEF Carried
    <3>2. \A q \in Puts("scsi_rsp") : Named(q, "scsi_rsp")
      BY <3>1, scsi_rspSet, NamedWord, NamedBits DEF Flag
    <3> QED BY <3>2 DEF PutFields
  <2> QED BY <2>1, <2>2, <1>5, scsi_rspTidy, HeaderMade
<1>7. ZeroAt(Stored("scsi_rsp", v), 41, 44)
  <2>1. Owns("scsi_rsp", Word("bidi_res_cnt", 40, 4), 41, 44)
    BY scsi_rspOwns
  <2>2. 40 \in 0..47 /\ 4 \in 1..16 /\ 41 \in 1..48 /\ 44 \in 1..48 /\ 40 + 1 <= 41 /\ 44 <= 40 + 4
    OBVIOUS
  <2> QED BY ONLY <2>1, <2>2, <1>3, scsi_rspTidy, FieldZero
<1>8. ~Refused(FormatOf["scsi_rsp"], Stored("scsi_rsp", v))
  <2>1. ASSUME NEW k \in FormatOf["scsi_rsp"].zero PROVE Stored("scsi_rsp", v)[k + 1] = 0
    <3> DEFINE i == k + 1
    <3>1. i \in 41..44
      BY scsi_rspFormat
    <3> HIDE DEF i
    <3>2. Stored("scsi_rsp", v)[i] = 0
      BY <3>1, <1>7 DEF ZeroAt
    <3> QED BY <3>2 DEF i
  <2>2. \A b \in FormatOf["scsi_rsp"].zbits : (Stored("scsi_rsp", v)[b[1] + 1] \div b[2]) % b[3] = 0
    BY <1>5, scsi_rspFormat DEF Extracts
  <2> QED BY <2>1, <2>2, Zenon DEF Refused
<1>9. /\ Arrives("scsi_rsp", v, "bidi_overflow")
      /\ Arrives("scsi_rsp", v, "bidi_underflow")
      /\ Arrives("scsi_rsp", v, "overflow")
      /\ Arrives("scsi_rsp", v, "underflow")
  BY <1>5, scsi_rspLoadOf, scsi_rspFields, scsi_rspAlways, ArrivesBits
<1>10. /\ Arrives("scsi_rsp", v, "response")
      /\ Arrives("scsi_rsp", v, "status")
      /\ Arrives("scsi_rsp", v, "ahs_len")
      /\ Arrives("scsi_rsp", v, "tag")
      /\ Arrives("scsi_rsp", v, "StatSN")
  BY scsi_rspLoadOf, scsi_rspFields, scsi_rspAlways, scsi_rspOwns, scsi_rspTidy, ArrivesPlain
<1>11. /\ Arrives("scsi_rsp", v, "ExpCmdSN")
      /\ Arrives("scsi_rsp", v, "MaxCmdSN")
      /\ Arrives("scsi_rsp", v, "ExpDataSN")
      /\ Arrives("scsi_rsp", v, "bidi_res_cnt")
      /\ Arrives("scsi_rsp", v, "basic_res_cnt")
  BY scsi_rspLoadOf, scsi_rspFields, scsi_rspAlways, scsi_rspOwns, scsi_rspTidy, ArrivesPlain
<1>12. Arrives("scsi_rsp", v, "length")
  <2>1. /\ LoadOf("scsi_rsp", "length") = Word("length", 4, 4) /\ "length" \in Fields("scsi_rsp")
        /\ Always("scsi_rsp", "length")
    BY scsi_rspLoadOf, scsi_rspFields, scsi_rspAlways
  <2>2. v["ahs_len"] = <<0>> /\ Octet(v["length"], 4) = 0 /\ 4 \in {4, 5}
    BY <1>3, <1>4
  <2>3. Owns("scsi_rsp", Word("ahs_len", 4, 1), 5, 5) /\ Owns("scsi_rsp", Word("length", 4, 8 - 4), 6, 8)
    BY scsi_rspOwns
  <2> QED BY ONLY <2>1, <2>2, <2>3, Shaped("scsi_rsp", v), scsi_rspTidy, ArrivesLength
<1> QED BY <1>5, <1>6, <1>8, <1>9, <1>10, <1>11, <1>12, scsi_rspFields, scsi_rspFormat DEF Fine

-----------------------------------------------------------------------------
(* r2t *)

LEMMA r2tFormat ==
    /\ FormatOf["r2t"].op = 49 /\ FormatOf["r2t"].one = 128
    /\ FormatOf["r2t"].zero = 2..15
    /\ FormatOf["r2t"].zbits = {<<1, 1, 128>>}
    /\ FormatOf["r2t"].puts = <<
         Word("zero", 4, 1), Word("AHSlength", 5, 3), Word("lun", 9, 1), Word("tag", 16, 4),
         Word("transfer_tag", 20, 4), Word("StatSN", 24, 4), Word("ExpCmdSN", 28, 4),
         Word("MaxCmdSN", 32, 4), Word("R2TSN", 36, 4), Word("offset", 40, 4),
         Word("length", 44, 4)>>
  BY DEF FormatOf, r2t, Format, Lun, Tags, Tag, StatSNs, Low7

LEMMA r2tSet ==
    Puts("r2t") = {
         Word("zero", 4, 1), Word("AHSlength", 5, 3), Word("lun", 9, 1), Word("tag", 16, 4),
         Word("transfer_tag", 20, 4), Word("StatSN", 24, 4), Word("ExpCmdSN", 28, 4),
         Word("MaxCmdSN", 32, 4), Word("R2TSN", 36, 4), Word("offset", 40, 4),
         Word("length", 44, 4)}
  BY r2tFormat DEF Puts, ToSet

LEMMA r2tTidy == Tidy("r2t") /\ Len(FormatOf["r2t"].puts) = 11
<1>1. Len(FormatOf["r2t"].puts) = 11
  BY r2tFormat
<1>2. FormatOf["r2t"].puts \in Seq(Puts("r2t"))
  BY <1>1, r2tSet, r2tFormat
<1>3. \A q \in Puts("r2t") : Placed(q)
  BY r2tSet, PlacedKinds
<1> QED BY <1>1, <1>2, <1>3, Zenon DEF Tidy

LEMMA r2tLoads ==
    Loads("r2t") = {
         Word("AHSlength", 4, 4), Word("lun", 9, 1), Word("tag", 16, 4),
         Word("transfer_tag", 20, 4), Word("StatSN", 24, 4), Word("ExpCmdSN", 28, 4),
         Word("MaxCmdSN", 32, 4), Word("R2TSN", 36, 4), Word("offset", 40, 4),
         Word("length", 44, 4)}
  BY DEF Loads, ToSet, FormatOf, r2t, Format, Lun, Tags, Tag, StatSNs, Low7

LEMMA r2tFields ==
    Fields("r2t") = {
         "AHSlength", "lun", "tag", "transfer_tag", "StatSN", "ExpCmdSN", "MaxCmdSN", "R2TSN",
         "offset", "length"}
  BY r2tLoads, Names DEF Fields

LEMMA r2tSound == SoundLoads("r2t")
<1>1. Once("r2t")
  BY r2tLoads, Names DEF Once
<1>2. \A g \in Loads("r2t") : Sound("r2t", g)
  BY r2tLoads, SoundWord
<1> QED BY <1>1, <1>2, r2tFields DEF SoundLoads

LEMMA r2tLoadOf ==
    /\ LoadOf("r2t", "AHSlength") = Word("AHSlength", 4, 4)
    /\ LoadOf("r2t", "lun") = Word("lun", 9, 1)
    /\ LoadOf("r2t", "tag") = Word("tag", 16, 4)
    /\ LoadOf("r2t", "transfer_tag") = Word("transfer_tag", 20, 4)
    /\ LoadOf("r2t", "StatSN") = Word("StatSN", 24, 4)
    /\ LoadOf("r2t", "ExpCmdSN") = Word("ExpCmdSN", 28, 4)
    /\ LoadOf("r2t", "MaxCmdSN") = Word("MaxCmdSN", 32, 4)
    /\ LoadOf("r2t", "R2TSN") = Word("R2TSN", 36, 4)
    /\ LoadOf("r2t", "offset") = Word("offset", 40, 4)
    /\ LoadOf("r2t", "length") = Word("length", 44, 4)
  BY r2tSound, r2tLoads, Names, LoadIs DEF SoundLoads

LEMMA r2tAlways ==
    ASSUME NEW f
    PROVE  Always("r2t", f)
<1>1. \A q \in Puts("r2t") : Free(q)
  BY r2tSet, FreeWord
<1> QED BY <1>1, Zenon DEF Always, Free

LEMMA r2tOwns ==
    /\ Owns("r2t", Word("zero", 4, 1), 5, 5)
    /\ Owns("r2t", Word("AHSlength", 5, 3), 6, 8)
    /\ Owns("r2t", Word("lun", 9, 1), 10, 10)
    /\ Owns("r2t", Word("tag", 16, 4), 17, 20)
    /\ Owns("r2t", Word("transfer_tag", 20, 4), 21, 24)
    /\ Owns("r2t", Word("StatSN", 24, 4), 25, 28)
    /\ Owns("r2t", Word("ExpCmdSN", 28, 4), 29, 32)
    /\ Owns("r2t", Word("MaxCmdSN", 32, 4), 33, 36)
    /\ Owns("r2t", Word("R2TSN", 36, 4), 37, 40)
    /\ Owns("r2t", Word("offset", 40, 4), 41, 44)
    /\ Owns("r2t", Word("length", 44, 4), 45, 48)
    /\ Spared("r2t", 3, 4)
    /\ Spared("r2t", 9, 9)
    /\ Spared("r2t", 11, 16)
<1>1. Owns("r2t", Word("zero", 4, 1), 5, 5)
  BY r2tSet, WordSpares DEF Owns, Alone
<1>2. Owns("r2t", Word("AHSlength", 5, 3), 6, 8)
  BY r2tSet, WordSpares DEF Owns, Alone
<1>3. Owns("r2t", Word("lun", 9, 1), 10, 10)
  BY r2tSet, WordSpares DEF Owns, Alone
<1>4. Owns("r2t", Word("tag", 16, 4), 17, 20)
  BY r2tSet, WordSpares DEF Owns, Alone
<1>5. Owns("r2t", Word("transfer_tag", 20, 4), 21, 24)
  BY r2tSet, WordSpares DEF Owns, Alone
<1>6. Owns("r2t", Word("StatSN", 24, 4), 25, 28)
  BY r2tSet, WordSpares DEF Owns, Alone
<1>7. Owns("r2t", Word("ExpCmdSN", 28, 4), 29, 32)
  BY r2tSet, WordSpares DEF Owns, Alone
<1>8. Owns("r2t", Word("MaxCmdSN", 32, 4), 33, 36)
  BY r2tSet, WordSpares DEF Owns, Alone
<1>9. Owns("r2t", Word("R2TSN", 36, 4), 37, 40)
  BY r2tSet, WordSpares DEF Owns, Alone
<1>10. Owns("r2t", Word("offset", 40, 4), 41, 44)
  BY r2tSet, WordSpares DEF Owns, Alone
<1>11. Owns("r2t", Word("length", 44, 4), 45, 48)
  BY r2tSet, WordSpares DEF Owns, Alone
<1>12. Spared("r2t", 3, 4)
  BY r2tSet, WordSpares DEF Spared
<1>13. Spared("r2t", 9, 9)
  BY r2tSet, WordSpares DEF Spared
<1>14. Spared("r2t", 11, 16)
  BY r2tSet, WordSpares DEF Spared
<1> QED BY <1>1, <1>2, <1>3, <1>4, <1>5, <1>6, <1>7, <1>8, <1>9, <1>10, <1>11, <1>12, <1>13, <1>14

LEMMA r2tFirst ==
    ASSUME NEW v
    PROVE  /\ Stored("r2t", v)[1] = 49
           /\ Stored("r2t", v)[2] =
                128
<1>1. Spared("r2t", 1, 2)
  BY r2tSet, WordSpares DEF Spared
<1>2. 1 \in 1..48 /\ 2 \in 1..48 /\ 1 \in 1..2 /\ 2 \in 1..2
  OBVIOUS
<1>3. LeftBlank("r2t", v, 1, 2)
  BY ONLY <1>1, <1>2, r2tTidy, SparedStored
<1> QED BY <1>2, <1>3, r2tFormat DEF Blank, LeftBlank

LEMMA r2tGood == Good("r2t")
<1> SUFFICES ASSUME NEW v, Shaped("r2t", v) PROVE Fine("r2t", v)
  BY DEF Good
<1>1. v["zero"] = <<0>>
  BY DEF Shaped
<1>2. /\ v["lun"] = <<0>>
      /\ v["AHSlength"] = <<0>>
  <2>1. /\ Unset("r2t", "lun") /\ "lun" \in Fields("r2t")
        /\ Unset("r2t", "AHSlength") /\ "AHSlength" \in Fields("r2t")
    BY r2tFields DEF Unset, LeftZero
  <2> QED BY <2>1, UnsetZero
<1>3. /\ Stored("r2t", v)[1] \in 0..255
      /\ Stored("r2t", v)[1] % 64 = 49
      /\ Stored("r2t", v)[2] \in 0..255
      /\ Extracts(Stored("r2t", v), 1, 1, 128, 0)
  BY r2tFirst DEF Extracts
<1>4. Stored("r2t", v) \in Header
  <2>1. HighWords("r2t")
    BY r2tSet, HighWord DEF HighWords
  <2>2. PutFields("r2t")
    <3>1. {"zero", "AHSlength", "lun", "tag", "transfer_tag", "StatSN", "ExpCmdSN", "MaxCmdSN",
            "R2TSN", "offset", "length"}
          \subseteq Carried("r2t")
      BY r2tFields DEF Carried
    <3>2. \A q \in Puts("r2t") : Named(q, "r2t")
      BY <3>1, r2tSet, NamedWord
    <3> QED BY <3>2 DEF PutFields
  <2> QED BY <2>1, <2>2, <1>3, r2tTidy, HeaderMade
<1>5. ZeroAt(Stored("r2t", v), 3, 4)
  <2>1. Spared("r2t", 3, 4)
    BY r2tOwns
  <2> QED BY ONLY <2>1, r2tTidy, 3 \in 3..48, 4 \in 3..48, SpareZero
<1>6. ZeroAt(Stored("r2t", v), 9, 9)
  <2>1. Spared("r2t", 9, 9)
    BY r2tOwns
  <2> QED BY ONLY <2>1, r2tTidy, 9 \in 3..48, 9 \in 3..48, SpareZero
<1>7. ZeroAt(Stored("r2t", v), 11, 16)
  <2>1. Spared("r2t", 11, 16)
    BY r2tOwns
  <2> QED BY ONLY <2>1, r2tTidy, 11 \in 3..48, 16 \in 3..48, SpareZero
<1>8. ZeroAt(Stored("r2t", v), 5, 5)
  <2>1. Owns("r2t", Word("zero", 4, 1), 5, 5)
    BY r2tOwns
  <2>2. 4 \in 0..47 /\ 1 \in 1..16 /\ 5 \in 1..48 /\ 5 \in 1..48 /\ 4 + 1 <= 5 /\ 5 <= 4 + 1
    OBVIOUS
  <2> QED BY ONLY <2>1, <2>2, <1>1, r2tTidy, FieldZero
<1>9. ZeroAt(Stored("r2t", v), 6, 8)
  <2>1. Owns("r2t", Word("AHSlength", 5, 3), 6, 8)
    BY r2tOwns
  <2>2. 5 \in 0..47 /\ 3 \in 1..16 /\ 6 \in 1..48 /\ 8 \in 1..48 /\ 5 + 1 <= 6 /\ 8 <= 5 + 3
    OBVIOUS
  <2> QED BY ONLY <2>1, <2>2, <1>2, r2tTidy, FieldZero
<1>10. ZeroAt(Stored("r2t", v), 10, 10)
  <2>1. Owns("r2t", Word("lun", 9, 1), 10, 10)
    BY r2tOwns
  <2>2. 9 \in 0..47 /\ 1 \in 1..16 /\ 10 \in 1..48 /\ 10 \in 1..48 /\ 9 + 1 <= 10 /\ 10 <= 9 + 1
    OBVIOUS
  <2> QED BY ONLY <2>1, <2>2, <1>2, r2tTidy, FieldZero
<1>11. ~Refused(FormatOf["r2t"], Stored("r2t", v))
  <2>1. ASSUME NEW k \in FormatOf["r2t"].zero PROVE Stored("r2t", v)[k + 1] = 0
    <3> DEFINE i == k + 1
    <3>1. i \in 3..4 \/ i \in 5..5 \/ i \in 6..8 \/ i \in 9..9 \/ i \in 10..10 \/ i \in 11..16
      BY r2tFormat
    <3> HIDE DEF i
    <3>2. Stored("r2t", v)[i] = 0
      BY <3>1, <1>5, <1>6, <1>7, <1>8, <1>9, <1>10 DEF ZeroAt
    <3> QED BY <3>2 DEF i
  <2>2. \A b \in FormatOf["r2t"].zbits : (Stored("r2t", v)[b[1] + 1] \div b[2]) % b[3] = 0
    BY <1>3, r2tFormat DEF Extracts
  <2> QED BY <2>1, <2>2, Zenon DEF Refused
<1>12. /\ Arrives("r2t", v, "lun")
      /\ Arrives("r2t", v, "tag")
      /\ Arrives("r2t", v, "transfer_tag")
      /\ Arrives("r2t", v, "StatSN")
      /\ Arrives("r2t", v, "ExpCmdSN")
  BY r2tLoadOf, r2tFields, r2tAlways, r2tOwns, r2tTidy, ArrivesPlain
<1>13. /\ Arrives("r2t", v, "MaxCmdSN")
      /\ Arrives("r2t", v, "R2TSN")
      /\ Arrives("r2t", v, "offset")
      /\ Arrives("r2t", v, "length")
  BY r2tLoadOf, r2tFields, r2tAlways, r2tOwns, r2tTidy, ArrivesPlain
<1>14. Arrives("r2t", v, "AHSlength")
  <2>1. /\ LoadOf("r2t", "AHSlength") = Word("AHSlength", 4, 4) /\ "AHSlength" \in Fields("r2t")
        /\ Always("r2t", "AHSlength")
    BY r2tLoadOf, r2tFields, r2tAlways
  <2>2. v["zero"] = <<0>> /\ Octet(v["AHSlength"], 4) = 0 /\ 5 \in {4, 5}
    BY <1>1, <1>2 DEF Octet
  <2>3. Owns("r2t", Word("zero", 4, 1), 5, 5) /\ Owns("r2t", Word("AHSlength", 5, 8 - 5), 6, 8)
    BY r2tOwns
  <2> QED BY ONLY <2>1, <2>2, <2>3, Shaped("r2t", v), r2tTidy, ArrivesLength
<1> QED BY <1>3, <1>4, <1>11, <1>12, <1>13, <1>14, r2tFields, r2tFormat DEF Fine

-----------------------------------------------------------------------------
(* read_data *)

LEMMA read_dataFormat ==
    /\ FormatOf["read_data"].op = 37 /\ FormatOf["read_data"].one = 0
    /\ FormatOf["read_data"].zero = {2, 4} \cup 8..15
    /\ FormatOf["read_data"].zbits = {<<0, 64, 4>>, <<1, 8, 8>>}
    /\ FormatOf["read_data"].puts = <<
         Flag("final", 1, 128), Flag("ack", 1, 64), Flag("overflow", 1, 4),
         Flag("underflow", 1, 2), Flag("S_bit", 1, 1), WordIf("S_bit", "status", 3, 1),
         Word("length", 4, 4), Word("lun", 9, 1), Word("tag", 16, 4),
         Word("transfer_tag", 20, 4), WordIf("S_bit", "StatSN", 24, 4),
         Word("ExpCmdSN", 28, 4), Word("MaxCmdSN", 32, 4), Word("DataSN", 36, 4),
         Word("offset", 40, 4), WordIf("S_bit", "res_count", 44, 4)>>
  BY DEF FormatOf, read_data, Format, ReadFlags, Length32, Lun, Tags, Tag, StatSNs

LEMMA read_dataSet ==
    Puts("read_data") = {
         Flag("final", 1, 128), Flag("ack", 1, 64), Flag("overflow", 1, 4),
         Flag("underflow", 1, 2), Flag("S_bit", 1, 1), WordIf("S_bit", "status", 3, 1),
         Word("length", 4, 4), Word("lun", 9, 1), Word("tag", 16, 4),
         Word("transfer_tag", 20, 4), WordIf("S_bit", "StatSN", 24, 4),
         Word("ExpCmdSN", 28, 4), Word("MaxCmdSN", 32, 4), Word("DataSN", 36, 4),
         Word("offset", 40, 4), WordIf("S_bit", "res_count", 44, 4)}
  BY read_dataFormat DEF Puts, ToSet

LEMMA read_dataTidy == Tidy("read_data") /\ Len(FormatOf["read_data"].puts) = 16
<1>1. Len(FormatOf["read_data"].puts) = 16
  BY read_dataFormat
<1>2. FormatOf["read_data"].puts \in Seq(Puts("read_data"))
  BY <1>1, read_dataSet, read_dataFormat
<1>3. \A q \in Puts("read_data") : Placed(q)
  BY read_dataSet, PlacedKinds DEF Flag
<1> QED BY <1>1, <1>2, <1>3, Zenon DEF Tidy

LEMMA read_dataLoads ==
    Loads("read_data") = {
         Flag("final", 1, 128), Flag("ack", 1, 64), Flag("overflow", 1, 4),
         Flag("underflow", 1, 2), Flag("S_bit", 1, 1), Word("status", 3, 1),
         Word("length", 4, 4), Word("lun", 9, 1), Word("tag", 16, 4),
         Word("transfer_tag", 20, 4), Word("StatSN", 24, 4), Word("ExpCmdSN", 28, 4),
         Word("MaxCmdSN", 32, 4), Word("DataSN", 36, 4), Word("offset", 40, 4),
         Word("res_count", 44, 4)}
  BY DEF Loads, ToSet, FormatOf, read_data, Format, ReadFlags, Length32, Lun, Tags, Tag, StatSNs

LEMMA read_dataFields ==
    Fields("read_data") = {
         "final", "ack", "overflow", "underflow", "S_bit", "status", "length", "lun", "tag",
         "transfer_tag", "StatSN", "ExpCmdSN", "MaxCmdSN", "DataSN", "offset", "res_count"}
  BY read_dataLoads, Names DEF Fields

LEMMA read_dataSound == SoundLoads("read_data")
<1>1. Once("read_data")
  BY read_dataLoads, Names DEF Once
<1>2. \A g \in Loads("read_data") : Sound("read_data", g)
  BY read_dataLoads, SoundWord, SoundBits DEF Flag
<1> QED BY <1>1, <1>2, read_dataFields DEF SoundLoads

LEMMA read_dataLoadOf ==
    /\ LoadOf("read_data", "final") = Bits("final", 1, 128, 2)
    /\ LoadOf("read_data", "ack") = Bits("ack", 1, 64, 2)
    /\ LoadOf("read_data", "overflow") = Bits("overflow", 1, 4, 2)
    /\ LoadOf("read_data", "underflow") = Bits("underflow", 1, 2, 2)
    /\ LoadOf("read_data", "S_bit") = Bits("S_bit", 1, 1, 2)
    /\ LoadOf("read_data", "status") = Word("status", 3, 1)
    /\ LoadOf("read_data", "length") = Word("length", 4, 4)
    /\ LoadOf("read_data", "lun") = Word("lun", 9, 1)
    /\ LoadOf("read_data", "tag") = Word("tag", 16, 4)
    /\ LoadOf("read_data", "transfer_tag") = Word("transfer_tag", 20, 4)
    /\ LoadOf("read_data", "StatSN") = Word("StatSN", 24, 4)
    /\ LoadOf("read_data", "ExpCmdSN") = Word("ExpCmdSN", 28, 4)
    /\ LoadOf("read_data", "MaxCmdSN") = Word("MaxCmdSN", 32, 4)
    /\ LoadOf("read_data", "DataSN") = Word("DataSN", 36, 4)
    /\ LoadOf("read_data", "offset") = Word("offset", 40, 4)
    /\ LoadOf("read_data", "res_count") = Word("res_count", 44, 4)
  BY read_dataSound, read_dataLoads, Names, LoadIs DEF SoundLoads, Flag

LEMMA read_dataAlways ==
    /\ \A f \in Fields("read_data") \ {"status", "StatSN", "res_count"} : Always("read_data", f)
    /\ OnlyWith("read_data", "status", "S_bit")
    /\ OnlyWith("read_data", "StatSN", "S_bit")
    /\ OnlyWith("read_data", "res_count", "S_bit")
<1>1. \A f \in Fields("read_data") \ {"status", "StatSN", "res_count"} : Always("read_data", f)
  <2> DEFINE C == {WordIf("S_bit", "status", 3, 1),
               WordIf("S_bit", "StatSN", 24, 4),
               WordIf("S_bit", "res_count", 44, 4)}
  <2>1. \A q \in Puts("read_data") : Free(q) \/ q \in C
    BY read_dataSet, FreeWord, FreeBits DEF Flag
  <2>2. ASSUME NEW f, f \notin {"status", "StatSN", "res_count"} PROVE \A q \in C : Under(q, f, "")
    BY <2>2, OtherWordIf, OtherBitsIf
  <2> QED BY <2>1, <2>2, Zenon DEF Always, Free
<1>2. OnlyWith("read_data", "status", "S_bit")
  <2>1. \A q \in Puts("read_data") : Under(q, "status", "S_bit")
    BY read_dataSet, OtherWord, OtherBits, OtherWordIf, OtherBitsIf, UnderWordIf, UnderBitsIf DEF Flag
  <2>2. /\ WordIf("S_bit", "status", 3, 1) \in Puts("read_data")
        /\ WordIf("S_bit", "status", 3, 1).f = "status"
    BY read_dataSet, Names
  <2> QED BY <2>1, <2>2 DEF OnlyWith
<1>3. OnlyWith("read_data", "StatSN", "S_bit")
  <2>1. \A q \in Puts("read_data") : Under(q, "StatSN", "S_bit")
    BY read_dataSet, OtherWord, OtherBits, OtherWordIf, OtherBitsIf, UnderWordIf, UnderBitsIf DEF Flag
  <2>2. /\ WordIf("S_bit", "StatSN", 24, 4) \in Puts("read_data")
        /\ WordIf("S_bit", "StatSN", 24, 4).f = "StatSN"
    BY read_dataSet, Names
  <2> QED BY <2>1, <2>2 DEF OnlyWith
<1>4. OnlyWith("read_data", "res_count", "S_bit")
  <2>1. \A q \in Puts("read_data") : Under(q, "res_count", "S_bit")
    BY read_dataSet, OtherWord, OtherBits, OtherWordIf, OtherBitsIf, UnderWordIf, UnderBitsIf DEF Flag
  <2>2. /\ WordIf("S_bit", "res_count", 44, 4) \in Puts("read_data")
        /\ WordIf("S_bit", "res_count", 44, 4).f = "res_count"
    BY read_dataSet, Names
  <2> QED BY <2>1, <2>2 DEF OnlyWith
<1> QED BY <1>1, <1>2, <1>3, <1>4

LEMMA read_dataOwns ==
    /\ Alone("read_data", WordIf("S_bit", "status", 3, 1), 4, 4)
    /\ Owns("read_data", Word("length", 4, 4), 5, 8)
    /\ Owns("read_data", Word("lun", 9, 1), 10, 10)
    /\ Owns("read_data", Word("tag", 16, 4), 17, 20)
    /\ Owns("read_data", Word("transfer_tag", 20, 4), 21, 24)
    /\ Alone("read_data", WordIf("S_bit", "StatSN", 24, 4), 25, 28)
    /\ Owns("read_data", Word("ExpCmdSN", 28, 4), 29, 32)
    /\ Owns("read_data", Word("MaxCmdSN", 32, 4), 33, 36)
    /\ Owns("read_data", Word("DataSN", 36, 4), 37, 40)
    /\ Owns("read_data", Word("offset", 40, 4), 41, 44)
    /\ Alone("read_data", WordIf("S_bit", "res_count", 44, 4), 45, 48)
    /\ Spared("read_data", 3, 3)
    /\ Spared("read_data", 9, 9)
    /\ Spared("read_data", 11, 16)
<1>1. Alone("read_data", WordIf("S_bit", "status", 3, 1), 4, 4)
  BY read_dataSet, WordSpares, WordIfSpares, BitsSpare DEF Owns, Alone, Flag
<1>2. Owns("read_data", Word("length", 4, 4), 5, 8)
  BY read_dataSet, WordSpares, WordIfSpares, BitsSpare DEF Owns, Alone, Flag
<1>3. Owns("read_data", Word("lun", 9, 1), 10, 10)
  BY read_dataSet, WordSpares, WordIfSpares, BitsSpare DEF Owns, Alone, Flag
<1>4. Owns("read_data", Word("tag", 16, 4), 17, 20)
  BY read_dataSet, WordSpares, WordIfSpares, BitsSpare DEF Owns, Alone, Flag
<1>5. Owns("read_data", Word("transfer_tag", 20, 4), 21, 24)
  BY read_dataSet, WordSpares, WordIfSpares, BitsSpare DEF Owns, Alone, Flag
<1>6. Alone("read_data", WordIf("S_bit", "StatSN", 24, 4), 25, 28)
  BY read_dataSet, WordSpares, WordIfSpares, BitsSpare DEF Owns, Alone, Flag
<1>7. Owns("read_data", Word("ExpCmdSN", 28, 4), 29, 32)
  BY read_dataSet, WordSpares, WordIfSpares, BitsSpare DEF Owns, Alone, Flag
<1>8. Owns("read_data", Word("MaxCmdSN", 32, 4), 33, 36)
  BY read_dataSet, WordSpares, WordIfSpares, BitsSpare DEF Owns, Alone, Flag
<1>9. Owns("read_data", Word("DataSN", 36, 4), 37, 40)
  BY read_dataSet, WordSpares, WordIfSpares, BitsSpare DEF Owns, Alone, Flag
<1>10. Owns("read_data", Word("offset", 40, 4), 41, 44)
  BY read_dataSet, WordSpares, WordIfSpares, BitsSpare DEF Owns, Alone, Flag
<1>11. Alone("read_data", WordIf("S_bit", "res_count", 44, 4), 45, 48)
  BY read_dataSet, WordSpares, WordIfSpares, BitsSpare DEF Owns, Alone, Flag
<1>12. Spared("read_data", 3, 3)
  BY read_dataSet, WordSpares, WordIfSpares, BitsSpare DEF Spared, Flag
<1>13. Spared("read_data", 9, 9)
  BY read_dataSet, WordSpares, WordIfSpares, BitsSpare DEF Spared, Flag
<1>14. Spared("read_data", 11, 16)
  BY read_dataSet, WordSpares, WordIfSpares, BitsSpare DEF Spared, Flag
<1> QED BY <1>1, <1>2, <1>3, <1>4, <1>5, <1>6, <1>7, <1>8, <1>9, <1>10, <1>11, <1>12, <1>13, <1>14

LEMMA read_dataFirst ==
    ASSUME NEW v
    PROVE  /\ Stored("read_data", v)[1] = 37
           /\ Stored("read_data", v)[2] =
                0 + (Octet(v["final"], 1) % 2) * 128 + (Octet(v["ack"], 1) % 2) * 64
                + (Octet(v["overflow"], 1) % 2) * 4 + (Octet(v["underflow"], 1) % 2) * 2
                + (Octet(v["S_bit"], 1) % 2) * 1
<1>1. \A j \in {6, 7, 8, 9, 10, 11, 12, 13, 14, 15, 16} : Spares(FormatOf["read_data"].puts[j], 1, 2)
  BY read_dataFormat, WordSpares, WordIfSpares
<1>2. BitsFirst("read_data", 5)
  <2>1. 5 + 1..16 = {6, 7, 8, 9, 10, 11, 12, 13, 14, 15, 16}
    OBVIOUS
  <2> QED BY <1>1, <2>1, read_dataTidy DEF BitsFirst
<1>3. PICK g : /\ g[0] = Blank("read_data")
                /\ \A k \in 1..5 : Step(g, k - 1, k, FormatOf["read_data"].puts[k], v)
                /\ Stored("read_data", v)[1] = g[5][1] /\ Stored("read_data", v)[2] = g[5][2]
  BY <1>2, read_dataTidy, FirstStores
<1>4. /\ Step(g, 0, 1, Bits("final", 1, 128, 2), v)
      /\ Step(g, 1, 2, Bits("ack", 1, 64, 2), v)
      /\ Step(g, 2, 3, Bits("overflow", 1, 4, 2), v)
      /\ Step(g, 3, 4, Bits("underflow", 1, 2, 2), v)
      /\ Step(g, 4, 5, Bits("S_bit", 1, 1, 2), v)
  <2>1. /\ Step(g, 1 - 1, 1, FormatOf["read_data"].puts[1], v)
        /\ Step(g, 2 - 1, 2, FormatOf["read_data"].puts[2], v)
        /\ Step(g, 3 - 1, 3, FormatOf["read_data"].puts[3], v)
        /\ Step(g, 4 - 1, 4, FormatOf["read_data"].puts[4], v)
        /\ Step(g, 5 - 1, 5, FormatOf["read_data"].puts[5], v)
    BY <1>3
  <2> QED BY <2>1, read_dataFormat DEF Flag
<1>5. g[0][1] = 37 /\ g[0][2] = 0
  BY <1>3, read_dataFormat DEF Blank
<1>6. /\ g[1][2] = g[0][2] + (Octet(v["final"], 1) % 2) * 128 /\ g[1][1] = g[0][1]
      /\ g[2][2] = g[1][2] + (Octet(v["ack"], 1) % 2) * 64 /\ g[2][1] = g[1][1]
      /\ g[3][2] = g[2][2] + (Octet(v["overflow"], 1) % 2) * 4 /\ g[3][1] = g[2][1]
      /\ g[4][2] = g[3][2] + (Octet(v["underflow"], 1) % 2) * 2 /\ g[4][1] = g[3][1]
      /\ g[5][2] = g[4][2] + (Octet(v["S_bit"], 1) % 2) * 1 /\ g[5][1] = g[4][1]
  BY <1>4, BitsStep1, BitsStep2
<1> QED BY <1>3, <1>5, <1>6

LEMMA read_dataGood == Good("read_data")
<1> SUFFICES ASSUME NEW v, Shaped("read_data", v) PROVE Fine("read_data", v)
  BY DEF Good
<1>1. v["zero"] = <<0>>
  BY DEF Shaped
<1>2. /\ v["final"] = <<v["final"][1]>> /\ v["final"][1] \in 0..1
      /\ Octet(v["final"], 1) = v["final"][1]
      /\ v["ack"] = <<v["ack"][1]>> /\ v["ack"][1] \in 0..1
      /\ Octet(v["ack"], 1) = v["ack"][1]
      /\ v["overflow"] = <<v["overflow"][1]>> /\ v["overflow"][1] \in 0..1
      /\ Octet(v["overflow"], 1) = v["overflow"][1]
      /\ v["underflow"] = <<v["underflow"][1]>> /\ v["underflow"][1] \in 0..1
      /\ Octet(v["underflow"], 1) = v["underflow"][1]
      /\ v["S_bit"] = <<v["S_bit"][1]>> /\ v["S_bit"][1] \in 0..1
      /\ Octet(v["S_bit"], 1) = v["S_bit"][1]
  <2>1. /\ Fits("read_data", Bits("final", 1, 128, 2), v["final"])
        /\ Fits("read_data", Bits("ack", 1, 64, 2), v["ack"])
        /\ Fits("read_data", Bits("overflow", 1, 4, 2), v["overflow"])
        /\ Fits("read_data", Bits("underflow", 1, 2, 2), v["underflow"])
        /\ Fits("read_data", Bits("S_bit", 1, 1, 2), v["S_bit"])
    BY read_dataLoadOf, read_dataFields DEF Shaped
  <2> QED BY <2>1, BitsFit
<1>3. v["lun"] = <<0>>
  <2>1. Unset("read_data", "lun") /\ "lun" \in Fields("read_data")
    BY read_dataFields DEF Unset, LeftZero
  <2> QED BY <2>1, UnsetZero
<1>4. Octet(v["length"], 4) = 0
  <2>1. "length" \in Fields("read_data") /\ "read_data" # "r2t"
    BY read_dataFields
  <2> QED BY ONLY <2>1, Shaped("read_data", v), LengthTop
<1>5. /\ Stored("read_data", v)[1] \in 0..255
      /\ Stored("read_data", v)[1] % 64 = 37
      /\ Stored("read_data", v)[2] \in 0..255
      /\ Extracts(Stored("read_data", v), 0, 64, 4, 0)
      /\ Extracts(Stored("read_data", v), 1, 8, 8, 0)
      /\ Extracts(Stored("read_data", v), 1, 128, 2, v["final"][1])
      /\ Extracts(Stored("read_data", v), 1, 64, 2, v["ack"][1])
      /\ Extracts(Stored("read_data", v), 1, 4, 2, v["overflow"][1])
      /\ Extracts(Stored("read_data", v), 1, 2, 2, v["underflow"][1])
      /\ Extracts(Stored("read_data", v), 1, 1, 2, v["S_bit"][1])
  <2>1. Stored("read_data", v)[1] =
          37
    BY <1>2, read_dataFirst
  <2>2. Stored("read_data", v)[2] =
          0 + v["final"][1] * 128 + v["ack"][1] * 64 + v["overflow"][1] * 4
            + v["underflow"][1] * 2 + v["S_bit"][1] * 1
    BY <1>2, read_dataFirst
  <2>3. Stored("read_data", v)[1] \in 0..255
    BY <2>1, <2>2, <1>2
  <2>4. Stored("read_data", v)[1] % 64 = 37
    BY <2>1, <2>2, <1>2
  <2>5. Stored("read_data", v)[2] \in 0..255
    BY <2>1, <2>2, <1>2
  <2>6. Extracts(Stored("read_data", v), 0, 64, 4, 0)
    BY <2>1, <2>2, <1>2 DEF Extracts
  <2>7. Extracts(Stored("read_data", v), 1, 8, 8, 0)
    BY <2>1, <2>2, <1>2 DEF Extracts
  <2>8. Extracts(Stored("read_data", v), 1, 128, 2, v["final"][1])
    BY <2>1, <2>2, <1>2 DEF Extracts
  <2>9. Extracts(Stored("read_data", v), 1, 64, 2, v["ack"][1])
    BY <2>1, <2>2, <1>2 DEF Extracts
  <2>10. Extracts(Stored("read_data", v), 1, 4, 2, v["overflow"][1])
    BY <2>1, <2>2, <1>2 DEF Extracts
  <2>11. Extracts(Stored("read_data", v), 1, 2, 2, v["underflow"][1])
    BY <2>1, <2>2, <1>2 DEF Extracts
  <2>12. Extracts(Stored("read_data", v), 1, 1, 2, v["S_bit"][1])
    BY <2>1, <2>2, <1>2 DEF Extracts
  <2> QED BY <2>3, <2>4, <2>5, <2>6, <2>7, <2>8, <2>9, <2>10, <2>11, <2>12
<1>6. Stored("read_data", v) \in Header
  <2>1. HighWords("read_data")
    BY read_dataSet, HighWord, HighWordIf, HighBits DEF HighWords, Flag
  <2>2. PutFields("read_data")
    <3>1. {"zero", "final", "ack", "overflow", "underflow", "S_bit", "status", "length", "lun", "tag",
            "transfer_tag", "StatSN", "ExpCmdSN", "MaxCmdSN", "DataSN", "offset", "res_count"}
          \subseteq Carried("read_data")
      BY read_dataFields DEF Carried
    <3>2. \A q \in Puts("read_data") : Named(q, "read_data")
      BY <3>1, read_dataSet, NamedWord, NamedWordIf, NamedBits DEF Flag
    <3> QED BY <3>2 DEF PutFields
  <2> QED BY <2>1, <2>2, <1>5, read_dataTidy, HeaderMade
<1>7. ZeroAt(Stored("read_data", v), 3, 3)
  <2>1. Spared("read_data", 3, 3)
    BY read_dataOwns
  <2> QED BY ONLY <2>1, read_dataTidy, 3 \in 3..48, 3 \in 3..48, SpareZero
<1>8. ZeroAt(Stored("read_data", v), 9, 9)
  <2>1. Spared("read_data", 9, 9)
    BY read_dataOwns
  <2> QED BY ONLY <2>1, read_dataTidy, 9 \in 3..48, 9 \in 3..48, SpareZero
<1>9. ZeroAt(Stored("read_data", v), 11, 16)
  <2>1. Spared("read_data", 11, 16)
    BY read_dataOwns
  <2> QED BY ONLY <2>1, read_dataTidy, 11 \in 3..48, 16 \in 3..48, SpareZero
<1>10. ZeroAt(Stored("read_data", v), 10, 10)
  <2>1. Owns("read_data", Word("lun", 9, 1), 10, 10)
    BY read_dataOwns
  <2>2. 9 \in 0..47 /\ 1 \in 1..16 /\ 10 \in 1..48 /\ 10 \in 1..48 /\ 9 + 1 <= 10 /\ 10 <= 9 + 1
    OBVIOUS
  <2> QED BY ONLY <2>1, <2>2, <1>3, read_dataTidy, FieldZero
<1>11. ZeroAt(Stored("read_data", v), 5, 5)
  BY <1>4, read_dataOwns, read_dataTidy, TopZero
<1>12. ~Refused(FormatOf["read_data"], Stored("read_data", v))
  <2>1. ASSUME NEW k \in FormatOf["read_data"].zero PROVE Stored("read_data", v)[k + 1] = 0
    <3> DEFINE i == k + 1
    <3>1. i \in 3..3 \/ i \in 5..5 \/ i \in 9..9 \/ i \in 10..10 \/ i \in 11..16
      BY read_dataFormat
    <3> HIDE DEF i
    <3>2. Stored("read_data", v)[i] = 0
      BY <3>1, <1>7, <1>8, <1>9, <1>10, <1>11 DEF ZeroAt
    <3> QED BY <3>2 DEF i
  <2>2. \A b \in FormatOf["read_data"].zbits : (Stored("read_data", v)[b[1] + 1] \div b[2]) % b[3] = 0
    BY <1>5, read_dataFormat DEF Extracts
  <2> QED BY <2>1, <2>2, Zenon DEF Refused
<1>13. /\ Arrives("read_data", v, "final")
      /\ Arrives("read_data", v, "ack")
      /\ Arrives("read_data", v, "overflow")
      /\ Arrives("read_data", v, "underflow")
      /\ Arrives("read_data", v, "S_bit")
  BY <1>5, read_dataLoadOf, read_dataFields, read_dataAlways, ArrivesBits
<1>14. /\ Arrives("read_data", v, "length")
      /\ Arrives("read_data", v, "lun")
      /\ Arrives("read_data", v, "tag")
      /\ Arrives("read_data", v, "transfer_tag")
  BY read_dataLoadOf, read_dataFields, read_dataAlways, read_dataOwns, read_dataTidy, ArrivesPlain
<1>15. /\ Arrives("read_data", v, "ExpCmdSN")
      /\ Arrives("read_data", v, "MaxCmdSN")
      /\ Arrives("read_data", v, "DataSN")
      /\ Arrives("read_data", v, "offset")
  BY read_dataLoadOf, read_dataFields, read_dataAlways, read_dataOwns, read_dataTidy, ArrivesPlain
<1>16. Arrives("read_data", v, "status")
  <2>1. /\ LoadOf("read_data", "status") = Word("status", 3, 1) /\ "status" \in Fields("read_data")
        /\ OnlyWith("read_data", "status", "S_bit") /\ Conditional("S_bit")
    BY read_dataLoadOf, read_dataFields, read_dataAlways DEF Conditional
  <2>2. Alone("read_data", WordIf("S_bit", "status", 3, 1), 3 + 1, 3 + 1)
    BY read_dataOwns
  <2>3. 3 \in 2..47 /\ 1 \in 1..16 /\ 3 + 1 <= 48
    OBVIOUS
  <2> QED BY ONLY <2>1, <2>2, <2>3, Shaped("read_data", v), read_dataTidy, ArrivesIf
<1>17. Arrives("read_data", v, "StatSN")
  <2>1. /\ LoadOf("read_data", "StatSN") = Word("StatSN", 24, 4) /\ "StatSN" \in Fields("read_data")
        /\ OnlyWith("read_data", "StatSN", "S_bit") /\ Conditional("S_bit")
    BY read_dataLoadOf, read_dataFields, read_dataAlways DEF Conditional
  <2>2. Alone("read_data", WordIf("S_bit", "StatSN", 24, 4), 24 + 1, 24 + 4)
    BY read_dataOwns
  <2>3. 24 \in 2..47 /\ 4 \in 1..16 /\ 24 + 4 <= 48
    OBVIOUS
  <2> QED BY ONLY <2>1, <2>2, <2>3, Shaped("read_data", v), read_dataTidy, ArrivesIf
<1>18. Arrives("read_data", v, "res_count")
  <2>1. /\ LoadOf("read_data", "res_count") = Word("res_count", 44, 4) /\ "res_count" \in Fields("read_data")
        /\ OnlyWith("read_data", "res_count", "S_bit") /\ Conditional("S_bit")
    BY read_dataLoadOf, read_dataFields, read_dataAlways DEF Conditional
  <2>2. Alone("read_data", WordIf("S_bit", "res_count", 44, 4), 44 + 1, 44 + 4)
    BY read_dataOwns
  <2>3. 44 \in 2..47 /\ 4 \in 1..16 /\ 44 + 4 <= 48
    OBVIOUS
  <2> QED BY ONLY <2>1, <2>2, <2>3, Shaped("read_data", v), read_dataTidy, ArrivesIf
<1> QED BY <1>5, <1>6, <1>12, <1>13, <1>14, <1>15, <1>16, <1>17, <1>18, read_dataFields, read_dataFormat DEF Fine

-----------------------------------------------------------------------------
(* reject *)

LEMMA rejectFormat ==
    /\ FormatOf["reject"].op = 63 /\ FormatOf["reject"].one = 128
    /\ FormatOf["reject"].zero = {3, 4} \cup 8..15 \cup 20..23 \cup 40..47
    /\ FormatOf["reject"].zbits = {<<0, 64, 4>>, <<1, 1, 128>>}
    /\ FormatOf["reject"].puts = <<
         Word("reason", 2, 1), Word("length", 4, 4), Word("StatSN", 24, 4),
         Word("ExpCmdSN", 28, 4), Word("MaxCmdSN", 32, 4), Word("DataSN", 36, 4)>>
  BY DEF FormatOf, reject, Format, Length32, StatSNs, Low7

LEMMA rejectSet ==
    Puts("reject") = {
         Word("reason", 2, 1), Word("length", 4, 4), Word("StatSN", 24, 4),
         Word("ExpCmdSN", 28, 4), Word("MaxCmdSN", 32, 4), Word("DataSN", 36, 4)}
  BY rejectFormat DEF Puts, ToSet

LEMMA rejectTidy == Tidy("reject") /\ Len(FormatOf["reject"].puts) = 6
<1>1. Len(FormatOf["reject"].puts) = 6
  BY rejectFormat
<1>2. FormatOf["reject"].puts \in Seq(Puts("reject"))
  BY <1>1, rejectSet, rejectFormat
<1>3. \A q \in Puts("reject") : Placed(q)
  BY rejectSet, PlacedKinds
<1> QED BY <1>1, <1>2, <1>3, Zenon DEF Tidy

LEMMA rejectLoads ==
    Loads("reject") = {
         Word("reason", 2, 1), Word("length", 4, 4), Word("StatSN", 24, 4),
         Word("ExpCmdSN", 28, 4), Word("MaxCmdSN", 32, 4), Word("DataSN", 36, 4)}
  BY DEF Loads, ToSet, FormatOf, reject, Format, Length32, StatSNs, Low7

LEMMA rejectFields ==
    Fields("reject") = {
         "reason", "length", "StatSN", "ExpCmdSN", "MaxCmdSN", "DataSN"}
  BY rejectLoads, Names DEF Fields

LEMMA rejectSound == SoundLoads("reject")
<1>1. Once("reject")
  BY rejectLoads, Names DEF Once
<1>2. \A g \in Loads("reject") : Sound("reject", g)
  BY rejectLoads, SoundWord
<1> QED BY <1>1, <1>2, rejectFields DEF SoundLoads

LEMMA rejectLoadOf ==
    /\ LoadOf("reject", "reason") = Word("reason", 2, 1)
    /\ LoadOf("reject", "length") = Word("length", 4, 4)
    /\ LoadOf("reject", "StatSN") = Word("StatSN", 24, 4)
    /\ LoadOf("reject", "ExpCmdSN") = Word("ExpCmdSN", 28, 4)
    /\ LoadOf("reject", "MaxCmdSN") = Word("MaxCmdSN", 32, 4)
    /\ LoadOf("reject", "DataSN") = Word("DataSN", 36, 4)
  BY rejectSound, rejectLoads, Names, LoadIs DEF SoundLoads

LEMMA rejectAlways ==
    ASSUME NEW f
    PROVE  Always("reject", f)
<1>1. \A q \in Puts("reject") : Free(q)
  BY rejectSet, FreeWord
<1> QED BY <1>1, Zenon DEF Always, Free

LEMMA rejectOwns ==
    /\ Owns("reject", Word("reason", 2, 1), 3, 3)
    /\ Owns("reject", Word("length", 4, 4), 5, 8)
    /\ Owns("reject", Word("StatSN", 24, 4), 25, 28)
    /\ Owns("reject", Word("ExpCmdSN", 28, 4), 29, 32)
    /\ Owns("reject", Word("MaxCmdSN", 32, 4), 33, 36)
    /\ Owns("reject", Word("DataSN", 36, 4), 37, 40)
    /\ Spared("reject", 4, 4)
    /\ Spared("reject", 9, 24)
    /\ Spared("reject", 41, 48)
<1>1. Owns("reject", Word("reason", 2, 1), 3, 3)
  BY rejectSet, WordSpares DEF Owns, Alone
<1>2. Owns("reject", Word("length", 4, 4), 5, 8)
  BY rejectSet, WordSpares DEF Owns, Alone
<1>3. Owns("reject", Word("StatSN", 24, 4), 25, 28)
  BY rejectSet, WordSpares DEF Owns, Alone
<1>4. Owns("reject", Word("ExpCmdSN", 28, 4), 29, 32)
  BY rejectSet, WordSpares DEF Owns, Alone
<1>5. Owns("reject", Word("MaxCmdSN", 32, 4), 33, 36)
  BY rejectSet, WordSpares DEF Owns, Alone
<1>6. Owns("reject", Word("DataSN", 36, 4), 37, 40)
  BY rejectSet, WordSpares DEF Owns, Alone
<1>7. Spared("reject", 4, 4)
  BY rejectSet, WordSpares DEF Spared
<1>8. Spared("reject", 9, 24)
  BY rejectSet, WordSpares DEF Spared
<1>9. Spared("reject", 41, 48)
  BY rejectSet, WordSpares DEF Spared
<1> QED BY <1>1, <1>2, <1>3, <1>4, <1>5, <1>6, <1>7, <1>8, <1>9

LEMMA rejectFirst ==
    ASSUME NEW v
    PROVE  /\ Stored("reject", v)[1] = 63
           /\ Stored("reject", v)[2] =
                128
<1>1. Spared("reject", 1, 2)
  BY rejectSet, WordSpares DEF Spared
<1>2. 1 \in 1..48 /\ 2 \in 1..48 /\ 1 \in 1..2 /\ 2 \in 1..2
  OBVIOUS
<1>3. LeftBlank("reject", v, 1, 2)
  BY ONLY <1>1, <1>2, rejectTidy, SparedStored
<1> QED BY <1>2, <1>3, rejectFormat DEF Blank, LeftBlank

LEMMA rejectGood == Good("reject")
<1> SUFFICES ASSUME NEW v, Shaped("reject", v) PROVE Fine("reject", v)
  BY DEF Good
<1>1. v["zero"] = <<0>>
  BY DEF Shaped
<1>2. Octet(v["length"], 4) = 0
  <2>1. "length" \in Fields("reject") /\ "reject" # "r2t"
    BY rejectFields
  <2> QED BY ONLY <2>1, Shaped("reject", v), LengthTop
<1>3. /\ Stored("reject", v)[1] \in 0..255
      /\ Stored("reject", v)[1] % 64 = 63
      /\ Stored("reject", v)[2] \in 0..255
      /\ Extracts(Stored("reject", v), 0, 64, 4, 0)
      /\ Extracts(Stored("reject", v), 1, 1, 128, 0)
  BY rejectFirst DEF Extracts
<1>4. Stored("reject", v) \in Header
  <2>1. HighWords("reject")
    BY rejectSet, HighWord DEF HighWords
  <2>2. PutFields("reject")
    <3>1. {"zero", "reason", "length", "StatSN", "ExpCmdSN", "MaxCmdSN", "DataSN"}
          \subseteq Carried("reject")
      BY rejectFields DEF Carried
    <3>2. \A q \in Puts("reject") : Named(q, "reject")
      BY <3>1, rejectSet, NamedWord
    <3> QED BY <3>2 DEF PutFields
  <2> QED BY <2>1, <2>2, <1>3, rejectTidy, HeaderMade
<1>5. ZeroAt(Stored("reject", v), 4, 4)
  <2>1. Spared("reject", 4, 4)
    BY rejectOwns
  <2> QED BY ONLY <2>1, rejectTidy, 4 \in 3..48, 4 \in 3..48, SpareZero
<1>6. ZeroAt(Stored("reject", v), 9, 24)
  <2>1. Spared("reject", 9, 24)
    BY rejectOwns
  <2> QED BY ONLY <2>1, rejectTidy, 9 \in 3..48, 24 \in 3..48, SpareZero
<1>7. ZeroAt(Stored("reject", v), 41, 48)
  <2>1. Spared("reject", 41, 48)
    BY rejectOwns
  <2> QED BY ONLY <2>1, rejectTidy, 41 \in 3..48, 48 \in 3..48, SpareZero
<1>8. ZeroAt(Stored("reject", v), 5, 5)
  BY <1>2, rejectOwns, rejectTidy, TopZero
<1>9. ~Refused(FormatOf["reject"], Stored("reject", v))
  <2>1. ASSUME NEW k \in FormatOf["reject"].zero PROVE Stored("reject", v)[k + 1] = 0
    <3> DEFINE i == k + 1
    <3>1. i \in 4..4 \/ i \in 5..5 \/ i \in 9..16 \/ i \in 21..24 \/ i \in 41..48
      BY rejectFormat
    <3> HIDE DEF i
    <3>2. Stored("reject", v)[i] = 0
      BY <3>1, <1>5, <1>6, <1>7, <1>8 DEF ZeroAt
    <3> QED BY <3>2 DEF i
  <2>2. \A b \in FormatOf["reject"].zbits : (Stored("reject", v)[b[1] + 1] \div b[2]) % b[3] = 0
    BY <1>3, rejectFormat DEF Extracts
  <2> QED BY <2>1, <2>2, Zenon DEF Refused
<1>10. /\ Arrives("reject", v, "reason")
      /\ Arrives("reject", v, "length")
      /\ Arrives("reject", v, "StatSN")
      /\ Arrives("reject", v, "ExpCmdSN")
      /\ Arrives("reject", v, "MaxCmdSN")
      /\ Arrives("reject", v, "DataSN")
  BY rejectLoadOf, rejectFields, rejectAlways, rejectOwns, rejectTidy, ArrivesPlain
<1> QED BY <1>3, <1>4, <1>9, <1>10, rejectFields, rejectFormat DEF Fine

-----------------------------------------------------------------------------
(***************************************************************************)
(* All of them                                                               *)
(***************************************************************************)

LEMMA PduNames ==
    Pdus = {"nop_out", "text_cmd", "login_cmd", "logout_cmd", "scsi_cmd", "write_data", "nop_in",
            "text_rsp", "login_rsp", "logout_rsp", "scsi_rsp", "r2t", "read_data", "reject"}
  BY DEF Pdus, FormatOf

LEMMA AllGood ==
    ASSUME NEW p \in Pdus PROVE Good(p) /\ SoundLoads(p)
<1>1. \A q \in Pdus : Good(q)
  BY PduNames, nop_outGood, text_cmdGood, login_cmdGood, logout_cmdGood, scsi_cmdGood, write_dataGood,
     nop_inGood, text_rspGood, login_rspGood, logout_rspGood, scsi_rspGood, r2tGood, read_dataGood,
     rejectGood
<1>2. \A q \in Pdus : SoundLoads(q)
  BY PduNames, nop_outSound, text_cmdSound, login_cmdSound, logout_cmdSound, scsi_cmdSound,
     write_dataSound, nop_inSound, text_rspSound, login_rspSound, logout_rspSound, scsi_rspSound,
     r2tSound, read_dataSound, rejectSound
<1> QED BY <1>1, <1>2

\* An opcode is that of one PDU only.
LEMMA Opcodes ==
    ASSUME NEW p \in Pdus, NEW q \in Pdus, FormatOf[p].op = FormatOf[q].op PROVE p = q
<1>1. /\ FormatOf["nop_out"].op = 0 /\ FormatOf["text_cmd"].op = 4
      /\ FormatOf["login_cmd"].op = 3 /\ FormatOf["logout_cmd"].op = 6
      /\ FormatOf["scsi_cmd"].op = 1 /\ FormatOf["write_data"].op = 5
      /\ FormatOf["nop_in"].op = 32 /\ FormatOf["text_rsp"].op = 36
      /\ FormatOf["login_rsp"].op = 35 /\ FormatOf["logout_rsp"].op = 38
      /\ FormatOf["scsi_rsp"].op = 33 /\ FormatOf["r2t"].op = 49
      /\ FormatOf["read_data"].op = 37 /\ FormatOf["reject"].op = 63
  <2>1. FormatOf["nop_out"].op = 0
    BY nop_outFormat
  <2>2. FormatOf["text_cmd"].op = 4
    BY text_cmdFormat
  <2>3. FormatOf["login_cmd"].op = 3
    BY login_cmdFormat
  <2>4. FormatOf["logout_cmd"].op = 6
    BY logout_cmdFormat
  <2>5. FormatOf["scsi_cmd"].op = 1
    BY scsi_cmdFormat
  <2>6. FormatOf["write_data"].op = 5
    BY write_dataFormat
  <2>7. FormatOf["nop_in"].op = 32
    BY nop_inFormat
  <2>8. FormatOf["text_rsp"].op = 36
    BY text_rspFormat
  <2>9. FormatOf["login_rsp"].op = 35
    BY login_rspFormat
  <2>10. FormatOf["logout_rsp"].op = 38
    BY logout_rspFormat
  <2>11. FormatOf["scsi_rsp"].op = 33
    BY scsi_rspFormat
  <2>12. FormatOf["r2t"].op = 49
    BY r2tFormat
  <2>13. FormatOf["read_data"].op = 37
    BY read_dataFormat
  <2>14. FormatOf["reject"].op = 63
    BY rejectFormat
  <2> QED BY <2>1, <2>2, <2>3, <2>4, <2>5, <2>6, <2>7, <2>8, <2>9, <2>10, <2>11, <2>12, <2>13, <2>14
<1> DEFINE op == [r \in Pdus |-> FormatOf[r].op]
<1>3. /\ op["nop_out"] = 0 /\ op["text_cmd"] = 4 /\ op["login_cmd"] = 3
      /\ op["logout_cmd"] = 6 /\ op["scsi_cmd"] = 1 /\ op["write_data"] = 5
      /\ op["nop_in"] = 32 /\ op["text_rsp"] = 36 /\ op["login_rsp"] = 35
      /\ op["logout_rsp"] = 38 /\ op["scsi_rsp"] = 33 /\ op["r2t"] = 49
      /\ op["read_data"] = 37 /\ op["reject"] = 63
  BY <1>1, PduNames
<1>2. op[p] = op[q]
  OBVIOUS
<1> HIDE DEF op
<1> QED BY <1>3, <1>2, PduNames

LEMMA TagLoad ==
    ASSUME NEW p \in Pdus, "tag" \in Fields(p)
    PROVE  LoadOf(p, "tag") = Word("tag", 16, 4) /\ Always(p, "tag")
<1>1. p # "reject"
  BY rejectFields
<1>2. LoadOf(p, "tag") = Word("tag", 16, 4)
  BY <1>1, PduNames, nop_outLoadOf, text_cmdLoadOf, login_cmdLoadOf, logout_cmdLoadOf, scsi_cmdLoadOf,
     write_dataLoadOf, nop_inLoadOf, text_rspLoadOf, login_rspLoadOf, logout_rspLoadOf, scsi_rspLoadOf,
     r2tLoadOf, read_dataLoadOf
<1>3. Always(p, "tag")
  <2>1. CASE p \notin {"login_rsp", "read_data"}
    BY <1>1, <2>1, PduNames, nop_outAlways, text_cmdAlways, login_cmdAlways, logout_cmdAlways,
       scsi_cmdAlways, write_dataAlways, nop_inAlways, text_rspAlways, logout_rspAlways, scsi_rspAlways,
       r2tAlways
  <2>2. CASE p \in {"login_rsp", "read_data"}
    BY <2>2, login_rspAlways, read_dataAlways
  <2> QED BY <2>1, <2>2
<1> QED BY <1>2, <1>3

\* Sequences of at most eight octets that are the same value are equal if they are as long.
LEMMA SameEqual ==
    ASSUME NEW x \in Seq(0..255), NEW y \in Seq(0..255), NEW n \in 1..8, Len(x) = n, Len(y) = n,
           SameValue(x, y)
    PROVE  x = y
<1>1. ASSUME NEW i \in 1..n PROVE x[i] = y[i]
  <2> DEFINE k == n + 1 - i
  <2>1. k \in 1..8 /\ k <= n /\ n + 1 - k = i
    OBVIOUS
  <2> HIDE DEF k
  <2>2. Octet(x, k) = x[i] /\ Octet(y, k) = y[i]
    BY <2>1 DEF Octet
  <2> QED BY <2>1, <2>2 DEF SameValue
<1> QED BY <1>1, SeqEqual

\* Counting down undoes counting up: above the octets that wrapped stands the same.
LEMMA MinusPlus ==
    ASSUME NEW x \in Seq(0..255) PROVE Minus1(Plus1(x)) = x
<1> DEFINE n == Len(x)
           y == Plus1(x)
<1>1. n \in Nat /\ DOMAIN x = 1..n /\ \A i \in 1..n : x[i] \in 0..255
  BY ElementOfSeq
<1>2. y = [i \in 1..n |-> IF \A j \in i+1..n : x[j] = 255 THEN (x[i] + 1) % 256 ELSE x[i]]
  BY <1>1 DEF Plus1
<1>3. y \in Seq(0..255) /\ Len(y) = n /\ DOMAIN y = 1..n
  BY <1>2, PlusOctets
<1>4. Minus1(y) = [i \in 1..n |-> IF \A j \in i+1..n : y[j] = 0 THEN (y[i] - 1) % 256 ELSE y[i]]
  BY <1>3 DEF Minus1
<1> DEFINE Full(i) == \A j \in i+1..n : x[j] = 255
           Low(i) == \A j \in i+1..n : y[j] = 0
<1>5. \A z \in 0..255 : /\ (z + 1) % 256 = IF z = 255 THEN 0 ELSE z + 1
                        /\ (((z + 1) % 256) - 1) % 256 = z
  OBVIOUS
<1>6. \A i \in 1..n : y[i] = IF Full(i) THEN (x[i] + 1) % 256 ELSE x[i]
  BY <1>2
<1> HIDE DEF y, n
<1>7. ASSUME NEW i \in Nat, Full(i) PROVE Low(i)
  <2> SUFFICES ASSUME NEW j \in i+1..n PROVE y[j] = 0
    OBVIOUS
  <2>1. j \in 1..n /\ x[j] = 255 /\ Full(j)
    BY <1>1, <1>7
  <2> QED BY <2>1, <1>5, <1>6
<1>8. \A d \in Nat : d <= n /\ Low(n - d) => Full(n - d)
  <2> DEFINE S == {d \in Nat : d <= n /\ Low(n - d) => Full(n - d)}
  <2>1. 0 \in S
    BY <1>1
  <2>2. ASSUME NEW d \in Nat, d \in S PROVE d + 1 \in S
    <3> SUFFICES ASSUME d + 1 <= n, Low(n - (d + 1)) PROVE Full(n - (d + 1))
      OBVIOUS
    <3> DEFINE i == n - d
    <3>1. i \in 1..n /\ n - (d + 1) = i - 1 /\ d <= n
      BY <1>1
    <3>2. y[i] = 0 /\ Low(i)
      BY <3>1, <1>1
    <3>3. Full(i)
      BY <2>2, <3>1, <3>2
    <3>4. x[i] = 255
      <4>1. (x[i] + 1) % 256 = 0 /\ x[i] \in 0..255
        BY <1>1, <1>6, <3>1, <3>2, <3>3
      <4> QED BY <4>1, <1>5
    <3> QED BY <1>1, <3>1, <3>3, <3>4
  <2> HIDE DEF S
  <2>3. Nat \subseteq S
    BY <2>1, <2>2, Induction
  <2> QED BY <2>3 DEF S
<1>9. ASSUME NEW i \in 1..n PROVE Minus1(y)[i] = x[i]
  <2>1. Full(i) <=> Low(i)
    <3> DEFINE d == n - i
    <3>1. d \in Nat /\ d <= n /\ n - d = i /\ i \in Nat
      BY <1>1
    <3> HIDE DEF d, Full, Low
    <3> QED BY ONLY <1>7, <1>8, <3>1
  <2>2. Minus1(y)[i] = IF Low(i) THEN (y[i] - 1) % 256 ELSE y[i]
    BY <1>4
  <2>3. y[i] = IF Full(i) THEN (x[i] + 1) % 256 ELSE x[i]
    BY <1>6
  <2>4. x[i] \in 0..255
    BY <1>1
  <2> QED BY ONLY <2>1, <2>2, <2>3, <2>4, <1>5
<1>10. x = [i \in 1..n |-> x[i]]
  BY <1>1
<1> QED BY <1>4, <1>9, <1>10 DEF y

-----------------------------------------------------------------------------
(***************************************************************************)
(* The exchange of one PDU                                                   *)
(***************************************************************************)

Zeros == [i \in 1..48 |-> 0]

\* The structure is one that senders fill in; the header, once there is one, is what the
\* stores make of the structure; an understood header has been loaded by the loads of its
\* own PDU.
Exchange ==
    /\ pdu \in Pdus /\ rc \in {"none", "ok"}
    /\ Struct(pdu, val) /\ Shaped(pdu, val)
    /\ pdu = "login_cmd" => LoginStages(val)
    /\ itt = <<>> => header = Zeros /\ rc = "none"
    /\ itt # <<>> => header = Stored(pdu, Prepared(pdu, val)) /\ itt = SubSeq(header, 17, 20)
    /\ rc = "ok" => itt # <<>> /\ got = Filled(pdu, header)

LEMMA PreparedFine ==
    ASSUME NEW p \in Pdus, NEW v, Struct(p, v), Shaped(p, v)
    PROVE  Shaped(p, Prepared(p, v)) /\ Fine(p, Prepared(p, v))
<1>1. p = "login_cmd" => "isid" \in Fields(p)
  BY login_cmdFields
<1>2. Good(p) /\ SoundLoads(p)
  BY AllGood
<1>3. Shaped(p, Prepared(p, v))
  BY <1>1, <1>2, PreparedShaped
<1> QED BY <1>2, <1>3 DEF Good

\* Not only for the structures of Init: whatever octets the fields hold that fit them, the
\* header of an encap function has the opcode of its PDU, the decap function of that PDU does
\* not refuse it, and every field that it loads is the one that was stored (iscsi.c).
THEOREM AnyValuesArrive ==
    ASSUME NEW p \in Pdus, NEW v, Struct(p, v), Shaped(p, v)
    PROVE  LET w == Prepared(p, v)
               h == Stored(p, w)
           IN  /\ h \in [1..48 -> 0..255] /\ h[1] % 64 = FormatOf[p].op
               /\ ~Refused(FormatOf[p], h)
               /\ \A f \in Fields(p) : SameValue(Get(h, LoadOf(p, f)), Sent(p, w, f))
<1> DEFINE w == Prepared(p, v)
           h == Stored(p, w)
<1>1. Fine(p, w)
  BY PreparedFine
<1>2. ASSUME NEW f \in Fields(p) PROVE SameValue(Get(h, LoadOf(p, f)), Sent(p, w, f))
  BY <1>1 DEF Fine, Arrives
<1>3. h \in [1..48 -> 0..255] /\ h[1] % 64 = FormatOf[p].op /\ ~Refused(FormatOf[p], h)
  <2> HIDE DEF w
  <2> QED BY <1>1, Zenon DEF Fine, Header
<1> HIDE DEF w, h
<1>4. \A f \in Fields(p) : SameValue(Get(h, LoadOf(p, f)), Sent(p, w, f))
  BY <1>2, Zenon
<1> QED BY ONLY <1>3, <1>4, Zenon DEF w, h

\* What is prepared differs from the structure in the ISID of a login only.
LEMMA PreparedOther ==
    ASSUME NEW p, NEW v, Struct(p, v), NEW f \in Fields(p), f # "isid"
    PROVE  Prepared(p, v)[f] = v[f]
<1>1. f \in DOMAIN v
  BY DEF Struct
<1> QED BY <1>1 DEF Prepared

LEMMA PartOfHeader ==
    ASSUME NEW h \in Header, NEW lo \in 1..48, NEW hi \in lo..48
    PROVE  SubSeq(h, lo, hi) \in Seq(0..255) /\ Len(SubSeq(h, lo, hi)) = hi - lo + 1
<1>1. \A i \in lo..hi : h[i] \in 0..255
  BY DEF Header
<1>2. lo \in Int /\ hi \in Int /\ lo <= hi
  OBVIOUS
<1>3. /\ SubSeq(h, lo, hi) \in Seq(0..255)
      /\ Len(SubSeq(h, lo, hi)) = IF lo <= hi THEN hi - lo + 1 ELSE 0
  BY ONLY <1>1, <1>2, SubSeqProperties
<1> QED BY <1>2, <1>3

LEMMA GetWord ==
    ASSUME NEW h, NEW f, NEW at \in Nat, NEW n \in Nat
    PROVE  Get(h, Word(f, at, n)) = SubSeq(h, at + 1, at + n)
<1> DEFINE q == Word(f, at, n)
<1>1. q.at = at /\ q.n = n /\ q.w = 0
  BY DEF Word, WordIf
<1> HIDE DEF q
<1>2. ~(q.w > 0)
  BY ONLY <1>1
<1> QED BY <1>1, <1>2, Zenon DEF Get, q

\* A field of bits arrives as it is.
LEMMA BitsArrive ==
    ASSUME NEW p, NEW v, Shaped(p, v), NEW f \in Fields(p), NEW at \in Nat, NEW w \in Nat \ {0}, NEW r \in 1..256,
           LoadOf(p, f) = Bits(f, at, w, r), Always(p, f), Arrives(p, v, f)
    PROVE  Get(Stored(p, v), LoadOf(p, f)) = v[f]
<1> DEFINE x == v[f]
           y == (Stored(p, v)[at + 1] \div w) % r
           q == Bits(f, at, w, r)
<1>1. Fits(p, Bits(f, at, w, r), x)
  BY DEF Shaped
<1>2. x = <<x[1]>> /\ Octet(x, 1) = x[1]
  BY <1>1, BitsFit
<1>3. q.w = w /\ q.at = at /\ q.r = r
  BY DEF Bits, BitsIf
<1>4. Get(Stored(p, v), q) = <<y>>
  <2> HIDE DEF q
  <2>1. q.w > 0
    BY ONLY <1>3, w \in Nat \ {0}
  <2> QED BY <1>3, <2>1, Zenon DEF Get
<1>5. SameValue(<<y>>, x)
  BY <1>4, SentAlways DEF Arrives
<1> HIDE DEF x, y
<1>6. Octet(<<y>>, 1) = y
  BY DEF Octet
<1>7. y = x[1]
  BY <1>2, <1>5, <1>6 DEF SameValue
<1> QED BY <1>2, <1>4, <1>7 DEF x

\* A login that arrives is one of the stages that the target accepts.
LEMMA LoginArrives ==
    ASSUME NEW v, Shaped("login_cmd", v), Fine("login_cmd", v), LoginStages(v)
    PROVE  /\ LoginStages(Filled("login_cmd", Stored("login_cmd", v)))
           /\ \A f \in {"transit", "csg", "nsg"} : Filled("login_cmd", Stored("login_cmd", v))[f] = v[f]
<1> DEFINE h == Stored("login_cmd", v)
           g == Filled("login_cmd", h)
           Same(f) == Get(h, LoadOf("login_cmd", f)) = v[f]
<1>1. g = [f \in Fields("login_cmd") |-> Get(h, LoadOf("login_cmd", f))]
  BY DEF Filled
<1>2. \A f \in {"transit", "csg", "nsg"} : f \in Fields("login_cmd") /\ Arrives("login_cmd", v, f) /\ Always("login_cmd", f)
  BY login_cmdFields, login_cmdAlways DEF Fine
<1>3. Same("transit") /\ Same("csg") /\ Same("nsg")
  <2>1. /\ LoadOf("login_cmd", "transit") = Bits("transit", 1, 128, 2)
        /\ LoadOf("login_cmd", "csg") = Bits("csg", 1, 4, 4)
        /\ LoadOf("login_cmd", "nsg") = Bits("nsg", 1, 1, 4)
    BY login_cmdLoadOf
  <2>2. 1 \in Nat /\ 128 \in Nat \ {0} /\ 4 \in Nat \ {0} /\ 1 \in Nat \ {0} /\ 2 \in 1..256 /\ 4 \in 1..256
    OBVIOUS
  <2>3. "transit" \in Fields("login_cmd") /\ Arrives("login_cmd", v, "transit") /\ Always("login_cmd", "transit")
    BY <1>2
  <2>4. Same("transit")
    BY ONLY <2>1, <2>2, <2>3, Shaped("login_cmd", v), BitsArrive
  <2>5. "csg" \in Fields("login_cmd") /\ Arrives("login_cmd", v, "csg") /\ Always("login_cmd", "csg")
    BY <1>2
  <2>6. Same("csg")
    BY ONLY <2>1, <2>2, <2>5, Shaped("login_cmd", v), BitsArrive
  <2>7. "nsg" \in Fields("login_cmd") /\ Arrives("login_cmd", v, "nsg") /\ Always("login_cmd", "nsg")
    BY <1>2
  <2>8. Same("nsg")
    BY ONLY <2>1, <2>2, <2>7, Shaped("login_cmd", v), BitsArrive
  <2> QED BY <2>4, <2>6, <2>8
<1>4. \A f \in {"transit", "csg", "nsg"} : g[f] = v[f]
  BY <1>1, <1>2, <1>3
<1> HIDE DEF g
<1>5. LoginStages(g)
  BY <1>4 DEF LoginStages
<1> QED BY <1>4, <1>5 DEF g

LEMMA ExchangeInit == Init => Exchange
<1> SUFFICES ASSUME Init PROVE Exchange
  OBVIOUS
<1>1. pdu \in Pdus /\ val \in Structures(pdu) /\ (pdu = "login_cmd" => LoginStages(val))
      /\ header = Zeros /\ itt = <<>> /\ rc = "none"
  BY DEF Init, Zeros
<1>2. Struct(pdu, val) /\ Shaped(pdu, val)
  BY <1>1, AllGood, StructuresShaped
<1> QED BY <1>1, <1>2 DEF Exchange

LEMMA Tag4 ==
    ASSUME NEW h \in Header PROVE SubSeq(h, 17, 20) \in Seq(0..255) /\ Len(SubSeq(h, 17, 20)) = 4
<1>1. 17 \in 1..48 /\ 20 \in 17..48 /\ 20 - 17 + 1 = 4
  OBVIOUS
<1> QED BY <1>1, PartOfHeader

LEMMA Isid6 ==
    ASSUME NEW h \in Header PROVE SubSeq(h, 9, 14) \in Seq(0..255) /\ Len(SubSeq(h, 9, 14)) = 6
<1>1. 9 \in 1..48 /\ 14 \in 9..48 /\ 14 - 9 + 1 = 6
  OBVIOUS
<1> QED BY <1>1, PartOfHeader

LEMMA ExchangeEncap ==
    ASSUME Exchange, Encap
    PROVE  Exchange'
<1> DEFINE w == Prepared(pdu, val)
<1>1. pdu \in Pdus /\ Struct(pdu, val) /\ Shaped(pdu, val) /\ (pdu = "login_cmd" => LoginStages(val))
  BY DEF Exchange
<1>2. Stored(pdu, w) \in Header
  BY <1>1, PreparedFine DEF Fine
<1>3. header' = Stored(pdu, w) /\ itt' = SubSeq(header', 17, 20)
      /\ pdu' = pdu /\ val' = val /\ got' = got /\ rc' = rc /\ rc = "none"
  BY DEF Encap
<1>4. itt' # <<>>
  <2>1. Len(itt') = 4
    BY <1>2, <1>3, Tag4
  <2> QED BY <2>1
<1> QED BY <1>1, <1>3, <1>4 DEF Exchange

LEMMA ExchangeDecap ==
    ASSUME Exchange, Decap
    PROVE  Exchange'
<1> DEFINE w == Prepared(pdu, val)
<1>1. pdu \in Pdus /\ Struct(pdu, val) /\ Shaped(pdu, val) /\ (pdu = "login_cmd" => LoginStages(val))
      /\ itt # <<>> /\ header = Stored(pdu, w) /\ itt = SubSeq(header, 17, 20)
  BY DEF Exchange, Decap
<1>2. Shaped(pdu, w) /\ Fine(pdu, w)
  BY <1>1, PreparedFine
<1>3. PICK p \in Pdus :
         /\ header[1] % 64 = FormatOf[p].op
         /\ got' = Filled(p, header)
         /\ rc' = IF \/ Refused(FormatOf[p], header)
                     \/ p = "login_cmd" /\ ~LoginStages(got')
                  THEN "refused" ELSE "ok"
  BY Zenon DEF Decap
<1>4. p = pdu
  BY <1>1, <1>2, <1>3, Opcodes DEF Fine
<1>5. ~Refused(FormatOf[pdu], header)
  BY <1>1, <1>2 DEF Fine
<1>6. pdu = "login_cmd" => LoginStages(got')
  <2> SUFFICES ASSUME pdu = "login_cmd" PROVE LoginStages(got')
    OBVIOUS
  <2>1. \A f \in {"transit", "csg", "nsg"} : w[f] = val[f]
    BY <1>1, login_cmdFields, PreparedOther
  <2>2. LoginStages(w)
    <3> HIDE DEF w
    <3> QED BY <1>1, <2>1 DEF LoginStages
  <2> QED BY <1>1, <1>2, <1>3, <1>4, <2>2, LoginArrives
<1>7. rc' = "ok" /\ got' = Filled(pdu, header)
  BY <1>3, <1>4, <1>5, <1>6
<1>8. pdu' = pdu /\ val' = val /\ header' = header /\ itt' = itt
  BY DEF Decap
<1> QED BY <1>1, <1>7, <1>8 DEF Exchange

LEMMA ExchangeAnswer ==
    ASSUME Exchange, Answer
    PROVE  /\ Exchange'
           /\ SameValue(Minus1(val'["isid"]), val["isid"])
<1> DEFINE w == Prepared("login_cmd", val)
           F == Fields("login_rsp")
           h == Stored("login_cmd", w)
<1>1. pdu = "login_cmd" /\ pdu \in Pdus /\ Struct(pdu, val) /\ Shaped(pdu, val) /\ LoginStages(val)
      /\ itt # <<>> /\ header = h /\ got = Filled("login_cmd", h)
  BY DEF Exchange, Answer
<1>2. Shaped("login_cmd", w) /\ Fine("login_cmd", w)
  BY <1>1, PreparedFine
<1>3. pdu' = "login_rsp" /\ header' = Zeros /\ itt' = <<>> /\ rc' = "none"
  BY DEF Answer, Zeros
<1>4. val' = [f \in F \cup {"zero"} |->
                 CASE f \in {"isid", "tag", "csg", "nsg", "transit", "cid"} -> got[f]
                   [] OTHER -> <<0>>]
  BY DEF Answer
<1>5. "login_rsp" \in Pdus /\ SoundLoads("login_rsp") /\ {"isid", "tag", "csg", "nsg", "transit"} \subseteq F /\ "cid" \notin F
  BY PduNames, AllGood, login_rspFields
<1>6. Struct("login_rsp", val') /\ val'["zero"] = <<0>>
  <2>1. val' = [f \in F \cup {"zero"} |-> val'[f]]
    BY <1>4
  <2>2. val'["zero"] = <<0>>
    BY <1>4
  <2> QED BY <2>1, <2>2 DEF Struct
<1>7. /\ \A f \in {"isid", "tag", "csg", "nsg", "transit"} : val'[f] = got[f]
      /\ \A f \in F \ {"isid", "tag", "csg", "nsg", "transit"} : val'[f] = <<0>>
  BY <1>4, <1>5
<1>8. \A f \in Fields("login_cmd") : got[f] = Get(h, LoadOf("login_cmd", f))
  BY <1>1 DEF Filled
<1>9. h \in Header
  BY <1>2 DEF Fine
<1>10. got["isid"] \in Seq(0..255) /\ Len(got["isid"]) = 6
  <2>1. "isid" \in Fields("login_cmd") /\ LoadOf("login_cmd", "isid") = Word("isid", 8, 6)
    BY login_cmdFields, login_cmdLoadOf
  <2>2. 8 \in Nat /\ 6 \in Nat /\ 8 + 1 = 9 /\ 8 + 6 = 14
    OBVIOUS
  <2> HIDE DEF h
  <2>3. Get(h, Word("isid", 8, 6)) = SubSeq(h, 9, 14)
    BY ONLY <2>2, GetWord
  <2>4. got["isid"] = SubSeq(h, 9, 14)
    BY <1>8, <2>1, <2>3
  <2> QED BY <1>9, <2>4, Isid6
<1>11. got["tag"] \in Seq(0..255) /\ Len(got["tag"]) = 4
  <2>1. "tag" \in Fields("login_cmd") /\ LoadOf("login_cmd", "tag") = Word("tag", 16, 4)
    BY login_cmdFields, login_cmdLoadOf
  <2>2. 16 \in Nat /\ 4 \in Nat /\ 16 + 1 = 17 /\ 16 + 4 = 20
    OBVIOUS
  <2> HIDE DEF h
  <2>3. Get(h, Word("tag", 16, 4)) = SubSeq(h, 17, 20)
    BY ONLY <2>2, GetWord
  <2>4. got["tag"] = SubSeq(h, 17, 20)
    BY <1>8, <2>1, <2>3
  <2> QED BY <1>9, <2>4, Tag4
<1>12. Shaped("login_rsp", val')
  <2>1. ASSUME NEW f \in F \ {"isid", "tag", "csg", "nsg", "transit"} PROVE Fits("login_rsp", LoadOf("login_rsp", f), <<0>>)
    BY <1>5, LoadSound, ZeroFits
  <2>2. Fits("login_rsp", Word("isid", 8, 6), got["isid"])
    <3> DEFINE x == got["isid"]
               q == Word("isid", 8, 6)
    <3>1. q.f = "isid" /\ q.n = 6
      BY Names, TidyKinds
    <3>2. q.w = 0
      BY DEF Word, WordIf
    <3>3. ~Unset("login_rsp", "isid")
      BY UnsetNames
    <3>4. x \in Seq(0..255) /\ Len(x) = 6
      BY <1>10
    <3> HIDE DEF x, q
    <3>5. ~(q.w > 0)
      BY ONLY <3>2
    <3>6. q.f # "length" /\ Len(x) \in 1..q.n /\ ~Unset("login_rsp", q.f) /\ (q.f = "isid" => Len(x) = 6)
      BY <3>1, <3>3, <3>4
    <3>7. Fits("login_rsp", q, x)
      BY <3>4, <3>5, <3>6, Zenon DEF Fits
    <3> QED BY <3>7 DEF q, x
  <2>3. Fits("login_rsp", Word("tag", 16, 4), got["tag"])
    <3> DEFINE x == got["tag"]
               q == Word("tag", 16, 4)
    <3>1. q.f = "tag" /\ q.n = 4
      BY Names, TidyKinds
    <3>2. q.w = 0
      BY DEF Word, WordIf
    <3>3. ~Unset("login_rsp", "tag")
      BY DEF Unset, LeftZero
    <3>4. x \in Seq(0..255) /\ Len(x) = 4
      BY <1>11
    <3> HIDE DEF x, q
    <3>5. ~(q.w > 0)
      BY ONLY <3>2
    <3>6. q.f # "length" /\ Len(x) \in 1..q.n /\ ~Unset("login_rsp", q.f) /\ (q.f = "isid" => Len(x) = 6)
      BY <3>1, <3>3, <3>4
    <3>7. Fits("login_rsp", q, x)
      BY <3>4, <3>5, <3>6, Zenon DEF Fits
    <3> QED BY <3>7 DEF q, x
  <2>4. \A f \in {"csg", "nsg", "transit"} : got[f] = val[f] /\ f \in Fields("login_cmd")
    <3>1. \A f \in {"csg", "nsg", "transit"} : w[f] = val[f] /\ f \in Fields("login_cmd")
      BY <1>1, login_cmdFields, PreparedOther
    <3>2. LoginStages(w)
      <4> HIDE DEF w
      <4> QED BY <1>1, <3>1 DEF LoginStages
    <3> QED BY <1>1, <1>2, <3>1, <3>2, LoginArrives
  <2>5. ASSUME NEW f \in {"csg", "nsg", "transit"} PROVE Fits("login_rsp", LoadOf("login_rsp", f), val[f])
    <3> DEFINE q == LoadOf("login_cmd", f)
    <3>1. q = LoadOf("login_rsp", f) /\ q.f = f
      BY login_cmdLoadOf, login_rspLoadOf, Names
    <3>2. Fits("login_cmd", q, val[f])
      BY <1>1, <2>4 DEF Shaped
    <3>3. ~Unset("login_rsp", f) /\ f # "length"
      BY DEF Unset, LeftZero
    <3> HIDE DEF q
    <3> QED BY <3>1, <3>2, <3>3, Zenon DEF Fits
  <2>6. LoadOf("login_rsp", "isid") = Word("isid", 8, 6) /\ LoadOf("login_rsp", "tag") = Word("tag", 16, 4)
    BY login_rspLoadOf
  <2>7. ASSUME NEW f \in F PROVE Fits("login_rsp", LoadOf("login_rsp", f), val'[f])
    <3>1. CASE f \in {"csg", "nsg", "transit"}
      BY <3>1, <1>7, <2>4, <2>5
    <3>2. CASE f = "isid"
      BY <3>2, <1>7, <2>2, <2>6
    <3>3. CASE f = "tag"
      BY <3>3, <1>7, <2>3, <2>6
    <3>4. CASE f \notin {"isid", "tag", "csg", "nsg", "transit"}
      BY <3>4, <1>7, <2>1
    <3> QED BY <3>1, <3>2, <3>3, <3>4
  <2> QED BY <1>6, <2>7 DEF Shaped
<1>13. Exchange'
  BY <1>3, <1>5, <1>6, <1>12 DEF Exchange
<1>14. SameValue(Minus1(val'["isid"]), val["isid"])
  <2> DEFINE x == val["isid"]
  <2>1. "isid" \in Fields("login_cmd") /\ LoadOf("login_cmd", "isid") = Word("isid", 8, 6) /\ Always("login_cmd", "isid")
    BY login_cmdFields, login_cmdLoadOf, login_cmdAlways
  <2>2. x \in Seq(0..255) /\ Len(x) = 6
    BY <1>1, <2>1, Names DEF Shaped, Fits
  <2>3. w["isid"] = Plus1(x)
    BY <1>1, <2>1 DEF Prepared, Struct
  <2>4. Arrives("login_cmd", w, "isid")
    BY <1>2, <2>1 DEF Fine
  <2>5. SameValue(got["isid"], w["isid"])
    BY <1>8, <2>1, <2>4, SentAlways DEF Arrives
  <2>6. Plus1(x) \in Seq(0..255) /\ Len(Plus1(x)) = 6
    BY <2>2, PlusOctets
  <2>7. got["isid"] = Plus1(x)
    <3> HIDE DEF x, w
    <3> QED BY <1>10, <2>3, <2>5, <2>6, SameEqual
  <2>8. Minus1(Plus1(x)) = x
    BY <2>2, MinusPlus
  <2> QED BY <1>7, <2>7, <2>8, SameSelf
<1> QED BY <1>13, <1>14

LEMMA ExchangeAlways == Spec => []Exchange
<1>1. Exchange /\ [Next]_vars => Exchange'
  <2> SUFFICES ASSUME Exchange, [Next]_vars PROVE Exchange'
    OBVIOUS
  <2>1. CASE Encap
    BY <2>1, ExchangeEncap
  <2>2. CASE Decap
    BY <2>2, ExchangeDecap
  <2>3. CASE Answer
    BY <2>3, ExchangeAnswer
  <2>4. CASE UNCHANGED vars
    BY <2>4 DEF Exchange, vars
  <2> QED BY <2>1, <2>2, <2>3, <2>4 DEF Next
<1> QED BY <1>1, ExchangeInit, PTL DEF Spec

LEMMA ExchangeType ==
    ASSUME Exchange
    PROVE  TypeOK
<1>1. pdu \in Pdus /\ rc \in {"none", "ok", "refused"} /\ Struct(pdu, val) /\ Shaped(pdu, val)
  BY DEF Exchange
<1>2. CASE itt = <<>>
  <2>1. Zeros \in [1..48 -> 0..255]
    BY DEF Zeros
  <2> QED BY <1>1, <1>2, <2>1 DEF Exchange, TypeOK
<1>3. CASE itt # <<>>
  <2>1. Stored(pdu, Prepared(pdu, val)) \in [1..48 -> 0..255]
    BY <1>1, PreparedFine DEF Fine, Header
  <2> QED BY <1>1, <1>3, <2>1 DEF Exchange, TypeOK
<1> QED BY <1>2, <1>3

LEMMA ExchangeArrive ==
    ASSUME Exchange, rc = "ok", NEW f \in Fields(pdu)
    PROVE  LET sent == Sent(pdu, Prepared(pdu, val), f)
           IN  SameValue(got[f], IF pdu = "login_rsp" /\ f = "isid" THEN Minus1(sent) ELSE sent)
<1> DEFINE w == Prepared(pdu, val)
           h == Stored(pdu, w)
           g == Get(h, LoadOf(pdu, f))
           sent == Sent(pdu, w, f)
<1>1. pdu \in Pdus /\ Struct(pdu, val) /\ Shaped(pdu, val) /\ got = Filled(pdu, h)
  BY DEF Exchange
<1>2. Shaped(pdu, w) /\ Fine(pdu, w)
  BY <1>1, PreparedFine
<1>3. SameValue(g, sent)
  BY <1>2 DEF Fine, Arrives
<1>4. CASE ~(pdu = "login_rsp" /\ f = "isid")
  <2>1. got[f] = g
    BY <1>1, <1>4 DEF Filled
  <2> QED BY <1>3, <1>4, <2>1
<1>5. CASE pdu = "login_rsp" /\ f = "isid"
  <2>1. LoadOf(pdu, f) = Word("isid", 8, 6) /\ Always(pdu, f)
    BY <1>5, login_rspLoadOf, login_rspAlways, login_rspFields
  <2>2. sent = w[f] /\ g = SubSeq(h, 9, 14)
    <3>1. 8 \in Nat /\ 6 \in Nat /\ 8 + 1 = 9 /\ 8 + 6 = 14
      OBVIOUS
    <3> HIDE DEF h
    <3>2. Get(h, Word("isid", 8, 6)) = SubSeq(h, 9, 14)
      BY ONLY <3>1, GetWord
    <3> QED BY <2>1, <3>2, SentAlways
  <2>3. w[f] \in Seq(0..255) /\ Len(w[f]) = 6
    BY <1>2, <1>5, <2>1, Names DEF Shaped, Fits
  <2>4. g \in Seq(0..255) /\ Len(g) = 6
    <3>1. h \in Header
      BY <1>2 DEF Fine
    <3> HIDE DEF h
    <3> QED BY <2>2, <3>1, Isid6
  <2>5. g = sent
    <3> HIDE DEF g, sent, w
    <3>1. sent \in Seq(0..255) /\ Len(sent) = 6 /\ 6 \in 1..8
      BY <2>2, <2>3
    <3> QED BY ONLY <1>3, <2>4, <3>1, SameEqual
  <2>6. got[f] = Minus1(g)
    <3>1. got = [[e \in Fields(pdu) |-> Get(h, LoadOf(pdu, e))] EXCEPT !["isid"] = Minus1(@)]
      BY <1>1, <1>5 DEF Filled
    <3> QED BY <1>5, <3>1
  <2> QED BY <1>5, <2>5, <2>6, SameSelf
<1> QED BY <1>4, <1>5

LEMMA ExchangeTag ==
    ASSUME Exchange
    PROVE  TagFound
<1> SUFFICES ASSUME itt # <<>>, "tag" \in Fields(pdu) PROVE SameValue(itt, val.tag)
  BY DEF TagFound
<1> DEFINE w == Prepared(pdu, val)
           h == Stored(pdu, w)
<1>1. pdu \in Pdus /\ Struct(pdu, val) /\ Shaped(pdu, val) /\ itt = SubSeq(h, 17, 20)
  BY DEF Exchange
<1>2. Fine(pdu, w)
  BY <1>1, PreparedFine
<1>3. LoadOf(pdu, "tag") = Word("tag", 16, 4) /\ Always(pdu, "tag")
  BY <1>1, TagLoad
<1>4. SameValue(Get(h, Word("tag", 16, 4)), w["tag"])
  BY <1>2, <1>3, SentAlways DEF Fine, Arrives
<1>5. Get(h, Word("tag", 16, 4)) = SubSeq(h, 16 + 1, 16 + 4)
  <2>1. 16 \in Nat /\ 4 \in Nat
    OBVIOUS
  <2> HIDE DEF h
  <2> QED BY ONLY <2>1, GetWord
<1>6. w["tag"] = val["tag"]
  BY <1>1, PreparedOther
<1>7. itt = Get(h, Word("tag", 16, 4))
  <2> HIDE DEF h
  <2>1. 16 + 1 = 17 /\ 16 + 4 = 20
    OBVIOUS
  <2> QED BY <1>1, <1>5, <2>1, Zenon
<1> HIDE DEF w, h
<1> QED BY <1>4, <1>6, <1>7, Zenon

\* Every field that a decap function reads comes out as the encap function of its PDU was
\* given it, for every octet that the structures are made of, and no reserved octet is
\* hit on the way (iscsi.c).
THEOREM FieldsArriveAlways == Spec => []FieldsArrive
<1>1. Exchange => FieldsArrive
  BY ExchangeType, ExchangeArrive DEF FieldsArrive, Exchange
<1> QED BY <1>1, ExchangeAlways, PTL

\* The receiver reads the tag of any PDU that has one before it knows the PDU (initiator.c).
THEOREM TagAlwaysFound == Spec => []TagFound
<1>1. Exchange => TagFound
  BY ExchangeTag
<1> QED BY <1>1, ExchangeAlways, PTL

\* The ISID that the target answers a login with is the one that the initiator began with.
THEOREM IsidAlwaysBack == Spec => IsidComesBack
<1>1. Exchange /\ [Next]_vars => [Answer => SameValue(Minus1(val'.isid), val.isid)]_vars
  BY ExchangeAnswer
<1> QED BY <1>1, ExchangeAlways, PTL DEF Spec, IsidComesBack

=============================================================================
