------------------------ MODULE TargetSessionsProofs ------------------------
(***************************************************************************)
(* Proofs about TargetSessions for any number of session structures,         *)
(* connections, commands and chains of the hash.                             *)
(***************************************************************************)
EXTENDS TargetSessions, SequenceTheorems, WellFoundedInduction, FiniteSetTheorems, TLAPS

-----------------------------------------------------------------------------
(***************************************************************************)
(* What the calls of the hash keep, for any number of chains: each leaves a  *)
(* table that is well formed and holds what its caller relies on.            *)
(***************************************************************************)

\* A key's chain is one of the table's.
LEMMA KeyHasChain == \A key \in Nat : key % NBuckets \in Buckets
  BY BucketsAssumption DEF Buckets

\* An empty table is well formed.
LEMMA InitProperties ==
    ASSUME NEW Ptr
    PROVE  WellFormed(hash_init, Ptr) /\ Contents(hash_init) = {}
<1>1. hash_init \in [Buckets -> Seq(Elems(Ptr))] /\ \A b \in Buckets : hash_init[b] = <<>>
  BY DEF hash_init
<1>2. \A b \in Buckets : DOMAIN hash_init[b] = {}
  BY <1>1
<1> QED BY <1>1, <1>2 DEF WellFormed, Contents

\* A chain with an element before it
LEMMA ConsProperties ==
    ASSUME NEW S, NEW s \in Seq(S), NEW e \in S
    PROVE  LET t == <<e>> \o s IN
           /\ t \in Seq(S) /\ DOMAIN t = 1..(Len(s) + 1)
           /\ t[1] = e
           /\ \A i \in 2..(Len(s) + 1) : i - 1 \in DOMAIN s /\ t[i] = s[i - 1]
           /\ \A i \in DOMAIN s : i + 1 \in DOMAIN t /\ t[i + 1] = s[i]
<1> DEFINE t == <<e>> \o s
<1>1. <<e>> \in Seq(S) /\ Len(<<e>>) = 1 /\ <<e>>[1] = e
  OBVIOUS
<1>2. /\ t \in Seq(S) /\ Len(t) = 1 + Len(s)
      /\ \A i \in 1..(1 + Len(s)) : t[i] = IF i <= 1 THEN <<e>>[i] ELSE s[i - 1]
  <2> DEFINE u == <<e>>
  <2>1. u \in Seq(S) /\ Len(u) = 1
    BY <1>1
  <2> HIDE DEF u
  <2> QED BY <2>1, ConcatProperties
<1> HIDE DEF t
<1>3. DOMAIN s = 1..Len(s) /\ DOMAIN t = 1..Len(t) /\ Len(s) \in Nat
  BY <1>2, LenProperties
<1> QED BY <1>1, <1>2, <1>3 DEF t

\* hash_insert keeps a table well formed and adds its element at most (util.c:416-447).
LEMMA InsertProperties ==
    ASSUME NEW Ptr, NEW h, WellFormed(h, Ptr), NEW e \in Elems(Ptr)
    PROVE  /\ WellFormed(hash_insert(h, e), Ptr)
           /\ Contents(hash_insert(h, e)) \subseteq Contents(h) \cup {e}
<1>1. CASE Holds(h, e.key)
  BY <1>1 DEF hash_insert
<1>2. CASE ~Holds(h, e.key)
  <2> DEFINE k == e.key % NBuckets
             g == hash_insert(h, e)
             t == <<e>> \o h[k]
  <2>1. k \in Buckets /\ e.key \in Nat
    BY KeyHasChain DEF Elems
  <2>2. g = [h EXCEPT ![k] = t]
    BY <1>2 DEF hash_insert
  <2>3. h \in [Buckets -> Seq(Elems(Ptr))] /\ h[k] \in Seq(Elems(Ptr))
    BY <2>1 DEF WellFormed
  <2>4. \A i \in DOMAIN h[k] : h[k][i].key # e.key
    BY <1>2 DEF Holds, Positions, Chain
  <2>5. /\ t \in Seq(Elems(Ptr)) /\ DOMAIN t = 1..(Len(h[k]) + 1) /\ t[1] = e
        /\ \A i \in 2..(Len(h[k]) + 1) : i - 1 \in DOMAIN h[k] /\ t[i] = h[k][i - 1]
    BY <2>3, ConsProperties
  <2>6. Len(h[k]) \in Nat
    BY <2>3, LenProperties
  <2> HIDE DEF k, g, t
  <2>7. g \in [Buckets -> Seq(Elems(Ptr))] /\ g[k] = t /\ \A b \in Buckets \ {k} : g[b] = h[b]
    BY <2>1, <2>2, <2>3, <2>5
  <2>8. \A i \in DOMAIN t : i = 1 \/ (i \in 2..(Len(h[k]) + 1) /\ i - 1 \in DOMAIN h[k]
                                     /\ t[i] = h[k][i - 1])
    BY <2>5, <2>6
  <2>9. ASSUME NEW i \in DOMAIN t
        PROVE  /\ t[i].key % NBuckets = k
               /\ \A j \in DOMAIN t : t[i].key = t[j].key => i = j
    <3>1. \A j \in DOMAIN h[k] : /\ h[k][j].key % NBuckets = k
                                 /\ \A l \in DOMAIN h[k] : h[k][j].key = h[k][l].key => j = l
      BY <2>1 DEF WellFormed
    <3>2. e.key % NBuckets = k
      BY DEF k
    <3>3. t[i].key % NBuckets = k
      BY <2>5, <2>8, <3>1, <3>2
    <3>4. ASSUME NEW j \in DOMAIN t, t[i].key = t[j].key PROVE i = j
      <4>1. CASE i = 1 \/ j = 1
        BY <2>4, <2>5, <2>8, <3>4, <4>1
      <4>2. CASE i # 1 /\ j # 1
        <5>1. i - 1 = j - 1
          BY <2>8, <3>1, <3>4, <4>2
        <5> QED BY <2>5, <2>6, <5>1
      <4> QED BY <4>1, <4>2
    <3> QED BY <3>3, <3>4
  <2>10. WellFormed(g, Ptr)
    BY <2>7, <2>9 DEF WellFormed
  <2>11. Contents(g) \subseteq Contents(h) \cup {e}
    <3>1. ASSUME NEW b \in Buckets, NEW i \in DOMAIN g[b] PROVE g[b][i] \in Contents(h) \cup {e}
      <4>1. CASE b # k
        BY <2>7, <4>1 DEF Contents
      <4>2. CASE b = k
        BY <2>1, <2>5, <2>7, <2>8, <4>2 DEF Contents
      <4> QED BY <4>1, <4>2
    <3> QED BY <3>1 DEF Contents
  <2> QED BY <2>10, <2>11 DEF g
<1> QED BY <1>1, <1>2

\* A chain that lost one place: where its elements were.
LEMMA ShrunkChain ==
    ASSUME NEW Ptr, NEW h, WellFormed(h, Ptr), NEW k \in Buckets, NEW t \in Seq(Elems(Ptr)),
           NEW f, \A i \in DOMAIN t : f[i] \in DOMAIN h[k] /\ t[i] = h[k][f[i]],
           \A i, j \in DOMAIN t : f[i] = f[j] => i = j
    PROVE  /\ WellFormed([h EXCEPT ![k] = t], Ptr)
           /\ Contents([h EXCEPT ![k] = t]) \subseteq Contents(h)
<1> DEFINE g == [h EXCEPT ![k] = t]
<1>1. h \in [Buckets -> Seq(Elems(Ptr))]
  BY DEF WellFormed
<1>2. g \in [Buckets -> Seq(Elems(Ptr))] /\ g[k] = t /\ \A b \in Buckets \ {k} : g[b] = h[b]
  BY <1>1
<1> HIDE DEF g
<1>3. ASSUME NEW i \in DOMAIN t
      PROVE  /\ t[i].key % NBuckets = k
             /\ \A j \in DOMAIN t : t[i].key = t[j].key => i = j
  <2>1. \A j \in DOMAIN h[k] : /\ h[k][j].key % NBuckets = k
                               /\ \A l \in DOMAIN h[k] : h[k][j].key = h[k][l].key => j = l
    BY DEF WellFormed
  <2>2. \A j \in DOMAIN t : t[i].key = t[j].key => f[i] = f[j]
    BY <2>1
  <2> QED BY <2>1, <2>2
<1>4. WellFormed(g, Ptr)
  BY <1>2, <1>3 DEF WellFormed
<1>5. ASSUME NEW b \in Buckets, NEW i \in DOMAIN g[b] PROVE g[b][i] \in Contents(h)
  BY <1>2 DEF Contents
<1> QED BY <1>4, <1>5 DEF g, Contents

\* The walk along a chain ends at the place of the key.
LEMMA FirstProperties ==
    ASSUME NEW Ptr, NEW h, WellFormed(h, Ptr), NEW key \in Nat, Holds(h, key)
    PROVE  /\ First(h, key) \in DOMAIN Chain(h, key)
           /\ Chain(h, key)[First(h, key)].key = key
           /\ \A i \in DOMAIN Chain(h, key) : Chain(h, key)[i].key = key => i = First(h, key)
<1> DEFINE P == Positions(h, key)
<1>1. PICK p : p \in P
  BY DEF Holds
<1>2. Chain(h, key) = h[key % NBuckets] /\ key % NBuckets \in Buckets
  BY KeyHasChain DEF Chain
<1>3. \A i \in P : i = p
  BY <1>1, <1>2 DEF WellFormed, Positions
<1>4. p \in Int
  <2>1. h[key % NBuckets] \in Seq(Elems(Ptr))
    BY <1>2 DEF WellFormed
  <2>2. DOMAIN h[key % NBuckets] = 1..Len(h[key % NBuckets])
    BY <2>1, LenProperties
  <2> QED BY <1>1, <1>2, <2>2 DEF Positions
<1>5. p \in P /\ \A j \in P : p <= j
  BY <1>1, <1>3, <1>4
<1>6. First(h, key) = p
  BY <1>3, <1>5 DEF First
<1> QED BY <1>1, <1>3, <1>6 DEF Positions

\* hash_get finds what hash_insert put there (util.c:489-511).
LEMMA GetProperties ==
    ASSUME NEW Ptr, NEW h, WellFormed(h, Ptr), NEW e \in Elems(Ptr), ~Holds(h, e.key)
    PROVE  LET g == hash_insert(h, e) IN Holds(g, e.key) /\ hash_get(g, e.key) = e.ptr
<1> DEFINE k == e.key % NBuckets
           g == hash_insert(h, e)
           t == <<e>> \o h[k]
<1>1. k \in Buckets /\ e.key \in Nat
  BY KeyHasChain DEF Elems
<1>2. h \in [Buckets -> Seq(Elems(Ptr))] /\ h[k] \in Seq(Elems(Ptr))
  BY <1>1 DEF WellFormed
<1>3. t[1] = e /\ 1 \in DOMAIN t
  <2>1. DOMAIN t = 1..(Len(h[k]) + 1) /\ t[1] = e
    BY <1>2, ConsProperties
  <2>2. Len(h[k]) \in Nat
    BY <1>2, LenProperties
  <2> QED BY <2>1, <2>2
<1>4. Chain(g, e.key) = t
  <2> HIDE DEF t
  <2> QED BY <1>1, <1>2 DEF hash_insert, Chain, t
<1> HIDE DEF t
<1>5. 1 \in Positions(g, e.key)
  BY <1>3, <1>4 DEF Positions
<1>6. WellFormed(g, Ptr) /\ Holds(g, e.key)
  BY <1>5, InsertProperties DEF Holds
<1> HIDE DEF g
<1>7. First(g, e.key) = 1
  BY <1>1, <1>3, <1>4, <1>6, FirstProperties
<1> QED BY <1>3, <1>4, <1>6, <1>7 DEF hash_get, g

\* hash_remove keeps a table well formed, adds nothing, and nothing of the key is left
\* (util.c:555-639).
LEMMA RemoveProperties ==
    ASSUME NEW Ptr, NEW h, WellFormed(h, Ptr), NEW key \in Nat
    PROVE  /\ WellFormed(hash_remove(h, key), Ptr)
           /\ Contents(hash_remove(h, key)) \subseteq Contents(h)
           /\ \A e \in Contents(hash_remove(h, key)) : e.key # key
<1>1. CASE ~Holds(h, key)
  <2>1. \A b \in Buckets : \A i \in DOMAIN h[b] : h[b][i].key # key
    BY <1>1 DEF WellFormed, Holds, Positions, Chain
  <2> QED BY <1>1, <2>1 DEF hash_remove, Contents
<1>2. CASE Holds(h, key)
  <2> DEFINE k == key % NBuckets
             s == h[k]
             n == First(h, key)
             t == Without(s, n)
             f == [i \in 1..(Len(s) - 1) |-> IF i < n THEN i ELSE i + 1]
             g == [h EXCEPT ![k] = t]
  <2>1. k \in Buckets /\ s \in Seq(Elems(Ptr))
    BY KeyHasChain DEF WellFormed
  <2>2. /\ n \in DOMAIN s /\ s[n].key = key
        /\ \A i \in DOMAIN s : s[i].key = key => i = n
    BY <1>2, FirstProperties DEF Chain
  <2>3. DOMAIN s = 1..Len(s) /\ Len(s) \in Nat /\ \A i \in 1..Len(s) : s[i] \in Elems(Ptr)
    BY <2>1, LenProperties, ElementOfSeq
  <2> HIDE DEF n, s
  <2>4. DOMAIN t = 1..(Len(s) - 1) /\ \A i \in DOMAIN t : t[i] = s[f[i]]
    BY <2>2, <2>3 DEF Without
  <2>5. \A i \in DOMAIN t : f[i] \in DOMAIN s /\ f[i] # n
    BY <2>2, <2>3, <2>4
  <2>6. \A i, j \in DOMAIN t : f[i] = f[j] => i = j
    BY <2>2, <2>3, <2>4
  <2>7. t \in Seq(Elems(Ptr))
    <3>1. Len(s) - 1 \in Nat /\ \A i \in 1..(Len(s) - 1) : t[i] \in Elems(Ptr)
      BY <2>2, <2>3, <2>4, <2>5
    <3>2. t = [i \in 1..(Len(s) - 1) |-> t[i]]
      BY DEF Without
    <3> HIDE DEF t
    <3> QED BY <3>1, <3>2, IsASeq
  <2> HIDE DEF f, t
  <2>8. WellFormed(g, Ptr) /\ Contents(g) \subseteq Contents(h)
    BY <2>1, <2>4, <2>5, <2>6, <2>7, ShrunkChain DEF s
  <2>9. g[k] = t /\ \A b \in Buckets \ {k} : g[b] = h[b]
    BY <2>1 DEF WellFormed
  <2> HIDE DEF g
  <2>10. ASSUME NEW b \in Buckets, NEW i \in DOMAIN g[b] PROVE g[b][i].key # key
    <3>1. CASE b = k
      BY <2>2, <2>4, <2>5, <2>9, <3>1
    <3>2. CASE b # k
      BY <2>9, <3>2 DEF WellFormed
    <3> QED BY <3>1, <3>2
  <2>11. hash_remove(h, key) = g
    BY <1>2 DEF hash_remove, g, t, s, n, k
  <2> QED BY <2>8, <2>10, <2>11 DEF Contents
<1> QED BY <1>1, <1>2

\* hash_remove_head keeps a table well formed and adds nothing (util.c:538-553).
LEMMA RemoveHeadProperties ==
    ASSUME NEW Ptr, NEW h, WellFormed(h, Ptr)
    PROVE  /\ WellFormed(hash_remove_head(h), Ptr)
           /\ Contents(hash_remove_head(h)) \subseteq Contents(h)
<1> DEFINE full == {b \in Buckets : h[b] # <<>>}
           k == CHOOSE b \in full : \A c \in full : b <= c
<1>1. CASE full = {}
  BY <1>1 DEF hash_remove_head
<1>2. CASE full # {}
  <2>1. \E b \in full : \A c \in full : b <= c
    <3>1. full \subseteq Nat /\ full # {}
      BY <1>2, BucketsAssumption DEF Buckets
    <3> DEFINE R == OpToRel(<, Nat)
    <3>2. IsWellFoundedOn(R, Nat)
      BY NatLessThanWellFounded
    <3> HIDE DEF full, R
    <3>3. PICK b \in full : \A c \in full : ~(<<c, b>> \in R)
      BY <3>1, <3>2, WFMin
    <3>4. \A c \in full : ~(c < b)
      BY <3>1, <3>3 DEF R, OpToRel
    <3> QED BY <3>1, <3>4
  <2>2. k \in full
    <3> HIDE DEF full
    <3> QED BY <2>1
  <2>3. k \in Buckets /\ h[k] # <<>> /\ h[k] \in Seq(Elems(Ptr))
    BY <2>2 DEF WellFormed
  <2>4. hash_remove_head(h) = [h EXCEPT ![k] = Tail(@)]
    BY <1>2 DEF hash_remove_head
  <2> HIDE DEF full, k
  <2> DEFINE s == h[k]
             t == Tail(s)
             f == [i \in 1..Len(t) |-> i + 1]
             g == [h EXCEPT ![k] = t]
  <2>5. /\ t \in Seq(Elems(Ptr)) /\ Len(t) = Len(s) - 1
        /\ \A i \in 1..Len(t) : t[i] = s[i + 1]
    <3> HIDE DEF s
    <3>1. s \in Seq(Elems(Ptr)) /\ s # <<>>
      BY <2>3 DEF s
    <3> QED BY <3>1, HeadTailProperties
  <2>6. DOMAIN s = 1..Len(s) /\ Len(s) \in Nat /\ DOMAIN t = 1..Len(t)
    BY <2>3, <2>5, LenProperties
  <2> HIDE DEF t
  <2>7. /\ \A i \in DOMAIN t : f[i] \in DOMAIN s /\ t[i] = s[f[i]]
        /\ \A i, j \in DOMAIN t : f[i] = f[j] => i = j
    <3> HIDE DEF s
    <3> QED BY <2>5, <2>6
  <2> HIDE DEF f
  <2>8. WellFormed(g, Ptr) /\ Contents(g) \subseteq Contents(h)
    BY <2>3, <2>5, <2>7, ShrunkChain
  <2>9. hash_remove_head(h) = g
    BY <2>4 DEF g, t
  <2> QED BY <2>8, <2>9
<1> QED BY <1>1, <1>2

-----------------------------------------------------------------------------
(***************************************************************************)
(* A structure has one holder, and a thread its own socket                   *)
(***************************************************************************)

SessFields == {"in", "fd", "flags", "hashed", "cmds"}
ThrFields == {"pc", "s", "failed"}
DevFields == {"s", "c", "tag", "sent"}

\* The functions and records that the steps update are there.
SessShape == DOMAIN sess = Ids /\ \A s \in Ids : DOMAIN sess[s] = SessFields
ThrShape == DOMAIN thr = Conns /\ \A c \in Conns : DOMAIN thr[c] = ThrFields /\ thr[c].s \in Ids
DevShape == \A d \in dev : DOMAIN d = DevFields /\ d.s \in Ids
StopShape == DOMAIN stop = {"pc", "s"} /\ stop.s \in Nat /\ nsess \in 1..NSess
Shapes ==
    /\ SessShape /\ ThrShape /\ DevShape /\ StopShape /\ DOMAIN fds = Fds
    /\ DOMAIN lst = {"pc", "s"} /\ lst.s \in Ids
    /\ freeq \in Seq(Ids)

Free(s) == \E i \in 1..Len(freeq) : freeq[i] = s
Listens(s) == lst.pc = "accept" /\ lst.s = s
Serves(c, s) == thr[c].pc \in Serving /\ thr[c].s = s
OnSocket == {"start", "loop", "recv", "close"}

\* A session structure is in g_session_q once, with the listener or with one thread.
OneHolder ==
    /\ \A i, j \in 1..Len(freeq) : freeq[i] = freeq[j] => i = j
    /\ \A s \in Ids : Listens(s) => ~Free(s)
    /\ \A c \in Conns, s \in Ids : Serves(c, s) => ~Free(s) /\ ~Listens(s)
    /\ \A c, d \in Conns, s \in Ids : Serves(c, s) /\ Serves(d, s) => c = d

SocketInv == Shapes /\ OneHolder /\ SockIsMine

\* A thread that goes on in a session keeps its structure.
LEMMA GotoProperties ==
    ASSUME ThrShape, NEW c \in Conns, NEW pc, Goto(c, pc)
    PROVE  /\ ThrShape' /\ thr'[c].pc = pc /\ thr'[c].s = thr[c].s
           /\ \A d \in Conns \ {c} : thr'[d] = thr[d]
  BY DEF Goto, ThrShape, ThrFields

LEMMA FailsProperties ==
    ASSUME ThrShape, NEW c \in Conns, NEW pc, Fails(c, pc)
    PROVE  /\ ThrShape' /\ thr'[c].pc = pc /\ thr'[c].s = thr[c].s
           /\ \A d \in Conns \ {c} : thr'[d] = thr[d]
<1> PICK failed : failed = TRUE
  OBVIOUS
<1>1. thr' = [thr EXCEPT ![c].pc = pc, ![c].failed = failed]
  BY DEF Fails
<1> QED BY <1>1 DEF ThrShape, ThrFields

SameSockets == SessShape' /\ \A s \in Ids : sess'[s].fd = sess[s].fd

\* A step that moves no structure and no socket, and starts no thread
LEMMA SocketFrame ==
    ASSUME SocketInv, SameSockets, ThrShape', DevShape', StopShape', UNCHANGED <<fds, freeq>>,
           DOMAIN lst' = {"pc", "s"}, lst'.s \in Ids, lst'.pc = "accept" => UNCHANGED lst,
           \A c \in Conns : /\ thr'[c].s = thr[c].s
                            /\ thr'[c].pc \in Serving => thr[c].pc \in Serving
                            /\ thr'[c].pc \in OnSocket => thr[c].pc \in OnSocket
    PROVE  SocketInv'
<1>1. Shapes'
  BY DEF SocketInv, Shapes, SameSockets
<1>2. \A s \in Ids : /\ Free(s)' <=> Free(s)
                     /\ Listens(s)' => Listens(s)
                     /\ \A c \in Conns : Serves(c, s)' => Serves(c, s)
  BY DEF Free, Listens, Serves
<1>3. OneHolder'
  BY <1>2 DEF SocketInv, OneHolder
<1>4. SockIsMine'
  BY DEF SocketInv, SockIsMine, SameSockets, Shapes, ThrShape, OnSocket
<1> QED BY <1>1, <1>3, <1>4 DEF SocketInv

\* Where a thread's step neither takes nor gives a structure nor closes a socket
LEMMA ThreadFrame ==
    ASSUME SocketInv, NEW c \in Conns, NEW pc, SameSockets, DevShape', ThrShape',
           UNCHANGED <<nsess, stop, fds, freeq, lst>>,
           thr'[c].pc = pc, thr'[c].s = thr[c].s, \A d \in Conns \ {c} : thr'[d] = thr[d],
           pc \in Serving => thr[c].pc \in Serving, pc \in OnSocket => thr[c].pc \in OnSocket
    PROVE  SocketInv'
<1>1. StopShape'
  BY DEF SocketInv, Shapes, StopShape
<1>2. \A d \in Conns : /\ thr'[d].s = thr[d].s
                       /\ thr'[d].pc \in Serving => thr[d].pc \in Serving
                       /\ thr'[d].pc \in OnSocket => thr[d].pc \in OnSocket
  OBVIOUS
<1>3. DOMAIN lst' = {"pc", "s"} /\ lst'.s \in Ids
  BY DEF SocketInv, Shapes
<1> QED BY <1>1, <1>2, <1>3, SocketFrame

\* Start, the loop's head, a failed read and the handlers of PDUs leave the socket alone.
LEMMA ServeKeeps ==
    ASSUME SocketInv, NEW c \in Conns,
           ThreadStart(c) \/ ThreadLoop(c) \/ ThreadRecvFails(c) \/ ThreadLogin(c)
             \/ ThreadCommand(c) \/ ThreadLogout(c),
           UNCHANGED nsess
    PROVE  SocketInv'
<1> USE DEF SocketInv, Shapes
<1>1. CASE ThreadStart(c)
  <2>1. SameSockets
    BY <1>1 DEF ThreadStart, SameSockets, SessShape, ThrShape, SessFields
  <2>2. Goto(c, "loop") /\ thr[c].pc = "start" /\ UNCHANGED <<stop, fds, freeq, lst, dev>>
    BY <1>1 DEF ThreadStart
  <2>3. DevShape'
    BY <2>2 DEF DevShape
  <2> QED BY <2>1, <2>2, <2>3, GotoProperties, ThreadFrame DEF Serving, OnSocket
<1>2. CASE ThreadLoop(c)
  <2>1. SameSockets
    BY <1>2 DEF ThreadLoop, SameSockets, SessShape, ThrShape, SessFields
  <2>2. thr[c].pc = "loop" /\ UNCHANGED <<stop, fds, freeq, lst, dev>>
    BY <1>2 DEF ThreadLoop
  <2>4. /\ ThrShape' /\ thr'[c].pc \in {"close", "recv", "lost"} /\ thr'[c].s = thr[c].s
        /\ \A d \in Conns \ {c} : thr'[d] = thr[d]
    <3>1. Goto(c, "close") \/ Goto(c, "recv") \/ Fails(c, "lost")
      BY <1>2 DEF ThreadLoop
    <3> QED BY <3>1, GotoProperties, FailsProperties
  <2>5. DevShape'
    BY <2>2 DEF DevShape
  <2> QED BY <2>1, <2>2, <2>4, <2>5, ThreadFrame DEF Serving, OnSocket
<1>3. CASE ThreadRecvFails(c)
  <2>1. SameSockets /\ DevShape'
    BY <1>3 DEF ThreadRecvFails, SameSockets, SessShape, DevShape
  <2>2. /\ Goto(c, "close") /\ thr[c].pc = "recv"
        /\ UNCHANGED <<stop, fds, freeq, lst>>
    BY <1>3 DEF ThreadRecvFails
  <2> QED BY <2>1, <2>2, GotoProperties, ThreadFrame DEF Serving, OnSocket
<1>4. CASE ThreadLogin(c) \/ ThreadLogout(c) \/ ThreadCommand(c)
  <2>1. SameSockets
    <3>1. CASE ThreadLogin(c)
      BY <3>1 DEF ThreadLogin, SameSockets, SessShape, ThrShape, SessFields
    <3>2. CASE ThreadLogout(c)
      BY <3>2 DEF ThreadLogout, SameSockets, SessShape, ThrShape, SessFields
    <3>3. CASE ThreadCommand(c)
      BY <3>3 DEF ThreadCommand, SameSockets, SessShape, ThrShape, SessFields
    <3> QED BY <1>4, <3>1, <3>2, <3>3
  <2>2. thr[c].pc = "recv" /\ UNCHANGED <<stop, fds, freeq, lst>>
    BY <1>4 DEF ThreadLogin, ThreadLogout, ThreadCommand, Received
  <2>4. /\ ThrShape' /\ thr'[c].pc \in {"close", "loop"} /\ thr'[c].s = thr[c].s
        /\ \A d \in Conns \ {c} : thr'[d] = thr[d]
    <3>1. Goto(c, "close") \/ Goto(c, "loop") \/ Fails(c, "close")
      BY <1>4 DEF ThreadLogin, ThreadLogout, ThreadCommand, Handled, HandlerFails
    <3> QED BY <3>1, GotoProperties, FailsProperties
  <2>5. DevShape'
    BY <1>4 DEF ThreadLogin, ThreadLogout, ThreadCommand, DevShape, DevFields, ThrShape
  <2> QED BY <2>1, <2>2, <2>4, <2>5, ThreadFrame DEF Serving, OnSocket
<1> QED BY <1>1, <1>2, <1>3, <1>4

\* A thread closes its own socket, then gives up its structure and only ends.
LEMMA EndKeeps ==
    ASSUME SocketInv, NEW c \in Conns,
           ThreadClose(c) \/ ThreadDrain(c) \/ ThreadReturn(c) \/ ThreadClear(c) \/ ThreadExit(c),
           UNCHANGED nsess
    PROVE  SocketInv'
<1> USE DEF SocketInv, Shapes
<1>1. CASE ThreadClose(c)
  <2>1. PICK f : f = sess[thr[c].s].fd
    OBVIOUS
  <2>2. /\ thr[c].pc = "close" /\ Goto(c, "drain") /\ fds' = [fds EXCEPT ![f] = NoConn]
        /\ UNCHANGED <<stop, freeq, lst, dev, sess>>
    BY <1>1, <2>1 DEF ThreadClose
  <2>3. /\ ThrShape' /\ thr'[c].pc = "drain" /\ thr'[c].s = thr[c].s
        /\ \A d \in Conns \ {c} : thr'[d] = thr[d]
    BY <2>2, GotoProperties
  <2>4. DOMAIN fds' = Fds /\ \A g \in Fds \ {f} : fds'[g] = fds[g]
    BY <2>2
  <2>5. Shapes'
    BY <2>2, <2>3, <2>4 DEF SessShape, DevShape, StopShape
  <2>6. \A s \in Ids : /\ Free(s)' <=> Free(s)
                       /\ Listens(s)' => Listens(s)
                       /\ \A d \in Conns : Serves(d, s)' => Serves(d, s)
    BY <2>2, <2>3 DEF Free, Listens, Serves, Serving
  <2>7. OneHolder'
    BY <2>2, <2>6 DEF OneHolder
  <2>8. fds[f] = c
    BY <2>1, <2>2 DEF SockIsMine
  <2>9. SockIsMine'
    <3> SUFFICES ASSUME NEW d \in Conns, thr'[d].pc \in OnSocket
                 PROVE  sess'[thr'[d].s].fd # NoFd /\ fds'[sess'[thr'[d].s].fd] = d
      BY DEF SockIsMine, OnSocket
    <3>1. d # c /\ thr'[d] = thr[d]
      BY <2>3 DEF OnSocket
    <3>2. sess[thr[d].s].fd # NoFd /\ fds[sess[thr[d].s].fd] = d
      BY <3>1 DEF SockIsMine, OnSocket
    <3>3. sess[thr[d].s].fd # f
      BY <2>8, <3>1, <3>2
    <3>4. fds'[sess[thr[d].s].fd] = fds[sess[thr[d].s].fd]
      BY <2>2, <3>3
    <3> QED BY <2>2, <3>1, <3>2, <3>4
  <2> QED BY <2>5, <2>7, <2>9
<1>2. CASE ThreadReturn(c)
  <2>1. PICK s : s = thr[c].s
    OBVIOUS
  <2>2. /\ thr[c].pc = "return" /\ Goto(c, "clear") /\ freeq' = Append(freeq, s) /\ s \in Ids
        /\ UNCHANGED <<stop, lst, dev, sess, fds>>
    BY <1>2, <2>1 DEF ThreadReturn, ThrShape
  <2>3. /\ ThrShape' /\ thr'[c].pc = "clear" /\ thr'[c].s = s
        /\ \A d \in Conns \ {c} : thr'[d] = thr[d]
    BY <2>1, <2>2, GotoProperties
  <2>4. Serves(c, s)
    BY <2>1, <2>2 DEF Serves, Serving
  <2>5. ~Free(s) /\ ~Listens(s) /\ \A d \in Conns : Serves(d, s) => d = c
    BY <2>2, <2>4 DEF OneHolder
  <2>6. /\ freeq' \in Seq(Ids) /\ Len(freeq') = Len(freeq) + 1 /\ freeq'[Len(freeq) + 1] = s
        /\ \A i \in 1..Len(freeq) : freeq'[i] = freeq[i]
        /\ Len(freeq) \in Nat
    BY <2>2, AppendProperties, LenProperties
  <2>7. \A t \in Ids : /\ Free(t)' => Free(t) \/ t = s
                       /\ Listens(t)' => Listens(t)
                       /\ \A d \in Conns : Serves(d, t)' => Serves(d, t) /\ d # c
    BY <2>2, <2>3, <2>6 DEF Free, Listens, Serves, Serving
  <2>8. \A i, j \in 1..Len(freeq') : freeq'[i] = freeq'[j] => i = j
    BY <2>5, <2>6 DEF OneHolder, Free
  <2>9. OneHolder'
    BY <2>5, <2>7, <2>8 DEF OneHolder
  <2>10. SockIsMine'
    BY <2>2, <2>3 DEF SockIsMine
  <2>11. Shapes'
    BY <2>2, <2>3, <2>6 DEF SessShape, DevShape, StopShape
  <2> QED BY <2>9, <2>10, <2>11
<1>3. CASE ThreadDrain(c) \/ ThreadClear(c) \/ ThreadExit(c)
  <2>1. SameSockets
    <3>1. CASE ThreadDrain(c)
      BY <3>1 DEF ThreadDrain, SameSockets, SessShape, ThrShape, SessFields
    <3>2. CASE ThreadClear(c)
      BY <3>2 DEF ThreadClear, SameSockets, SessShape, ThrShape, SessFields
    <3>3. CASE ThreadExit(c)
      BY <3>3 DEF ThreadExit, SameSockets, SessShape, ThrShape, SessFields
    <3> QED BY <1>3, <3>1, <3>2, <3>3
  <2>2. UNCHANGED <<stop, fds, freeq, lst, dev>>
    BY <1>3 DEF ThreadDrain, ThreadClear, ThreadExit
  <2>3. \/ UNCHANGED thr
        \/ thr[c].pc = "drain" /\ Goto(c, "return")
        \/ thr[c].pc = "clear" /\ Goto(c, "exit")
        \/ thr[c].pc = "exit" /\ Goto(c, "gone")
    BY <1>3 DEF ThreadDrain, ThreadClear, ThreadExit
  <2>4. DevShape'
    BY <2>2 DEF DevShape
  <2>5. PICK pc : /\ ThrShape' /\ thr'[c].pc = pc /\ thr'[c].s = thr[c].s
                  /\ \A d \in Conns \ {c} : thr'[d] = thr[d]
                  /\ pc \in Serving => thr[c].pc \in Serving
                  /\ pc \in OnSocket => thr[c].pc \in OnSocket
    <3>1. CASE UNCHANGED thr
      BY <3>1 DEF ThrShape
    <3>2. CASE thr[c].pc = "drain" /\ Goto(c, "return")
      BY <3>2, GotoProperties DEF Serving, OnSocket
    <3>3. CASE thr[c].pc = "clear" /\ Goto(c, "exit")
      BY <3>3, GotoProperties DEF Serving, OnSocket
    <3>4. CASE thr[c].pc = "exit" /\ Goto(c, "gone")
      BY <3>4, GotoProperties DEF Serving, OnSocket
    <3> QED BY <2>3, <3>1, <3>2, <3>3, <3>4
  <2> QED BY <2>1, <2>2, <2>4, <2>5, ThreadFrame
<1> QED BY <1>1, <1>2, <1>3

\* The listener takes the structure at the head of g_session_q ...
LEMMA TakeKeeps ==
    ASSUME SocketInv, ListenerTake, UNCHANGED nsess
    PROVE  SocketInv'
<1> USE DEF SocketInv, Shapes
<1>1. CASE freeq = <<>>
  <2>1. lst' = [lst EXCEPT !.pc = "done"] /\ UNCHANGED <<freeq, sess, stop, thr, fds, dev>>
    BY <1>1 DEF ListenerTake
  <2>2. SameSockets /\ ThrShape' /\ DevShape' /\ StopShape'
    BY <2>1 DEF SameSockets, SessShape, ThrShape, DevShape, StopShape
  <2>3. DOMAIN lst' = {"pc", "s"} /\ lst'.s \in Ids /\ lst'.pc # "accept"
    BY <2>1
  <2> QED BY <2>1, <2>2, <2>3, SocketFrame
<1>2. CASE freeq # <<>>
  <2>1. PICK s : s = Head(freeq)
    OBVIOUS
  <2>2. /\ lst' = [pc |-> "accept", s |-> s]
        /\ freeq' = Tail(freeq) /\ sess' = [sess EXCEPT ![s] = Cleared]
        /\ UNCHANGED <<stop, thr, fds, dev>> /\ lst.pc = "take"
    BY <1>2, <2>1 DEF ListenerTake
  <2>3. /\ s \in Ids /\ freeq' \in Seq(Ids) /\ Len(freeq) \in Nat /\ Len(freeq) # 0
        /\ s = freeq[1] /\ Len(freeq') = Len(freeq) - 1
        /\ \A i \in 1..Len(freeq') : freeq'[i] = freeq[i + 1]
    BY <1>2, <2>1, <2>2, HeadTailProperties, LenProperties, EmptySeq
  <2>4. Free(s)
    BY <2>3 DEF Free
  <2>5. \A r \in Ids : /\ Free(r)' => Free(r) /\ r # s
                       /\ Listens(r)' <=> r = s
                       /\ \A c \in Conns : Serves(c, r)' <=> Serves(c, r)
    <3>1. ASSUME NEW r \in Ids, Free(r)' PROVE Free(r) /\ r # s
      <4>1. PICK i \in 1..Len(freeq') : freeq'[i] = r
        BY <3>1 DEF Free
      <4>2. i + 1 \in 1..Len(freeq) /\ freeq[i + 1] = r /\ i + 1 # 1 /\ 1 \in 1..Len(freeq)
        BY <2>3, <4>1
      <4> QED BY <2>3, <4>2 DEF Free, OneHolder
    <3> QED BY <2>2, <3>1 DEF Listens, Serves
  <2>6. \A i, j \in 1..Len(freeq') : freeq'[i] = freeq'[j] => i = j
    <3> SUFFICES ASSUME NEW i \in 1..Len(freeq'), NEW j \in 1..Len(freeq'), freeq'[i] = freeq'[j]
                 PROVE  i = j
      OBVIOUS
    <3>1. i + 1 \in 1..Len(freeq) /\ j + 1 \in 1..Len(freeq) /\ freeq[i + 1] = freeq[j + 1]
      BY <2>3
    <3>2. i + 1 = j + 1
      BY <3>1 DEF OneHolder
    <3> QED BY <3>2
  <2>7. OneHolder'
    BY <2>4, <2>5, <2>6 DEF OneHolder
  <2>8. SessShape' /\ \A r \in Ids \ {s} : sess'[r] = sess[r]
    <3>1. DOMAIN Cleared = SessFields
      BY DEF Cleared, SessFields
    <3> QED BY <2>2, <3>1 DEF SessShape
  <2>9. Shapes'
    BY <2>2, <2>3, <2>8 DEF ThrShape, DevShape, StopShape
  <2>10. SockIsMine'
    <3> SUFFICES ASSUME NEW c \in Conns, thr[c].pc \in OnSocket
                 PROVE  sess'[thr[c].s].fd # NoFd /\ fds[sess'[thr[c].s].fd] = c
      BY <2>2 DEF SockIsMine, OnSocket
    <3>1. Serves(c, thr[c].s) /\ thr[c].s \in Ids
      BY DEF Serves, OnSocket, Serving, ThrShape
    <3>2. thr[c].s # s
      BY <2>4, <3>1 DEF OneHolder
    <3> QED BY <2>8, <3>1, <3>2 DEF SockIsMine, OnSocket
  <2> QED BY <2>7, <2>9, <2>10
<1> QED BY <1>1, <1>2

\* ... and gives it to the thread of the connection that it accepts.
LEMMA AcceptKeeps ==
    ASSUME SocketInv, NEW c \in Conns, ListenerAccept(c), UNCHANGED nsess
    PROVE  SocketInv'
<1> USE DEF SocketInv, Shapes
<1>1. PICK f \in Fds : /\ fds[f] = NoConn /\ fds' = [fds EXCEPT ![f] = c]
                       /\ sess' = [sess EXCEPT ![lst.s].fd = f, ![lst.s].flags = {}]
  BY DEF ListenerAccept
<1>2. /\ lst.pc = "accept" /\ thr' = [thr EXCEPT ![c].pc = "start", ![c].s = lst.s]
      /\ lst' = [lst EXCEPT !.pc = "started"] /\ UNCHANGED <<stop, freeq, dev>>
  BY DEF ListenerAccept
<1>3. /\ ThrShape' /\ thr'[c].pc = "start" /\ thr'[c].s = lst.s
      /\ \A d \in Conns \ {c} : thr'[d] = thr[d]
  BY <1>2 DEF ThrShape, ThrFields
<1>4. /\ SessShape' /\ sess'[lst.s].fd = f
      /\ \A s \in Ids \ {lst.s} : sess'[s].fd = sess[s].fd
  BY <1>1 DEF SessShape, SessFields
<1>5. /\ DOMAIN lst' = {"pc", "s"} /\ lst'.s = lst.s /\ lst'.pc # "accept"
      /\ DOMAIN fds' = Fds /\ fds'[f] = c /\ \A g \in Fds \ {f} : fds'[g] = fds[g]
  BY <1>1, <1>2
<1>6. Shapes'
  BY <1>2, <1>3, <1>4, <1>5 DEF DevShape, StopShape
<1>7. Listens(lst.s) /\ lst.s \in Ids
  BY <1>2 DEF Listens
<1>8. \A s \in Ids : /\ Free(s)' <=> Free(s)
                     /\ ~Listens(s)'
                     /\ Serves(c, s)' => s = lst.s
                     /\ \A d \in Conns \ {c} : Serves(d, s)' <=> Serves(d, s)
  BY <1>2, <1>3, <1>5 DEF Free, Listens, Serves
<1>9. ~Free(lst.s) /\ \A d \in Conns : ~Serves(d, lst.s)
  BY <1>7 DEF OneHolder
<1>10. OneHolder'
  <2>1. \A i, j \in 1..Len(freeq') : freeq'[i] = freeq'[j] => i = j
    BY <1>2 DEF OneHolder
  <2>2. \A d \in Conns, s \in Ids : Serves(d, s)' => ~Free(s)' /\ ~Listens(s)'
    BY <1>8, <1>9 DEF OneHolder
  <2>3. ASSUME NEW d \in Conns, NEW e \in Conns, NEW s \in Ids, Serves(d, s)', Serves(e, s)'
        PROVE  d = e
    BY <1>8, <1>9, <2>3 DEF OneHolder
  <2> QED BY <1>8, <2>1, <2>2, <2>3 DEF OneHolder
<1>11. SockIsMine'
  <2> SUFFICES ASSUME NEW d \in Conns, thr'[d].pc \in OnSocket
               PROVE  sess'[thr'[d].s].fd # NoFd /\ fds'[sess'[thr'[d].s].fd] = d
    BY DEF SockIsMine, OnSocket
  <2>1. CASE d = c
    BY <1>3, <1>4, <1>5, <2>1 DEF Fds, NoFd
  <2>2. CASE d # c
    <3>1. thr'[d] = thr[d] /\ thr[d].s \in Ids /\ thr[d].pc \in OnSocket
      BY <1>3, <2>2 DEF ThrShape
    <3>2. Serves(d, thr[d].s)
      BY <3>1 DEF Serves, OnSocket, Serving
    <3>3. thr[d].s # lst.s
      BY <1>9, <3>1, <3>2
    <3>4. sess[thr[d].s].fd # NoFd /\ fds[sess[thr[d].s].fd] = d
      BY <3>1 DEF SockIsMine, OnSocket
    <3>5. d # NoConn
      BY DEF Conns, NoConn
    <3>6. sess[thr[d].s].fd # f
      BY <1>1, <3>4, <3>5
    <3>7. fds'[sess[thr[d].s].fd] = fds[sess[thr[d].s].fd]
      BY <1>1, <3>6
    <3> QED BY <1>4, <3>1, <3>3, <3>4, <3>7
  <2> QED BY <2>1, <2>2
<1> QED BY <1>6, <1>10, <1>11

\* Everything else leaves the holders of the structures and the sockets alone.
LEMMA OthersKeep ==
    ASSUME SocketInv, UNCHANGED nsess,
           \/ ListenerStarted \/ Initiators \/ Interrupt \/ Handler
           \/ \E d \in dev : Respond(d) \/ Forget(d)
    PROVE  SocketInv'
<1> USE DEF SocketInv, Shapes
<1>1. CASE Initiators
  <2>1. UNCHANGED <<freeq, sess, stop, lst, thr, fds, dev>>
    BY <1>1 DEF Initiators, Connect, SendPdu, Close
  <2>2. SameSockets /\ ThrShape' /\ DevShape' /\ StopShape'
    BY <2>1 DEF SameSockets, SessShape, ThrShape, DevShape, StopShape
  <2> QED BY <2>1, <2>2, SocketFrame
<1>2. CASE ListenerStarted
  <2>1. /\ DOMAIN lst' = {"pc", "s"} /\ lst'.s = 0 /\ lst'.pc # "accept"
        /\ UNCHANGED <<freeq, sess, stop, thr, fds, dev>>
    BY <1>2 DEF ListenerStarted
  <2>2. SameSockets /\ ThrShape' /\ DevShape' /\ StopShape'
    BY <2>1 DEF SameSockets, SessShape, ThrShape, DevShape, StopShape
  <2>3. 0 \in Ids
    BY TargetSizes DEF Ids
  <2> QED BY <2>1, <2>2, <2>3, SocketFrame
<1>3. CASE Interrupt \/ StopWait \/ ShutDown
  <2>1. StopShape' /\ UNCHANGED <<freeq, sess, lst, thr, fds, dev>>
    <3>1. CASE Interrupt
      BY <3>1 DEF Interrupt, StopShape, envVars, poolVars
    <3>2. CASE StopWait
      BY <3>2 DEF StopWait, StopShape, envVars, poolVars
    <3>3. CASE ShutDown
      BY <3>3 DEF ShutDown, StopShape, envVars, poolVars
    <3> QED BY <1>3, <3>1, <3>2, <3>3
  <2>2. SameSockets /\ ThrShape' /\ DevShape'
    BY <2>1 DEF SameSockets, SessShape, ThrShape, DevShape
  <2> QED BY <2>1, <2>2, SocketFrame
<1>4. CASE StopSession
  <2>1. StopShape' /\ UNCHANGED <<freeq, lst, thr, fds, dev>>
    BY <1>4 DEF StopSession, StopShape
  <2>2. stop.s \in Ids
    BY <1>4, TargetSizes DEF StopSession, StopShape, Ids
  <2>3. SameSockets
    BY <1>4, <2>2 DEF StopSession, SameSockets, SessShape, SessFields
  <2>4. ThrShape' /\ DevShape'
    BY <2>1 DEF ThrShape, DevShape
  <2> QED BY <2>1, <2>3, <2>4, SocketFrame
<1>5. ASSUME NEW d \in dev, Respond(d) \/ Forget(d) PROVE SocketInv'
  <2>1. UNCHANGED <<stop, freeq, lst, thr, fds>>
    BY <1>5 DEF Respond, Forget
  <2>2. d.s \in Ids /\ DOMAIN d = DevFields
    BY DEF DevShape
  <2>3. SameSockets
    BY <1>5, <2>2 DEF Respond, Forget, SameSockets, SessShape, SessFields
  <2>4. DevShape'
    <3> PICK sent : sent = TRUE
      OBVIOUS
    <3>1. dev' \subseteq dev \union {[d EXCEPT !.sent = sent]}
      BY <1>5 DEF Respond, Forget
    <3>2. DOMAIN [d EXCEPT !.sent = sent] = DevFields /\ [d EXCEPT !.sent = sent].s = d.s
      BY <2>2 DEF DevFields
    <3> QED BY <2>2, <3>1, <3>2 DEF DevShape
  <2>5. ThrShape' /\ StopShape'
    BY <2>1 DEF ThrShape, StopShape
  <2> QED BY <2>1, <2>3, <2>4, <2>5, SocketFrame
<1> QED BY <1>1, <1>2, <1>3, <1>4, <1>5 DEF Handler

LEMMA InitSockets == Init => SocketInv
<1> SUFFICES ASSUME Init PROVE SocketInv
  OBVIOUS
<1>1. freeq = [i \in 1..nsess |-> i - 1] /\ nsess \in 1..NSess /\ dev = {}
  BY DEF Init
<1>2. freeq \in Seq(Ids) /\ Len(freeq) = nsess
  BY <1>1, TargetSizes DEF Ids
<1>3. /\ stop = [pc |-> "no", s |-> 0] /\ lst = [pc |-> "take", s |-> 0] /\ 0 \in Ids
      /\ sess = [s \in Ids |-> Cleared] /\ fds = [f \in Fds |-> NoConn]
      /\ thr = [c \in Conns |-> [pc |-> "none", s |-> 0, failed |-> FALSE]]
  BY TargetSizes DEF Init, Ids
<1>4. SessShape /\ DevShape /\ StopShape /\ ThrShape
  <2>1. DOMAIN Cleared = SessFields
    BY DEF Cleared, SessFields
  <2>2. \A c \in Conns : DOMAIN thr[c] = ThrFields /\ thr[c].s = 0 /\ thr[c].pc = "none"
    BY <1>3 DEF ThrFields
  <2> QED BY <1>1, <1>3, <2>1, <2>2 DEF SessShape, DevShape, StopShape, ThrShape
<1>5. Shapes
  BY <1>2, <1>3, <1>4 DEF Shapes
<1>6. \A c \in Conns : thr[c].pc = "none"
  BY <1>3
<1>7. OneHolder
  BY <1>1, <1>2, <1>3, <1>6 DEF OneHolder, Free, Listens, Serves, Serving
<1>8. SockIsMine
  BY <1>6 DEF SockIsMine
<1> QED BY <1>5, <1>7, <1>8 DEF SocketInv

LEMMA NextSockets == SocketInv /\ [Next]_vars => SocketInv'
<1> SUFFICES ASSUME SocketInv, [Next]_vars PROVE SocketInv'
  OBVIOUS
<1>1. CASE UNCHANGED vars
  BY <1>1 DEF vars, SocketInv, Shapes, SessShape, ThrShape, DevShape, StopShape,
       OneHolder, Free, Listens, Serves, SockIsMine
<1>2. CASE Next
  <2>1. UNCHANGED nsess
    BY <1>2 DEF Next, Step
  <2>2. CASE Listener
    BY <2>1, <2>2, TakeKeeps, AcceptKeeps, OthersKeep DEF Listener
  <2>3. CASE \E c \in Conns : Thread(c)
    BY <2>1, <2>3, ServeKeeps, EndKeeps DEF Thread
  <2>4. CASE Initiators \/ Luns \/ Interrupt \/ Handler
    BY <2>1, <2>4, OthersKeep DEF Luns
  <2> QED BY <1>2, <2>2, <2>3, <2>4 DEF Next, Step
<1> QED BY <1>1, <1>2

\* Until it closes it, a thread's socket is the connection it was started for.
THEOREM OwnSocket == Spec => []SockIsMine
<1>1. SocketInv => SockIsMine
  BY DEF SocketInv
<1> QED BY InitSockets, NextSockets, <1>1, PTL DEF Spec

-----------------------------------------------------------------------------
(***************************************************************************)
(* What the hash of a session holds is at a LUN                              *)
(***************************************************************************)

NetFields == {"st", "half", "in", "n", "out"}
Requests == [op : {"login", "logout"}] \union [op : {"command"}, tag : Nat]

\* Tags are natural numbers, on the wire and at the LUNs.
NetShape ==
    /\ DOMAIN net = Conns
    /\ \A c \in Conns : /\ DOMAIN net[c] = NetFields
                        /\ net[c].in \in Seq(Requests) /\ net[c].n \in Nat
TagShape == \A d \in dev : d.tag \in Nat
HashShape == \A s \in Ids : WellFormed(sess[s].cmds, Conns)

HashInv == SocketInv /\ NetShape /\ TagShape /\ HashShape /\ HashIsAtLun

\* What the target does to a connection: it takes a PDU, or changes its state.
LEMMA NetKeeps ==
    ASSUME NetShape, Next
    PROVE  NetShape'
<1> USE DEF NetShape
<1>1. ASSUME NEW c \in Conns, Connect(c) PROVE NetShape'
  <2>1. /\ <<[op |-> "login"]>> \in Seq(Requests)
        /\ net' = [net EXCEPT ![c].st = "backlog", ![c].in = <<[op |-> "login"]>>, ![c].n = 1]
    BY <1>1 DEF Connect, Requests
  <2> QED BY <2>1 DEF NetFields
<1>2. ASSUME NEW c \in Conns, SendPdu(c) PROVE NetShape'
  <2>1. NewTag(c) \in Nat
    BY BucketsAssumption DEF NewTag
  <2>2. PICK yes : yes = TRUE
    OBVIOUS
  <2>3. \/ net' = [net EXCEPT ![c].in = Append(@, [op |-> "command", tag |-> NewTag(c)]),
                             ![c].n = @ + 1]
        \/ net' = [net EXCEPT ![c].in = Append(@, [op |-> "logout"]), ![c].out = yes]
    BY <1>2, <2>2 DEF SendPdu
  <2>4. [op |-> "command", tag |-> NewTag(c)] \in Requests /\ [op |-> "logout"] \in Requests
    BY <2>1 DEF Requests
  <2>5. \A r \in Requests : Append(net[c].in, r) \in Seq(Requests)
    OBVIOUS
  <2>7. PICK q : q = Append(net[c].in, [op |-> "command", tag |-> NewTag(c)])
    OBVIOUS
  <2>8. PICK r : r = Append(net[c].in, [op |-> "logout"])
    OBVIOUS
  <2>9. q \in Seq(Requests) /\ r \in Seq(Requests)
    BY <2>4, <2>5, <2>7, <2>8, Zenon
  <2>6. \/ net' = [net EXCEPT ![c].in = q, ![c].n = @ + 1]
        \/ net' = [net EXCEPT ![c].in = r, ![c].out = yes]
    BY <2>3, <2>7, <2>8
  <2>10. /\ DOMAIN net' = Conns
         /\ \A d \in Conns \ {c} : net'[d] = net[d]
         /\ DOMAIN net'[c] = NetFields /\ (net'[c].in = q \/ net'[c].in = r)
         /\ net'[c].n = net[c].n \/ net'[c].n = net[c].n + 1
    BY <2>6 DEF NetFields
  <2> QED BY <2>9, <2>10
<1>3. ASSUME NEW c \in Conns, Close(c) PROVE NetShape'
  <2>1. PICK no : no = FALSE
    OBVIOUS
  <2>2. net' = [net EXCEPT ![c].st = "closed", ![c].n = 0, ![c].out = no]
    BY <1>3, <2>1 DEF Close
  <2> QED BY <2>2 DEF NetFields
<1>4. ASSUME NEW c \in Conns, ListenerAccept(c) PROVE NetShape'
  <2>1. net' = [net EXCEPT ![c].st = "open"]
    BY <1>4 DEF ListenerAccept
  <2> QED BY <2>1 DEF NetFields
<1>5. ASSUME NEW c \in Conns, NEW op, Received(c, op) PROVE NetShape'
  <2>1. net' = [net EXCEPT ![c].in = Tail(@)] /\ net[c].in # <<>>
    BY <1>5 DEF Received
  <2>2. Tail(net[c].in) \in Seq(Requests)
    BY <2>1
  <2> QED BY <2>1, <2>2 DEF NetFields
<1>6. ASSUME NEW c \in Conns, ThreadClose(c) PROVE NetShape'
  <2>1. PICK b : b = fds[sess[thr[c].s].fd]
    OBVIOUS
  <2>2. PICK closed : closed = [st |-> "closed", half |-> FALSE, in |-> <<>>, n |-> 0, out |-> FALSE]
    OBVIOUS
  <2>3. net' = [net EXCEPT ![b] = closed]
    BY <1>6, <2>1, <2>2 DEF ThreadClose
  <2>4. DOMAIN closed = NetFields /\ closed.in = <<>> /\ closed.n = 0
    BY <2>2 DEF NetFields
  <2>5. closed.in \in Seq(Requests) /\ closed.n \in Nat
    BY <2>4
  <2>6. DOMAIN net' = Conns /\ \A d \in Conns : net'[d] = net[d] \/ net'[d] = closed
    BY <2>3
  <2> QED BY <2>4, <2>5, <2>6
<1>7. CASE StopSession
  <2>1. PICK yes : yes = TRUE
    OBVIOUS
  <2>2. PICK b : b = fds[sess[stop.s].fd]
    OBVIOUS
  <2>3. net' = [net EXCEPT ![b].half = yes] \/ net' = net
    BY <1>7, <2>1, <2>2 DEF StopSession
  <2> QED BY <2>3 DEF NetFields
<1>8. CASE UNCHANGED net
  BY <1>8
<1>9. \/ UNCHANGED net \/ StopSession
      \/ \E c \in Conns : \/ Connect(c) \/ SendPdu(c) \/ Close(c) \/ ListenerAccept(c)
                          \/ ThreadClose(c) \/ \E op \in {"login", "command", "logout"} : Received(c, op)
  <2>1. CASE Initiators \/ Listener
    BY <2>1 DEF Initiators, Listener, ListenerTake, ListenerStarted, envVars
  <2>2. CASE Interrupt \/ Handler
    BY <2>2 DEF Interrupt, Handler, StopWait, ShutDown, envVars
  <2>3. CASE Luns
    BY <2>3 DEF Luns, Respond, Forget, envVars
  <2>4. ASSUME NEW c \in Conns, Thread(c)
        PROVE  \/ UNCHANGED net \/ ThreadClose(c)
               \/ \E op \in {"login", "command", "logout"} : Received(c, op)
    BY <2>4 DEF Thread, ThreadStart, ThreadLoop, ThreadRecvFails, ThreadLogin, ThreadCommand,
         ThreadLogout, ThreadDrain, ThreadReturn, ThreadClear, ThreadExit, envVars
  <2> QED BY <2>1, <2>2, <2>3, <2>4 DEF Next, Step
<1> QED BY <1>1, <1>2, <1>3, <1>4, <1>5, <1>6, <1>7, <1>8, <1>9

Kept(T) == \A d \in T : \E e \in dev' : e.s = d.s /\ e.tag = d.tag

\* A step that leaves the tables, or gives one session a new table, whose elements are at LUNs
LEMMA TableProperties ==
    ASSUME HashShape, HashIsAtLun, NEW T, NEW s \in Ids, NEW h, WellFormed(h, Conns),
           \A r \in Ids : r = s \/ sess'[r].cmds = sess[r].cmds, sess'[s].cmds = h,
           \A e \in Contents(h) : \E d \in dev' : d.s = s /\ d.tag = e.key,
           \A d \in dev : d \in T \/ d.s = s, Kept(T)
    PROVE  HashShape' /\ HashIsAtLun'
<1>1. HashShape'
  BY DEF HashShape
<1>2. HashIsAtLun'
  <2> SUFFICES ASSUME NEW r \in Ids, NEW e \in Contents(sess'[r].cmds)
               PROVE  \E d \in dev' : d.s = r /\ d.tag = e.key
    BY DEF HashIsAtLun, Contents
  <2>1. CASE r # s
    <3>1. PICK d \in dev : d.s = r /\ d.tag = e.key
      BY <2>1 DEF HashIsAtLun
    <3> QED BY <2>1, <3>1 DEF Kept
  <2> QED BY <2>1
<1> QED BY <1>1, <1>2

LEMMA TablesKept ==
    ASSUME HashShape, HashIsAtLun, Kept(dev), \A r \in Ids : sess'[r].cmds = sess[r].cmds
    PROVE  HashShape' /\ HashIsAtLun'
<1>1. HashShape'
  BY DEF HashShape
<1>2. HashIsAtLun'
  BY DEF HashIsAtLun, Kept, Contents
<1> QED BY <1>1, <1>2

SameTables == \A r \in Ids : sess'[r].cmds = sess[r].cmds

\* The listener and the target's shutdown: a structure that is taken is cleared.
LEMMA ListenerTables ==
    ASSUME HashInv, Listener \/ Initiators \/ Interrupt \/ Handler
    PROVE  HashShape' /\ HashIsAtLun' /\ dev' = dev
<1> USE DEF HashInv, SocketInv, Shapes
<1>1. dev' = dev
  BY DEF Listener, ListenerTake, ListenerStarted, ListenerAccept, Initiators, Connect, SendPdu,
     Close, Interrupt, Handler, StopSession, StopWait, ShutDown
<1>2. Kept(dev)
  BY <1>1 DEF Kept
<1>3. CASE ListenerTake /\ freeq # <<>>
  <2>1. PICK s \in Ids : s = Head(freeq)
    BY <1>3
  <2>2. sess' = [sess EXCEPT ![s] = Cleared]
    BY <1>3, <2>1 DEF ListenerTake
  <2>3. sess'[s].cmds = hash_init /\ \A r \in Ids : r = s \/ sess'[r] = sess[r]
    BY <2>2 DEF SessShape, Cleared
  <2>4. WellFormed(hash_init, Conns) /\ Contents(hash_init) = {}
    BY InitProperties
  <2> QED BY <1>1, <1>2, <2>3, <2>4, TableProperties
<1>4. CASE \/ ListenerTake /\ freeq = <<>>
         \/ ListenerStarted \/ Initiators \/ Interrupt \/ StopWait \/ ShutDown
  <2>1. UNCHANGED sess
    BY <1>4 DEF ListenerTake, ListenerStarted, Initiators, Connect, SendPdu, Close, Interrupt,
       StopWait, ShutDown
  <2> QED BY <1>1, <1>2, <2>1, TablesKept
<1>5. CASE \E c \in Conns : ListenerAccept(c)
  <2>1. PICK f : sess' = [sess EXCEPT ![lst.s].fd = f, ![lst.s].flags = {}]
    BY <1>5 DEF ListenerAccept
  <2>2. SameTables
    BY <2>1 DEF SameTables, SessShape, SessFields
  <2> QED BY <1>1, <1>2, <2>2, TablesKept DEF SameTables
<1>6. CASE StopSession
  <2>1. SameTables
    BY <1>6 DEF StopSession, SameTables, SessShape, SessFields
  <2> QED BY <1>1, <1>2, <2>1, TablesKept DEF SameTables
<1> QED BY <1>1, <1>3, <1>4, <1>5, <1>6 DEF Listener, Handler

\* scsi_command_t: the command is in the hash, or was there, and at the LUN.
LEMMA CommandTables ==
    ASSUME HashInv, NEW c \in Conns, ThreadCommand(c)
    PROVE  HashShape' /\ HashIsAtLun' /\ TagShape'
<1> USE DEF HashInv, SocketInv, Shapes
<1>1. PICK s \in Ids : s = thr[c].s
  BY DEF ThrShape
<1>2. PICK t : t = Head(net[c].in).tag
  OBVIOUS
<1>3. t \in Nat
  <2>1. net[c].in \in Seq(Requests) /\ net[c].in # <<>> /\ Head(net[c].in).op = "command"
    BY DEF ThreadCommand, Received, NetShape
  <2>2. Head(net[c].in) \in Requests
    BY <2>1
  <2> QED BY <1>2, <2>1, <2>2 DEF Requests
<1>4. CASE pool[s] = 0
  <2>1. UNCHANGED <<sess, dev>>
    BY <1>1, <1>4 DEF ThreadCommand
  <2> QED BY <2>1, TablesKept DEF Kept, TagShape
<1>5. CASE pool[s] # 0
  <2>1. PICK e : e = [key |-> t, ptr |-> c]
    OBVIOUS
  <2>2. PICK d : d = [s |-> s, c |-> c, tag |-> t, sent |-> FALSE]
    OBVIOUS
  <2>3. /\ sess' = [sess EXCEPT ![s].cmds = hash_insert(@, e)]
        /\ dev' = dev \union {d}
    BY <1>1, <1>2, <1>5, <2>1, <2>2 DEF ThreadCommand
  <2>4. e \in Elems(Conns) /\ e.key = t /\ d.s = s /\ d.tag = t
    BY <1>3, <2>1, <2>2 DEF Elems
  <2>5. PICK h : h = hash_insert(sess[s].cmds, e)
    OBVIOUS
  <2>6. WellFormed(h, Conns) /\ Contents(h) \subseteq Contents(sess[s].cmds) \union {e}
    BY <2>4, <2>5, InsertProperties DEF HashShape
  <2>7. sess'[s].cmds = h /\ \A r \in Ids : r = s \/ sess'[r].cmds = sess[r].cmds
    BY <2>3, <2>5 DEF SessShape, SessFields
  <2>8. \A x \in Contents(h) : \E y \in dev' : y.s = s /\ y.tag = x.key
    BY <2>3, <2>4, <2>6 DEF HashIsAtLun
  <2>9. Kept(dev)
    BY <2>3 DEF Kept
  <2>10. TagShape'
    BY <1>3, <2>3, <2>4 DEF TagShape
  <2> QED BY <2>6, <2>7, <2>8, <2>9, <2>10, TableProperties
<1> QED BY <1>4, <1>5

\* The session worker: a new connection's hash is empty, and one that ends empties its hash.
LEMMA ThreadTables ==
    ASSUME HashInv, NEW c \in Conns, Thread(c), ~ThreadCommand(c)
    PROVE  HashShape' /\ HashIsAtLun' /\ dev' = dev
<1> USE DEF HashInv, SocketInv, Shapes
<1>1. dev' = dev
  BY DEF Thread, ThreadStart, ThreadLoop, ThreadRecvFails, ThreadLogin, ThreadLogout, ThreadClose,
     ThreadDrain, ThreadReturn, ThreadClear, ThreadExit
<1>2. Kept(dev)
  BY <1>1 DEF Kept
<1>3. PICK s \in Ids : s = thr[c].s
  BY DEF ThrShape
<1>4. CASE ThreadStart(c)
  <2>1. sess'[s].cmds = hash_init /\ \A r \in Ids : r = s \/ sess'[r].cmds = sess[r].cmds
    <3> PICK yes : yes = TRUE
      OBVIOUS
    <3>1. sess' = [sess EXCEPT ![s].flags = @ \union {"STARTED"}, ![s].hashed = yes,
                              ![s].cmds = hash_init]
      BY <1>3, <1>4 DEF ThreadStart
    <3> QED BY <3>1 DEF SessShape, SessFields
  <2>2. WellFormed(hash_init, Conns) /\ Contents(hash_init) = {}
    BY InitProperties
  <2> QED BY <1>1, <1>2, <2>1, <2>2, TableProperties
<1>5. CASE ThreadDrain(c) /\ hash_remove_head(sess[s].cmds) # sess[s].cmds
  <2>1. PICK h : h = hash_remove_head(sess[s].cmds)
    OBVIOUS
  <2>2. sess' = [sess EXCEPT ![s].cmds = h]
    BY <1>3, <1>5, <2>1 DEF ThreadDrain
  <2>3. sess'[s].cmds = h /\ \A r \in Ids : r = s \/ sess'[r].cmds = sess[r].cmds
    BY <2>2 DEF SessShape, SessFields
  <2>4. WellFormed(h, Conns) /\ Contents(h) \subseteq Contents(sess[s].cmds)
    BY <2>1, RemoveHeadProperties DEF HashShape
  <2>5. \A x \in Contents(h) : \E y \in dev' : y.s = s /\ y.tag = x.key
    BY <1>1, <2>4 DEF HashIsAtLun
  <2> QED BY <1>1, <1>2, <2>3, <2>4, <2>5, TableProperties
<1>6. ASSUME ~ThreadStart(c), ~(ThreadDrain(c) /\ hash_remove_head(sess[s].cmds) # sess[s].cmds)
      PROVE  SameTables
  <2>1. CASE ThreadDrain(c)
    BY <1>3, <1>6, <2>1 DEF ThreadDrain, SameTables, SessShape, SessFields
  <2>2. CASE ThreadLoop(c)
    BY <2>2 DEF ThreadLoop, SameTables, SessShape, SessFields
  <2>3. CASE ThreadLogin(c)
    BY <2>3 DEF ThreadLogin, SameTables, SessShape, SessFields
  <2>4. CASE ThreadLogout(c)
    BY <2>4 DEF ThreadLogout, SameTables, SessShape, SessFields
  <2>5. CASE ThreadClear(c) \/ ThreadExit(c)
    BY <2>5 DEF ThreadClear, ThreadExit, SameTables, SessShape, SessFields
  <2>6. CASE ThreadRecvFails(c) \/ ThreadClose(c) \/ ThreadReturn(c)
    BY <2>6 DEF ThreadRecvFails, ThreadClose, ThreadReturn, SameTables
  <2> QED BY <1>6, <2>1, <2>2, <2>3, <2>4, <2>5, <2>6 DEF Thread
<1> QED BY <1>1, <1>2, <1>4, <1>5, <1>6, TablesKept DEF SameTables

\* device_command_done: the command leaves the LUN and the hash in one step.
LEMMA LunTables ==
    ASSUME HashInv, NEW d \in dev, Respond(d) \/ Forget(d)
    PROVE  HashShape' /\ HashIsAtLun' /\ TagShape'
<1> USE DEF HashInv, SocketInv, Shapes
<1>1. d.tag \in Nat /\ d.s \in Ids /\ DOMAIN d = DevFields
  BY DEF TagShape, DevShape
<1>2. CASE UNCHANGED <<sess, dev>>
  BY <1>2, TablesKept DEF Kept, TagShape
<1>3. CASE Respond(d) /\ ~UNCHANGED dev
  <2>1. PICK sent : sent = TRUE
    OBVIOUS
  <2>2. PICK e : e = [d EXCEPT !.sent = sent]
    OBVIOUS
  <2>3. e.s = d.s /\ e.tag = d.tag
    BY <1>1, <2>2 DEF DevFields
  <2>4. UNCHANGED sess /\ dev' = (dev \ {d}) \union {e}
    BY <1>3, <2>1, <2>2 DEF Respond
  <2>5. Kept(dev) /\ TagShape'
    BY <2>3, <2>4 DEF Kept, TagShape
  <2> QED BY <2>4, <2>5, TablesKept
<1>4. CASE Forget(d) /\ ~UNCHANGED <<sess, dev>>
  <2>1. PICK s \in Ids : s = d.s
    BY <1>1
  <2>2. PICK h : h = hash_remove(sess[s].cmds, d.tag)
    OBVIOUS
  <2>3. sess' = [sess EXCEPT ![s].cmds = h] /\ dev' = dev \ {d}
    BY <1>4, <2>1, <2>2 DEF Forget
  <2>4. sess'[s].cmds = h /\ \A r \in Ids : r = s \/ sess'[r].cmds = sess[r].cmds
    BY <2>3 DEF SessShape, SessFields
  <2>5. /\ WellFormed(h, Conns) /\ Contents(h) \subseteq Contents(sess[s].cmds)
        /\ \A e \in Contents(h) : e.key # d.tag
    BY <1>1, <2>2, RemoveProperties DEF HashShape
  <2>6. \A x \in Contents(h) : \E y \in dev' : y.s = s /\ y.tag = x.key
    BY <2>3, <2>5 DEF HashIsAtLun
  <2>7. Kept(dev \ {d}) /\ TagShape'
    BY <2>3 DEF Kept, TagShape
  <2> QED BY <2>1, <2>4, <2>5, <2>6, <2>7, TableProperties
<1> QED BY <1>2, <1>3, <1>4 DEF Respond

LEMMA NextHash == HashInv /\ [Next]_vars => HashInv'
<1> SUFFICES ASSUME HashInv, [Next]_vars PROVE HashInv'
  OBVIOUS
<1>1. SocketInv'
  BY NextSockets DEF HashInv
<1>2. CASE UNCHANGED vars
  BY <1>1, <1>2 DEF vars, HashInv, NetShape, TagShape, HashShape, HashIsAtLun
<1>3. CASE Next
  <2>1. NetShape'
    BY <1>3, NetKeeps DEF HashInv
  <2>2. HashShape' /\ HashIsAtLun' /\ TagShape'
    <3>1. CASE Listener \/ Initiators \/ Interrupt \/ Handler
      BY <3>1, ListenerTables DEF HashInv, TagShape
    <3>2. ASSUME NEW c \in Conns, Thread(c) PROVE HashShape' /\ HashIsAtLun' /\ TagShape'
      BY <3>2, CommandTables, ThreadTables DEF HashInv, TagShape
    <3>3. CASE Luns
      BY <3>3, LunTables DEF Luns
    <3> QED BY <1>3, <3>1, <3>2, <3>3 DEF Next, Step
  <2> QED BY <1>1, <2>1, <2>2 DEF HashInv
<1> QED BY <1>2, <1>3

LEMMA InitHash == Init => HashInv
<1> SUFFICES ASSUME Init PROVE HashInv
  OBVIOUS
<1>1. /\ dev = {} /\ sess = [s \in Ids |-> Cleared]
      /\ net = [c \in Conns |-> [st |-> "none", half |-> FALSE, in |-> <<>>, n |-> 0, out |-> FALSE]]
  BY DEF Init
<1>2. \A s \in Ids : sess[s].cmds = hash_init
  BY <1>1 DEF Cleared
<1>3. HashShape /\ HashIsAtLun
  BY <1>2, InitProperties DEF HashShape, HashIsAtLun
<1>4. NetShape
  <2>1. \A c \in Conns : DOMAIN net[c] = NetFields /\ net[c].in = <<>> /\ net[c].n = 0
    BY <1>1 DEF NetFields
  <2>2. DOMAIN net = Conns
    BY <1>1
  <2>3. <<>> \in Seq(Requests) /\ 0 \in Nat
    OBVIOUS
  <2> QED BY <2>1, <2>2, <2>3 DEF NetShape
<1> QED BY <1>1, <1>3, <1>4, InitSockets DEF HashInv, TagShape

\* What the hash of a session holds is at a LUN.
THEOREM HashedIsAtLun == Spec => []HashIsAtLun
<1>1. HashInv => HashIsAtLun
  BY DEF HashInv
<1> QED BY InitHash, NextHash, <1>1, PTL DEF Spec

-----------------------------------------------------------------------------
(***************************************************************************)
(* Every structure, header and command structure is accounted for            *)
(*                                                                           *)
(* A command at a LUN is known by its connection and its tag: that the       *)
(* initiator gives no tag twice in a connection makes the commands at the    *)
(* LUNs as many as the structures and headers that the pools lack.           *)
(***************************************************************************)

Threadly == [pc : Serving \union Ended \union {"none"}, s : Ids, failed : BOOLEAN]

Stops == [pc : {"no", "sessions", "wait", "end"}, s : 0..nsess]

\* The states of the listener, the handler, the threads, the connections and the commands
Types ==
    /\ g_state \in {"initialized", "shutting down", "shut down"} /\ exited \in BOOLEAN
    /\ lst \in [pc : {"take", "accept", "started", "done"}, s : Ids]
    /\ stop \in Stops
    /\ stop.pc = "wait" => stop.s < nsess
    /\ thr \in [Conns -> Threadly]
    /\ fds \in [Fds -> Conns \union {NoConn}]
    /\ dev \subseteq [s : Ids, c : Conns, tag : Nat, sent : BOOLEAN]

SessTypes ==
    \A s \in Ids : /\ sess[s].in \in BOOLEAN /\ sess[s].fd \in Fds \union {NoFd}
                   /\ sess[s].flags \subseteq {"STARTED", "STOPPING", "STOPPED", "ERROR"}

\* No structure of the sessions in use is without a holder.
NoneLost ==
    \A s \in Ids : s < nsess => Free(s) \/ Listens(s) \/ \E c \in Conns : Serves(c, s)

TagsIn(q) == {q[i].tag : i \in {j \in DOMAIN q : q[j].op = "command"}}
TagsOnce(q) ==
    \A i, j \in DOMAIN q : q[i].op = "command" /\ q[j].op = "command" /\ q[i].tag = q[j].tag => i = j

Tags(c) == TagsIn(net[c].in)

\* A connection that is not accepted has no thread and no commands; the tags of a
\* connection go up while it is open.
ApartOf(c) ==
    /\ net[c].st \in {"none", "backlog"} =>
          thr[c].pc = "none" /\ Tags(c) = {} /\ \A d \in dev : d.c # c
    /\ TagsOnce(net[c].in)
    /\ \A d \in dev : d.c = c => d.tag \notin Tags(c)
    /\ net[c].st = "open" => /\ \A t \in Tags(c) : t < NewTag(c)
                             /\ \A d \in dev : d.c = c => d.tag < NewTag(c)
Apart == \A c \in Conns : ApartOf(c)
KeyOnce == \A d, e \in dev : d.c = e.c /\ d.tag = e.tag => d = e

DevOf(s) == {d \in dev : d.s = s}
Receiving(s) == \E c \in Conns : thr[c].pc = "recv" /\ thr[c].s = s
HdrsOf(s) == hdrs[s] + Cardinality(DevOf(s)) + (IF Receiving(s) THEN 1 ELSE 0)
Orderly(s) == \A c \in Conns : thr[c].pc # "none" /\ thr[c].s = s => ~thr[c].failed

\* A structure that is not in the pool is at a LUN; a header is there, or with the thread,
\* or was forgotten by a handler that failed.
CountsOf(s) ==
    /\ hdrs[s] \in Nat /\ pool[s] \in Nat
    /\ pool[s] + Cardinality(DevOf(s)) = Hdrs
    /\ HdrsOf(s) <= Hdrs
    /\ Orderly(s) => HdrsOf(s) = Hdrs
Counts ==
    /\ IsFiniteSet(dev) /\ DOMAIN hdrs = Ids /\ DOMAIN pool = Ids
    /\ \A s \in Ids : CountsOf(s)

AccountInv == HashInv /\ Types /\ SessTypes /\ NoneLost /\ Apart /\ KeyOnce /\ Counts

-----------------------------------------------------------------------------
(***************************************************************************)
(* Types                                                                     *)
(***************************************************************************)

\* The structures in use are the first ones.
LEMMA InUse ==
    ASSUME HashInv
    PROVE  nsess \in Nat /\ nsess > 0 /\ nsess <= NSess /\ \A i \in Nat : i < nsess => i \in Ids
<1>1. nsess \in 1..NSess /\ NSess \in Nat
  BY TargetSizes DEF HashInv, SocketInv, Shapes, StopShape
<1> QED BY <1>1 DEF Ids

\* A thread goes from state to state.
LEMMA GotoTypes ==
    ASSUME thr \in [Conns -> Threadly], NEW c \in Conns, NEW pc \in Serving \union Ended,
           Goto(c, pc) \/ Fails(c, pc)
    PROVE  thr' \in [Conns -> Threadly]
<1>1. CASE Goto(c, pc)
  BY <1>1 DEF Goto, Threadly
<1>2. CASE Fails(c, pc)
  <2> PICK failed \in BOOLEAN : failed = TRUE
    OBVIOUS
  <2>1. thr' = [thr EXCEPT ![c].pc = pc, ![c].failed = failed]
    BY <1>2 DEF Fails
  <2> QED BY <2>1 DEF Threadly
<1> QED BY <1>1, <1>2

\* The SIGINT handler goes through the sessions in use.
LEMMA StopTypes ==
    ASSUME nsess \in Nat, nsess > 0, UNCHANGED nsess, stop \in Stops,
           stop.pc = "wait" => stop.s < nsess, Interrupt \/ Handler
    PROVE  stop' \in Stops /\ (stop'.pc = "wait" => stop'.s < nsess)
<1>0. PICK i \in 0..nsess : i = stop.s
  BY DEF Stops
<1>1. i \in Nat /\ i <= nsess /\ 0 \in 0..nsess
  OBVIOUS
<1>2. i < nsess => i + 1 \in 0..nsess
  BY <1>1
<1>3. CASE Interrupt
  <2>1. stop' = [pc |-> "sessions", s |-> 0]
    BY <1>3 DEF Interrupt
  <2> QED BY <1>1, <2>1 DEF Stops
<1>4. CASE StopSession
  <2>1. /\ i < nsess /\ stop.pc = "sessions"
        /\ stop' = [stop EXCEPT !.pc = "wait"] \/ stop' = [stop EXCEPT !.s = i + 1]
    BY <1>0, <1>4 DEF StopSession
  <2>2. i + 1 \in 0..nsess
    BY <1>2, <2>1
  <2>3. CASE stop' = [stop EXCEPT !.pc = "wait"]
    BY <1>0, <2>1, <2>3 DEF Stops
  <2>4. CASE stop' = [stop EXCEPT !.s = i + 1]
    BY <2>1, <2>2, <2>4 DEF Stops
  <2> QED BY <2>1, <2>3, <2>4
<1>5. CASE StopWait
  <2>1. i < nsess /\ stop' = [pc |-> "sessions", s |-> i + 1]
    BY <1>0, <1>5 DEF StopWait
  <2> QED BY <1>2, <2>1 DEF Stops
<1>6. CASE ShutDown
  BY <1>6 DEF ShutDown, Stops
<1> QED BY <1>3, <1>4, <1>5, <1>6 DEF Handler

\* The states of threads, listener and handler, the file descriptors and the commands
LEMMA TypesKept == ASSUME HashInv, Types, SessTypes, Next PROVE Types'
<1>0. UNCHANGED nsess /\ nsess \in Nat /\ nsess > 0
  BY InUse DEF Next, Step
<1>00. Stops' = Stops
  BY <1>0 DEF Stops
<1> USE DEF Types
<1>1. CASE Initiators
  BY <1>0, <1>00, <1>1 DEF Initiators, Connect, SendPdu, Close, poolVars
<1>2. CASE ListenerTake \/ ListenerStarted
  <2>1. 0 \in Ids
    BY <1>0, InUse
  <2>4. lst' \in [pc : {"take", "accept", "started", "done"}, s : Ids]
    <3>1. CASE ListenerTake /\ freeq = <<>>
      BY <3>1 DEF ListenerTake
    <3>2. CASE ListenerTake /\ freeq # <<>>
      <4>1. PICK h \in Ids : h = Head(freeq)
        BY <3>2, HeadTailProperties DEF HashInv, SocketInv, Shapes
      <4>2. lst' = [pc |-> "accept", s |-> h]
        BY <3>2, <4>1 DEF ListenerTake
      <4> QED BY <4>2
    <3>3. CASE ListenerStarted
      BY <2>1, <3>3 DEF ListenerStarted
    <3> QED BY <1>2, <3>1, <3>2, <3>3
  <2> QED BY <1>0, <1>00, <1>2, <2>4 DEF ListenerTake, ListenerStarted, envVars
<1>3. ASSUME NEW c \in Conns, ListenerAccept(c) PROVE Types'
  <2>1. thr' = [thr EXCEPT ![c].pc = "start", ![c].s = lst.s] /\ lst.s \in Ids
    BY <1>3 DEF ListenerAccept
  <2>2. thr' \in [Conns -> Threadly]
    BY <2>1 DEF Threadly, Serving
  <2>3. fds' \in [Fds -> Conns \union {NoConn}]
    BY <1>3 DEF ListenerAccept
  <2>4. lst' \in [pc : {"take", "accept", "started", "done"}, s : Ids]
    BY <1>3 DEF ListenerAccept
  <2> QED BY <1>0, <1>00, <1>3, <2>2, <2>3, <2>4 DEF ListenerAccept
<1>4. ASSUME NEW c \in Conns, Thread(c) PROVE Types'
  <2>1. UNCHANGED <<g_state, lst, stop, exited>>
    BY <1>4 DEF Thread, ThreadStart, ThreadLoop, ThreadRecvFails, ThreadLogin, ThreadCommand,
         ThreadLogout, ThreadClose, ThreadDrain, ThreadReturn, ThreadClear, ThreadExit
  <2>2. thr' \in [Conns -> Threadly]
    <3>1. UNCHANGED thr \/ \E pc \in Serving \union Ended : Goto(c, pc) \/ Fails(c, pc)
      <4>1. CASE ThreadStart(c) \/ ThreadLoop(c) \/ ThreadRecvFails(c)
        BY <4>1 DEF ThreadStart, ThreadLoop, ThreadRecvFails, Serving
      <4>2. CASE ThreadLogin(c) \/ ThreadCommand(c) \/ ThreadLogout(c)
        BY <4>2 DEF ThreadLogin, ThreadCommand, ThreadLogout, Handled, HandlerFails, Serving
      <4>3. CASE ThreadClose(c) \/ ThreadDrain(c) \/ ThreadReturn(c) \/ ThreadClear(c) \/ ThreadExit(c)
        BY <4>3 DEF ThreadClose, ThreadDrain, ThreadReturn, ThreadClear, ThreadExit, Serving, Ended
      <4> QED BY <1>4, <4>1, <4>2, <4>3 DEF Thread
    <3> QED BY <3>1, GotoTypes
  <2>3. fds' \in [Fds -> Conns \union {NoConn}]
    BY <1>4 DEF Thread, ThreadStart, ThreadLoop, ThreadRecvFails, ThreadLogin, ThreadCommand,
         ThreadLogout, ThreadClose, ThreadDrain, ThreadReturn, ThreadClear, ThreadExit
  <2>4. dev' \subseteq [s : Ids, c : Conns, tag : Nat, sent : BOOLEAN]
    <3>1. CASE ThreadCommand(c)
      <4>1. PICK s \in Ids : s = thr[c].s
        BY DEF Threadly
      <4>2. PICK t : t = Head(net[c].in).tag
        OBVIOUS
      <4>3. t \in Nat
        <5>1. net[c].in \in Seq(Requests) /\ net[c].in # <<>> /\ Head(net[c].in).op = "command"
          BY <3>1 DEF ThreadCommand, Received, HashInv, NetShape
        <5> PICK q : q = net[c].in
          OBVIOUS
        <5>2. q \in Seq(Requests) /\ q # <<>>
          BY <5>1
        <5>3. Head(q) \in Requests
          BY HeadTailProperties, <5>2
        <5> QED BY <4>2, <5>1, <5>3 DEF Requests
      <4>4. PICK no \in BOOLEAN : no = FALSE
        OBVIOUS
      <4>5. dev' \subseteq dev \union {[s |-> s, c |-> c, tag |-> t, sent |-> no]}
        BY <3>1, <4>1, <4>2, <4>4 DEF ThreadCommand
      <4>6. [s |-> s, c |-> c, tag |-> t, sent |-> no] \in [s : Ids, c : Conns, tag : Nat, sent : BOOLEAN]
        BY <4>3
      <4> QED BY <4>5, <4>6
    <3>2. CASE ~ThreadCommand(c)
      BY <1>4, <3>2 DEF Thread, ThreadStart, ThreadLoop, ThreadRecvFails, ThreadLogin,
           ThreadLogout, ThreadClose, ThreadDrain, ThreadReturn, ThreadClear, ThreadExit
    <3> QED BY <3>1, <3>2
  <2> QED BY <1>0, <1>00, <2>1, <2>2, <2>3, <2>4
<1>5. ASSUME NEW d \in dev, Respond(d) \/ Forget(d) PROVE Types'
  <2>1. PICK yes \in BOOLEAN : yes = TRUE
    OBVIOUS
  <2>2. dev' \subseteq dev \union {[d EXCEPT !.sent = yes]}
    BY <1>5, <2>1 DEF Respond, Forget
  <2>3. exited' \in BOOLEAN /\ UNCHANGED <<g_state, lst, stop, thr, fds>>
    BY <1>5 DEF Respond, Forget
  <2> QED BY <1>0, <1>00, <2>2, <2>3
<1>6. CASE Interrupt \/ Handler
  <2>1. /\ UNCHANGED <<lst, thr, fds, dev, exited>>
        /\ g_state' \in {"initialized", "shutting down", "shut down"}
    BY <1>6 DEF Interrupt, Handler, StopSession, StopWait, ShutDown, envVars
  <2>2. stop' \in Stops /\ (stop'.pc = "wait" => stop'.s < nsess)
    BY <1>0, <1>6, StopTypes
  <2> QED BY <1>0, <1>00, <2>1, <2>2
<1> QED BY <1>1, <1>2, <1>3, <1>4, <1>5, <1>6 DEF Next, Step, Listener, Luns

\* What the steps write into a session structure
LEMMA SessTypesKept == ASSUME HashInv, Types, SessTypes, Next PROVE SessTypes'
<1> DEFINE Flags == {"STARTED", "STOPPING", "STOPPED", "ERROR"}
           Typed(r) == r.in \in BOOLEAN /\ r.fd \in Fds \union {NoFd} /\ r.flags \subseteq Flags
<1>0. DOMAIN sess = Ids /\ \A s \in Ids : DOMAIN sess[s] = SessFields /\ Typed(sess[s])
  BY DEF HashInv, SocketInv, Shapes, SessShape, SessTypes
<1>1. \A c \in Conns : thr[c].s \in Ids
  BY DEF Types, Threadly
<1>2. CASE UNCHANGED sess
  BY <1>0, <1>2 DEF SessTypes
<1>3. CASE ListenerTake
  <2>1. Typed(Cleared)
    BY DEF Cleared
  <2>2. \A s \in Ids : sess'[s] = sess[s] \/ sess'[s] = Cleared
    BY <1>0, <1>3 DEF ListenerTake
  <2> QED BY <1>0, <2>1, <2>2 DEF SessTypes
<1>4. ASSUME NEW s \in Ids, NEW f \in Fds, sess' = [sess EXCEPT ![s].fd = f, ![s].flags = {}]
      PROVE  SessTypes'
  BY <1>0, <1>4 DEF SessTypes, SessFields
<1>5. ASSUME NEW s \in Ids, NEW fl \in SUBSET Flags, NEW in \in BOOLEAN,
             \/ sess' = [sess EXCEPT ![s].flags = @ \union fl]
             \/ sess' = [sess EXCEPT ![s].in = in]
             \/ sess' = [sess EXCEPT ![s].in = in, ![s].flags = @ \union fl]
      PROVE  SessTypes'
  BY <1>0, <1>5 DEF SessTypes, SessFields
<1>6. ASSUME NEW s \in Ids, NEW fl \in SUBSET Flags, NEW h, NEW hs,
             \/ sess' = [sess EXCEPT ![s].cmds = h]
             \/ sess' = [sess EXCEPT ![s].hashed = hs]
             \/ sess' = [sess EXCEPT ![s].flags = @ \union fl, ![s].hashed = hs, ![s].cmds = h]
      PROVE  SessTypes'
  BY <1>0, <1>6 DEF SessTypes, SessFields
<1>7. TRUE \in BOOLEAN /\ FALSE \in BOOLEAN
  OBVIOUS
<1>8. CASE Initiators \/ Interrupt
  BY <1>2, <1>8 DEF Initiators, Connect, SendPdu, Close, Interrupt
<1>9. CASE Listener
  <2>1. lst.s \in Ids
    BY DEF Types
  <2> QED BY <1>2, <1>3, <1>4, <1>9, <2>1 DEF Listener, ListenerStarted, ListenerAccept
<1>10. ASSUME NEW c \in Conns, Thread(c) PROVE SessTypes'
  <2>1. PICK s \in Ids : s = thr[c].s
    BY <1>1
  <2>2. PICK yes \in BOOLEAN : yes = TRUE
    OBVIOUS
  <2>3. PICK no \in BOOLEAN : no = FALSE
    OBVIOUS
  <2>4. CASE ThreadStart(c)
    <3>1. sess' = [sess EXCEPT ![s].flags = @ \union {"STARTED"}, ![s].hashed = yes,
                               ![s].cmds = hash_init]
      BY <2>1, <2>2, <2>4 DEF ThreadStart
    <3> QED BY <1>6, <3>1
  <2>5. CASE ThreadLoop(c)
    <3>1. \/ UNCHANGED sess
          \/ sess' = [sess EXCEPT ![s].in = no, ![s].flags = @ \union {"ERROR", "STOPPED"}]
      BY <2>1, <2>3, <2>5 DEF ThreadLoop
    <3> QED BY <1>2, <1>5, <3>1
  <2>6. CASE ThreadLogin(c) \/ ThreadLogout(c) \/ ThreadClear(c)
    <3>1. \/ UNCHANGED sess
          \/ sess' = [sess EXCEPT ![s].in = yes]
          \/ sess' = [sess EXCEPT ![s].in = no]
      BY <2>1, <2>2, <2>3, <2>6 DEF ThreadLogin, ThreadLogout, ThreadClear
    <3>2. {} \in SUBSET Flags
      OBVIOUS
    <3> QED BY <1>2, <1>5, <3>1, <3>2
  <2>7. CASE ThreadCommand(c) \/ ThreadDrain(c)
    <3>1. \/ UNCHANGED sess
          \/ \E h : sess' = [sess EXCEPT ![s].cmds = h]
          \/ sess' = [sess EXCEPT ![s].hashed = no]
      BY <2>1, <2>3, <2>7 DEF ThreadCommand, ThreadDrain
    <3>2. {} \in SUBSET Flags
      OBVIOUS
    <3> QED BY <1>2, <1>6, <3>1, <3>2
  <2>8. CASE ThreadExit(c)
    <3>1. sess' = [sess EXCEPT ![s].flags = @ \union {"STOPPED"}]
      BY <2>1, <2>8 DEF ThreadExit
    <3> QED BY <1>5, <1>7, <3>1
  <2>9. CASE ThreadRecvFails(c) \/ ThreadClose(c) \/ ThreadReturn(c)
    BY <1>2, <2>9 DEF ThreadRecvFails, ThreadClose, ThreadReturn
  <2> QED BY <1>10, <2>4, <2>5, <2>6, <2>7, <2>8, <2>9 DEF Thread
<1>11. ASSUME NEW d \in dev, Respond(d) \/ Forget(d) PROVE SessTypes'
  <2>1. PICK s \in Ids : s = d.s
    BY DEF Types
  <2>2. UNCHANGED sess \/ \E h : sess' = [sess EXCEPT ![s].cmds = h]
    BY <1>11, <2>1 DEF Respond, Forget
  <2>3. {} \in SUBSET Flags
    OBVIOUS
  <2> QED BY <1>2, <1>6, <2>2, <2>3
<1>12. CASE Handler
  <2>1. UNCHANGED sess \/ (stop.s < nsess /\ sess' = [sess EXCEPT ![stop.s].flags = @ \union {"STOPPING"}])
    BY <1>12 DEF Handler, StopSession, StopWait, ShutDown
  <2>2. stop.s < nsess => stop.s \in Ids
    <3>1. stop.s \in Nat
      BY DEF HashInv, SocketInv, Shapes, StopShape
    <3> QED BY <3>1, InUse
  <2> QED BY <1>2, <1>5, <1>7, <2>1, <2>2
<1> QED BY <1>8, <1>9, <1>10, <1>11, <1>12 DEF Next, Step, Luns

-----------------------------------------------------------------------------
(***************************************************************************)
(* No structure is lost                                                      *)
(***************************************************************************)

\* Where a step of a thread leads
Moves(c) ==
    /\ UNCHANGED <<lst, stop>>
    /\ \A b \in Conns \ {c} : thr'[b] = thr[b]
    /\ thr'[c].s = thr[c].s /\ (thr[c].failed => thr'[c].failed)
    /\ thr[c].pc # "none" /\ thr'[c].pc # "none"
    /\ thr[c].pc \in Serving /\ ~ThreadReturn(c) => UNCHANGED freeq /\ thr'[c].pc \in Serving
    /\ thr[c].pc \notin Serving => UNCHANGED freeq

LEMMA ThreadMoves ==
    ASSUME HashInv, Types, NEW c \in Conns, Thread(c)
    PROVE  Moves(c)
<1>1. ASSUME NEW pc, Goto(c, pc)
      PROVE  /\ \A b \in Conns \ {c} : thr'[b] = thr[b]
             /\ thr'[c].s = thr[c].s /\ thr'[c].pc = pc /\ thr'[c].failed = thr[c].failed
  BY <1>1 DEF Goto, Types, Threadly
<1>2. ASSUME NEW pc, Fails(c, pc)
      PROVE  /\ \A b \in Conns \ {c} : thr'[b] = thr[b]
             /\ thr'[c].s = thr[c].s /\ thr'[c].pc = pc /\ thr'[c].failed
  <2>1. PICK failed : failed = TRUE
    OBVIOUS
  <2>2. thr' = [thr EXCEPT ![c].pc = pc, ![c].failed = failed]
    BY <1>2, <2>1 DEF Fails
  <2> QED BY <2>1, <2>2 DEF Types, Threadly
<1>3. CASE ThreadStart(c) \/ ThreadLoop(c) \/ ThreadRecvFails(c)
  BY <1>1, <1>2, <1>3 DEF ThreadStart, ThreadLoop, ThreadRecvFails, Moves, Serving
<1>4. CASE ThreadLogin(c) \/ ThreadCommand(c) \/ ThreadLogout(c)
  BY <1>1, <1>2, <1>4 DEF ThreadLogin, ThreadCommand, ThreadLogout, Received, Handled, HandlerFails,
       Moves, Serving
<1>5. CASE ThreadClose(c) \/ ThreadDrain(c)
  BY <1>1, <1>5 DEF ThreadClose, ThreadDrain, Moves, Serving
<1>6. CASE ThreadReturn(c)
  BY <1>1, <1>6 DEF ThreadReturn, Moves, Serving
<1>7. CASE ThreadClear(c) \/ ThreadExit(c)
  BY <1>1, <1>7 DEF ThreadClear, ThreadExit, Moves, Serving
<1> QED BY <1>3, <1>4, <1>5, <1>6, <1>7 DEF Thread

Held(s) == Free(s) \/ Listens(s) \/ \E c \in Conns : Serves(c, s)

\* A structure passes from the queue to the listener, to a thread and back to the queue.
LEMMA NoneLostKept ==
    ASSUME HashInv, Types, NoneLost, Apart, Next
    PROVE  NoneLost'
<1>0. UNCHANGED nsess
  BY DEF Next, Step
<1> SUFFICES ASSUME NEW s \in Ids, Held(s) PROVE Held(s)'
  BY <1>0 DEF NoneLost, Held
<1> USE DEF Held
<1>1. CASE UNCHANGED <<freeq, lst, thr>>
  BY <1>1 DEF Free, Listens, Serves
<1>2. CASE ListenerTake
  <2>1. lst.pc = "take" /\ UNCHANGED thr
    BY <1>2 DEF ListenerTake
  <2>2. CASE freeq = <<>>
    <3>1. UNCHANGED freeq /\ ~Listens(s)
      BY <1>2, <2>1, <2>2 DEF ListenerTake, Listens
    <3> QED BY <2>1, <3>1 DEF Free, Serves
  <2>3. CASE freeq # <<>>
    <3>1. freeq \in Seq(Ids)
      BY DEF HashInv, SocketInv, Shapes
    <3>2. Head(freeq) = freeq[1] /\ Len(Tail(freeq)) = Len(freeq) - 1 /\ Len(freeq) \in Nat
          /\ \A i \in 1..Len(Tail(freeq)) : Tail(freeq)[i] = freeq[i + 1]
      BY <2>3, <3>1
    <3>3. freeq' = Tail(freeq) /\ lst' = [pc |-> "accept", s |-> Head(freeq)]
      BY <1>2, <2>3 DEF ListenerTake
    <3>4. CASE Free(s)
      <4>1. PICK i \in 1..Len(freeq) : freeq[i] = s
        BY <3>4 DEF Free
      <4>2. CASE i = 1
        BY <3>2, <3>3, <4>1, <4>2 DEF Listens
      <4>3. CASE i # 1
        <5>1. i - 1 \in 1..Len(freeq') /\ freeq'[i - 1] = s
          <6>1. i - 1 \in 1..(Len(freeq) - 1)
            BY <3>2, <4>1, <4>3
          <6> QED BY <3>2, <3>3, <4>1, <6>1
        <5> QED BY <5>1 DEF Free
      <4> QED BY <4>2, <4>3
    <3>5. CASE \E c \in Conns : Serves(c, s)
      BY <2>1, <3>5 DEF Serves
    <3> QED BY <2>1, <3>4, <3>5 DEF Listens
  <2> QED BY <2>2, <2>3
<1>3. CASE ListenerStarted
  <2>1. lst.pc = "started" /\ UNCHANGED <<freeq, thr>>
    BY <1>3 DEF ListenerStarted
  <2> QED BY <2>1 DEF Free, Listens, Serves
<1>4. ASSUME NEW c \in Conns, ListenerAccept(c) PROVE Held(s)'
  <2>1. UNCHANGED freeq /\ thr[c].pc = "none"
    BY <1>4 DEF ListenerAccept, Apart, ApartOf
  <2>2. thr' = [thr EXCEPT ![c].pc = "start", ![c].s = lst.s]
    BY <1>4 DEF ListenerAccept
  <2>3. /\ thr'[c].pc = "start" /\ thr'[c].s = lst.s
        /\ \A b \in Conns \ {c} : thr'[b] = thr[b]
    BY <2>2 DEF Types, Threadly
  <2>4. CASE Listens(s)
    BY <2>3, <2>4 DEF Listens, Serves, Serving
  <2>5. CASE Free(s)
    BY <2>1, <2>5 DEF Free
  <2>6. ASSUME NEW b \in Conns, Serves(b, s) PROVE Held(s)'
    <3>1. b # c
      BY <2>1, <2>6 DEF Serves, Serving
    <3> QED BY <2>3, <2>6, <3>1 DEF Serves
  <2> QED BY <2>4, <2>5, <2>6
<1>5. ASSUME NEW c \in Conns, Thread(c) PROVE Held(s)'
  <2>1. Moves(c)
    BY <1>5, ThreadMoves
  <2>2. CASE UNCHANGED freeq /\ (thr[c].pc \in Serving => thr'[c].pc \in Serving)
    <3>1. \A b \in Conns : Serves(b, s) => Serves(b, s)'
      BY <2>1, <2>2 DEF Moves, Serves
    <3> QED BY <2>1, <2>2, <3>1 DEF Moves, Free, Listens
  <2>3. CASE ThreadReturn(c)
    <3> PICK r \in Ids : r = thr[c].s
      BY DEF Types, Threadly
    <3>1. freeq' = Append(freeq, r) /\ freeq \in Seq(Ids)
      BY <2>3 DEF ThreadReturn, HashInv, SocketInv, Shapes
    <3>2. /\ Len(freeq') = Len(freeq) + 1 /\ freeq'[Len(freeq) + 1] = r /\ Len(freeq) \in Nat
          /\ \A i \in 1..Len(freeq) : freeq'[i] = freeq[i]
      BY <3>1
    <3>3. Free(r)' /\ (Free(s) => Free(s)')
      BY <3>2 DEF Free
    <3>4. \A b \in Conns : Serves(b, s) => Serves(b, s)' \/ s = r
      BY <2>1 DEF Moves, Serves
    <3> QED BY <2>1, <3>3, <3>4 DEF Moves, Listens
  <2> QED BY <2>1, <2>2, <2>3 DEF Moves
<1>6. CASE Initiators \/ Luns \/ Interrupt \/ Handler
  BY <1>1, <1>6 DEF Initiators, Connect, SendPdu, Close, Luns, Respond, Forget, Interrupt, Handler,
       StopSession, StopWait, ShutDown
<1> QED BY <1>2, <1>3, <1>4, <1>5, <1>6 DEF Next, Step, Listener

-----------------------------------------------------------------------------
(***************************************************************************)
(* The tags of a connection                                                  *)
(***************************************************************************)

LEMMA TagsAppend ==
    ASSUME NEW q \in Seq(Requests), TagsOnce(q), NEW r \in Requests,
           r.op = "command" => r.tag \notin TagsIn(q)
    PROVE  /\ TagsOnce(Append(q, r))
           /\ \A t \in TagsIn(Append(q, r)) : t \in TagsIn(q) \/ (r.op = "command" /\ t = r.tag)
<1> PICK p : p = Append(q, r)
  OBVIOUS
<1>1. /\ DOMAIN p = 1..(Len(q) + 1) /\ DOMAIN q = 1..Len(q) /\ Len(q) \in Nat
      /\ p[Len(q) + 1] = r /\ \A i \in DOMAIN q : p[i] = q[i]
  OBVIOUS
<1>2. \A i \in DOMAIN p : i = Len(q) + 1 \/ i \in DOMAIN q
  BY <1>1
<1>3. TagsOnce(p)
  BY <1>1, <1>2 DEF TagsOnce, TagsIn
<1>4. \A t \in TagsIn(p) : t \in TagsIn(q) \/ (r.op = "command" /\ t = r.tag)
  BY <1>1, <1>2 DEF TagsIn
<1> QED BY <1>3, <1>4

LEMMA TagsTail ==
    ASSUME NEW q \in Seq(Requests), TagsOnce(q), q # <<>>
    PROVE  /\ TagsOnce(Tail(q)) /\ TagsIn(Tail(q)) \subseteq TagsIn(q)
           /\ Head(q).op = "command" => /\ Head(q).tag \in TagsIn(q) /\ Head(q).tag \in Nat
                                        /\ Head(q).tag \notin TagsIn(Tail(q))
<1> PICK p : p = Tail(q)
  OBVIOUS
<1>1. /\ Len(q) \in Nat \ {0} /\ DOMAIN q = 1..Len(q) /\ DOMAIN p = 1..(Len(q) - 1)
      /\ Head(q) = q[1] /\ \A i \in DOMAIN p : p[i] = q[i + 1]
  OBVIOUS
<1>2. 1 \in DOMAIN q /\ \A i \in DOMAIN p : i + 1 \in DOMAIN q /\ i + 1 # 1
  BY <1>1
<1>3. \A i, j \in DOMAIN p : i + 1 = j + 1 => i = j
  BY <1>1
<1>4. TagsOnce(p) /\ TagsIn(p) \subseteq TagsIn(q)
  BY <1>1, <1>2, <1>3 DEF TagsOnce, TagsIn
<1>5. q[1].op = "command" => q[1].tag \in TagsIn(q) /\ q[1].tag \notin TagsIn(p)
  BY <1>1, <1>2 DEF TagsOnce, TagsIn
<1>6. q[1].op = "command" => q[1].tag \in Nat
  <2>1. q[1] \in Requests
    BY <1>1, <1>2
  <2> QED BY <2>1 DEF Requests
<1> QED BY <1>1, <1>4, <1>5, <1>6

LEMMA NoTags == ASSUME NEW q, \A i \in DOMAIN q : q[i].op # "command"
                PROVE  TagsOnce(q) /\ TagsIn(q) = {}
  BY DEF TagsOnce, TagsIn

\* A step that sends connection b nothing and adds no command of it
LEMMA ApartFrame ==
    ASSUME NEW b \in Conns, ApartOf(b), net'[b].in = net[b].in, net'[b].st = net[b].st,
           net'[b].n = net[b].n, thr[b].pc = "none" => thr'[b].pc = "none",
           \A d \in dev' : d.c = b => \E e \in dev : e.c = b /\ e.tag = d.tag
    PROVE  ApartOf(b)'
<1>1. Tags(b)' = Tags(b) /\ NewTag(b)' = NewTag(b)
  BY DEF Tags, NewTag
<1> QED BY <1>1 DEF ApartOf

\* The other connections, where the step is one of connection c
Elsewhere(c) ==
    \A b \in Conns \ {c} :
        /\ net'[b] = net[b] /\ thr'[b].pc = thr[b].pc
        /\ \A d \in dev' : d.c = b => \E e \in dev : e.c = b /\ e.tag = d.tag

LEMMA ApartElsewhere ==
    ASSUME Apart, NEW c \in Conns, Elsewhere(c), ApartOf(c)'
    PROVE  Apart'
<1>1. \A b \in Conns \ {c} : ApartOf(b)'
  BY ApartFrame DEF Apart, Elsewhere
<1> QED BY <1>1 DEF Apart

\* What an initiator does to its connection
LEMMA InitiatorApart ==
    ASSUME HashInv, Apart, NEW c \in Conns, Connect(c) \/ SendPdu(c) \/ Close(c)
    PROVE  Apart'
<1> USE DEF ApartOf
<1>0. UNCHANGED <<thr, dev>> /\ ApartOf(c) /\ NetShape /\ TagShape
  BY DEF Connect, SendPdu, Close, HashInv, Apart
<1>1. CASE Connect(c)
  <2>1. net' = [net EXCEPT ![c].st = "backlog", ![c].in = <<[op |-> "login"]>>, ![c].n = 1]
        /\ net[c].st = "none"
    BY <1>1 DEF Connect
  <2>2. /\ \A b \in Conns \ {c} : net'[b] = net[b]
        /\ net'[c].st = "backlog" /\ net'[c].in = <<[op |-> "login"]>>
    BY <1>0, <2>1 DEF NetShape, NetFields
  <2>3. TagsOnce(net'[c].in) /\ TagsIn(net'[c].in) = {}
    BY <2>2, NoTags
  <2> QED BY <1>0, <2>1, <2>2, <2>3, ApartElsewhere DEF Elsewhere, Tags
<1>2. CASE SendPdu(c)
  <2>1. net[c].st = "open" /\ net[c].n \in Nat /\ NewTag(c) \in Nat
    BY <1>0, <1>2, BucketsAssumption DEF SendPdu, NetShape, NewTag
  <2>2. PICK q : q = net[c].in
    OBVIOUS
  <2>3. q \in Seq(Requests) /\ TagsOnce(q)
    BY <1>0, <2>2 DEF NetShape
  <2>4. CASE net' = [net EXCEPT ![c].in = Append(@, [op |-> "command", tag |-> NewTag(c)]),
                                ![c].n = @ + 1]
    <3>1. PICK r : r = [op |-> "command", tag |-> NewTag(c)]
      OBVIOUS
    <3>2. r \in Requests /\ r.op = "command" /\ r.tag = NewTag(c)
      BY <2>1, <3>1 DEF Requests
    <3>3. net' = [net EXCEPT ![c].in = Append(q, r), ![c].n = net[c].n + 1]
      BY <2>2, <2>4, <3>1
    <3>4. /\ \A b \in Conns \ {c} : net'[b] = net[b]
          /\ net'[c].st = "open" /\ net'[c].in = Append(q, r) /\ net'[c].n = net[c].n + 1
      BY <1>0, <2>1, <3>3 DEF NetShape, NetFields
    <3>5. NewTag(c) \notin TagsIn(q)
      BY <1>0, <2>1, <2>2 DEF Tags
    <3>6. /\ TagsOnce(Append(q, r))
          /\ \A t \in TagsIn(Append(q, r)) : t \in TagsIn(q) \/ t = NewTag(c)
      BY <2>3, <3>2, <3>5, TagsAppend
    <3>7. \A t \in Nat : t <= NewTag(c) => t < NewTag(c)'
      <4>1. NewTag(c)' = NBuckets * (net[c].n + 1) /\ NewTag(c) = NBuckets * net[c].n
        BY <3>4 DEF NewTag
      <4>2. NBuckets * (net[c].n + 1) = NBuckets * net[c].n + NBuckets
        BY <2>1, BucketsAssumption
      <4> QED BY <2>1, <4>1, <4>2, BucketsAssumption
    <3>8. \A t \in TagsIn(q) : t \in Nat
      BY <2>3 DEF TagsIn, Requests
    <3>9. \A t \in TagsIn(Append(q, r)) : t < NewTag(c)'
      <4> SUFFICES ASSUME NEW t \in TagsIn(Append(q, r)) PROVE t < NewTag(c)'
        OBVIOUS
      <4>1. CASE t = NewTag(c)
        BY <2>1, <3>7, <4>1
      <4>2. CASE t \in TagsIn(q)
        <5>1. t \in Nat /\ t < NewTag(c)
          BY <1>0, <2>1, <2>2, <3>8, <4>2 DEF Tags
        <5> QED BY <2>1, <3>7, <5>1
      <4> QED BY <3>6, <4>1, <4>2
    <3>10. \A d \in dev : d.c = c => d.tag < NewTag(c)' /\ d.tag \notin TagsIn(Append(q, r))
      <4> SUFFICES ASSUME NEW d \in dev, d.c = c
                   PROVE  d.tag < NewTag(c)' /\ d.tag \notin TagsIn(Append(q, r))
        OBVIOUS
      <4>1. d.tag \in Nat /\ d.tag < NewTag(c) /\ d.tag \notin TagsIn(q)
        BY <1>0, <2>1, <2>2 DEF Tags, TagShape
      <4> QED BY <2>1, <3>6, <3>7, <4>1
    <3>11. ApartOf(c)'
      BY <1>0, <3>4, <3>6, <3>9, <3>10 DEF Tags
    <3> QED BY <1>0, <3>4, <3>11, ApartElsewhere DEF Elsewhere
  <2>5. CASE net' = [net EXCEPT ![c].in = Append(@, [op |-> "logout"]), ![c].out = TRUE]
    <3>1. PICK r : r = [op |-> "logout"]
      OBVIOUS
    <3>2. r \in Requests /\ r.op # "command"
      BY <3>1 DEF Requests
    <3>3. PICK yes : yes = TRUE
      OBVIOUS
    <3>4. net' = [net EXCEPT ![c].in = Append(q, r), ![c].out = yes]
      BY <2>2, <2>5, <3>1, <3>3
    <3>5. /\ \A b \in Conns \ {c} : net'[b] = net[b]
          /\ net'[c].st = "open" /\ net'[c].in = Append(q, r) /\ net'[c].n = net[c].n
      BY <1>0, <2>1, <3>4 DEF NetShape, NetFields
    <3>6. TagsOnce(Append(q, r)) /\ TagsIn(Append(q, r)) \subseteq TagsIn(q)
      BY <2>3, <3>2, TagsAppend
    <3>7. NewTag(c)' = NewTag(c)
      BY <3>5 DEF NewTag
    <3>8. ApartOf(c)'
      BY <1>0, <2>1, <2>2, <3>5, <3>6, <3>7 DEF Tags
    <3> QED BY <1>0, <3>5, <3>8, ApartElsewhere DEF Elsewhere
  <2> QED BY <1>2, <2>4, <2>5 DEF SendPdu
<1>3. CASE Close(c)
  <2>1. PICK no : no = FALSE
    OBVIOUS
  <2>2. net' = [net EXCEPT ![c].st = "closed", ![c].n = 0, ![c].out = no]
    BY <1>3, <2>1 DEF Close
  <2>3. /\ \A b \in Conns \ {c} : net'[b] = net[b]
        /\ net'[c].st = "closed" /\ net'[c].in = net[c].in
    BY <1>0, <2>2 DEF NetShape, NetFields
  <2>4. ApartOf(c)'
    BY <1>0, <2>3 DEF Tags
  <2> QED BY <1>0, <2>3, <2>4, ApartElsewhere DEF Elsewhere
<1> QED BY <1>1, <1>2, <1>3

\* The connection is accepted: it has no command yet.
LEMMA AcceptApart ==
    ASSUME HashInv, Types, Apart, NEW c \in Conns, ListenerAccept(c)
    PROVE  Apart'
<1>1. /\ net' = [net EXCEPT ![c].st = "open"] /\ net[c].st = "backlog" /\ UNCHANGED dev
      /\ thr' = [thr EXCEPT ![c].pc = "start", ![c].s = lst.s]
  BY DEF ListenerAccept
<1>2. /\ \A b \in Conns \ {c} : net'[b] = net[b] /\ thr'[b] = thr[b]
      /\ net'[c].st = "open" /\ net'[c].in = net[c].in
  BY <1>1 DEF HashInv, NetShape, NetFields, Types, Threadly
<1>3. Tags(c) = {} /\ Tags(c)' = {} /\ (\A d \in dev : d.c # c) /\ TagsOnce(net[c].in)
  BY <1>1, <1>2 DEF Apart, ApartOf, Tags
<1>4. ApartOf(c)'
  BY <1>1, <1>2, <1>3 DEF ApartOf
<1> QED BY <1>1, <1>2, <1>4, ApartElsewhere DEF Elsewhere

\* The command that a thread takes from its connection has a tag of its own.
LEMMA CommandTag ==
    ASSUME HashInv, Apart, NEW c \in Conns, NEW op, Received(c, op)
    PROVE  LET t == Head(net[c].in).tag IN
           /\ TagsOnce(net'[c].in) /\ Tags(c)' \subseteq Tags(c) /\ net'[c].st = net[c].st
           /\ NewTag(c)' = NewTag(c) /\ \A b \in Conns \ {c} : net'[b] = net[b]
           /\ op = "command" => /\ t \in Tags(c) /\ t \in Nat /\ t \notin Tags(c)'
                                /\ \A d \in dev : ~(d.c = c /\ d.tag = t)
<1>1. /\ net' = [net EXCEPT ![c].in = Tail(@)] /\ net[c].in # <<>> /\ Head(net[c].in).op = op
      /\ NetShape /\ ApartOf(c)
  BY DEF Received, HashInv, Apart
<1>2. PICK q \in Seq(Requests) : q = net[c].in
  BY <1>1 DEF NetShape
<1>3. /\ TagsOnce(Tail(q)) /\ TagsIn(Tail(q)) \subseteq TagsIn(q)
      /\ op = "command" => /\ Head(q).tag \in TagsIn(q) /\ Head(q).tag \in Nat
                           /\ Head(q).tag \notin TagsIn(Tail(q))
  BY <1>1, <1>2, TagsTail DEF ApartOf
<1>4. /\ \A b \in Conns \ {c} : net'[b] = net[b]
      /\ net'[c].in = Tail(q) /\ net'[c].st = net[c].st /\ net'[c].n = net[c].n
  BY <1>1, <1>2 DEF NetShape, NetFields
<1> QED BY <1>1, <1>2, <1>3, <1>4 DEF ApartOf, Tags, NewTag

\* A thread turns a command of the connection into one at the LUN.
LEMMA ThreadApart ==
    ASSUME HashInv, Types, Apart, NEW c \in Conns, Thread(c)
    PROVE  Apart'
<1>1. Moves(c) /\ ApartOf(c)
  BY ThreadMoves DEF Apart
<1>2. net[c].st \notin {"none", "backlog"}
  BY <1>1 DEF ApartOf, Moves
<1>3. CASE UNCHANGED <<net, dev>>
  BY <1>1, <1>3, ApartFrame DEF Apart, Moves
<1>4. CASE ThreadLogin(c) \/ ThreadLogout(c)
  <2>1. UNCHANGED dev /\ \E op : Received(c, op)
    BY <1>4 DEF ThreadLogin, ThreadLogout
  <2>2. /\ TagsOnce(net'[c].in) /\ Tags(c)' \subseteq Tags(c) /\ net'[c].st = net[c].st
        /\ NewTag(c)' = NewTag(c) /\ \A b \in Conns \ {c} : net'[b] = net[b]
    BY <2>1, CommandTag
  <2>3. ApartOf(c)'
    BY <1>1, <1>2, <2>1, <2>2 DEF ApartOf
  <2> QED BY <1>1, <2>1, <2>2, <2>3, ApartElsewhere DEF Elsewhere, Moves
<1>5. CASE ThreadCommand(c)
  <2>1. PICK t : t = Head(net[c].in).tag
    OBVIOUS
  <2>2. /\ TagsOnce(net'[c].in) /\ Tags(c)' \subseteq Tags(c) /\ net'[c].st = net[c].st
        /\ NewTag(c)' = NewTag(c) /\ \A b \in Conns \ {c} : net'[b] = net[b]
        /\ t \in Tags(c) /\ t \in Nat /\ t \notin Tags(c)'
    BY <1>5, <2>1, CommandTag DEF ThreadCommand
  <2>3. PICK no : no = FALSE
    OBVIOUS
  <2>4. dev' \subseteq dev \union {[s |-> thr[c].s, c |-> c, tag |-> t, sent |-> no]}
    BY <1>5, <2>1, <2>3 DEF ThreadCommand, HandlerFails
  <2>5. \A d \in dev' : d \in dev \/ (d.c = c /\ d.tag = t)
    BY <2>4
  <2>6. ApartOf(c)'
    BY <1>1, <1>2, <2>2, <2>5 DEF ApartOf
  <2>7. \A b \in Conns \ {c} : \A d \in dev' : d.c = b => d \in dev
    BY <2>5
  <2> QED BY <1>1, <2>2, <2>6, <2>7, ApartElsewhere DEF Elsewhere, Moves
<1>6. CASE ThreadClose(c)
  <2>1. fds[sess[thr[c].s].fd] = c
    BY <1>6 DEF ThreadClose, HashInv, SocketInv, SockIsMine
  <2>2. PICK closed : closed = [st |-> "closed", half |-> FALSE, in |-> <<>>, n |-> 0, out |-> FALSE]
    OBVIOUS
  <2>3. net' = [net EXCEPT ![c] = closed] /\ UNCHANGED dev
    BY <1>6, <2>1, <2>2 DEF ThreadClose
  <2>4. /\ \A b \in Conns \ {c} : net'[b] = net[b]
        /\ net'[c].st = "closed" /\ net'[c].in = <<>>
    BY <2>2, <2>3 DEF HashInv, NetShape
  <2>5. TagsOnce(net'[c].in) /\ Tags(c)' = {}
    BY <2>4, NoTags DEF Tags
  <2>6. ApartOf(c)'
    BY <2>4, <2>5 DEF ApartOf
  <2> QED BY <1>1, <2>3, <2>4, <2>6, ApartElsewhere DEF Elsewhere, Moves
<1>7. CASE ThreadStart(c) \/ ThreadLoop(c) \/ ThreadRecvFails(c) \/ ThreadDrain(c) \/ ThreadReturn(c)
           \/ ThreadClear(c) \/ ThreadExit(c)
  BY <1>3, <1>7 DEF ThreadStart, ThreadLoop, ThreadRecvFails, ThreadDrain, ThreadReturn, ThreadClear,
       ThreadExit, envVars
<1> QED BY <1>4, <1>5, <1>6, <1>7 DEF Thread

\* A step of the LUN workers keeps or forgets the key of its command.
LEMMA LunKeys ==
    ASSUME Types, NEW d \in dev, Respond(d) \/ Forget(d)
    PROVE  \A e \in dev' : e \in dev \/ /\ e.s = d.s /\ e.c = d.c /\ e.tag = d.tag
                                        /\ dev' = (dev \ {d}) \union {e}
<1> PICK yes : yes = TRUE
  OBVIOUS
<1>1. PICK e : e = [d EXCEPT !.sent = yes]
  OBVIOUS
<1>2. e.s = d.s /\ e.c = d.c /\ e.tag = d.tag
  BY <1>1 DEF Types
<1>3. dev' = (dev \ {d}) \union {e} \/ dev' \subseteq dev
  BY <1>1 DEF Respond, Forget
<1> QED BY <1>2, <1>3

LEMMA ApartKept ==
    ASSUME HashInv, Types, Apart, Next
    PROVE  Apart'
<1>1. CASE Initiators
  BY <1>1, InitiatorApart DEF Initiators
<1>2. CASE UNCHANGED <<net, thr, dev>>
  BY <1>2, ApartFrame DEF Apart
<1>3. CASE Listener
  BY <1>2, <1>3, AcceptApart DEF Listener, ListenerTake, ListenerStarted, envVars
<1>4. CASE Luns
  <2>1. PICK d \in dev : Respond(d) \/ Forget(d)
    BY <1>4 DEF Luns
  <2>2. UNCHANGED <<net, thr>>
    BY <2>1 DEF Respond, Forget, envVars
  <2>3. \A e \in dev' : \E f \in dev : f.c = e.c /\ f.tag = e.tag
    BY <2>1, LunKeys
  <2> QED BY <2>2, <2>3, ApartFrame DEF Apart
<1>5. CASE Interrupt \/ StopWait \/ ShutDown
  BY <1>2, <1>5 DEF Interrupt, StopWait, ShutDown, envVars
<1>6. CASE StopSession
  <2>1. PICK yes : yes = TRUE
    OBVIOUS
  <2>2. PICK b : b = fds[sess[stop.s].fd]
    OBVIOUS
  <2>3. (net' = [net EXCEPT ![b].half = yes] \/ net' = net) /\ UNCHANGED <<thr, dev>>
    BY <1>6, <2>1, <2>2 DEF StopSession
  <2>4. \A c \in Conns : net'[c].in = net[c].in /\ net'[c].st = net[c].st /\ net'[c].n = net[c].n
    <3>1. DOMAIN net = Conns /\ \A c \in Conns : DOMAIN net[c] = NetFields
      BY DEF HashInv, NetShape
    <3>2. CASE net' = net
      BY <3>2
    <3>3. CASE net' = [net EXCEPT ![b].half = yes]
      BY <3>1, <3>3 DEF NetFields
    <3> QED BY <2>3, <3>2, <3>3
  <2> QED BY <2>3, <2>4, ApartFrame DEF Apart
<1>7. CASE \E c \in Conns : Thread(c)
  BY <1>7, ThreadApart
<1> QED BY <1>1, <1>3, <1>4, <1>5, <1>6, <1>7 DEF Next, Step, Handler

LEMMA KeyOnceKept ==
    ASSUME HashInv, Types, Apart, KeyOnce, Next
    PROVE  KeyOnce'
<1>1. CASE UNCHANGED dev
  BY <1>1 DEF KeyOnce
<1>2. CASE Initiators \/ Listener \/ Interrupt \/ Handler
  BY <1>1, <1>2 DEF Initiators, Connect, SendPdu, Close, Listener, ListenerTake, ListenerStarted,
       ListenerAccept, Interrupt, Handler, StopSession, StopWait, ShutDown
<1>3. ASSUME NEW d \in dev, Respond(d) \/ Forget(d) PROVE KeyOnce'
  BY <1>3, LunKeys DEF KeyOnce
<1>4. ASSUME NEW c \in Conns, ThreadCommand(c) PROVE KeyOnce'
  <2>1. PICK t : t = Head(net[c].in).tag
    OBVIOUS
  <2>2. \A d \in dev : ~(d.c = c /\ d.tag = t)
    BY <1>4, <2>1, CommandTag DEF ThreadCommand
  <2>3. PICK no : no = FALSE
    OBVIOUS
  <2>4. PICK e : e = [s |-> thr[c].s, c |-> c, tag |-> t, sent |-> no]
    OBVIOUS
  <2>5. dev' \subseteq dev \union {e} /\ e.c = c /\ e.tag = t
    BY <1>4, <2>1, <2>3, <2>4 DEF ThreadCommand, HandlerFails
  <2> QED BY <2>2, <2>5 DEF KeyOnce
<1>5. ASSUME NEW c \in Conns, Thread(c), ~ThreadCommand(c) PROVE KeyOnce'
  BY <1>1, <1>5 DEF Thread, ThreadStart, ThreadLoop, ThreadRecvFails, ThreadLogin, ThreadLogout,
       ThreadClose, ThreadDrain, ThreadReturn, ThreadClear, ThreadExit
<1> QED BY <1>2, <1>3, <1>4, <1>5 DEF Next, Step, Luns

-----------------------------------------------------------------------------
(***************************************************************************)
(* Headers and command structures                                            *)
(***************************************************************************)

LEMMA DevFinite ==
    ASSUME IsFiniteSet(dev), NEW s
    PROVE  IsFiniteSet(DevOf(s)) /\ Cardinality(DevOf(s)) \in Nat
<1>1. DevOf(s) \subseteq dev
  BY DEF DevOf
<1> QED BY <1>1, FS_Subset, FS_CardinalityType

LEMMA DevAdd ==
    ASSUME IsFiniteSet(dev), NEW e, e \notin dev, dev' = dev \union {e}
    PROVE  /\ IsFiniteSet(dev')
           /\ Cardinality(DevOf(e.s)') = Cardinality(DevOf(e.s)) + 1
           /\ \A s \in Ids : s # e.s => DevOf(s)' = DevOf(s)
<1>1. DevOf(e.s)' = DevOf(e.s) \union {e} /\ e \notin DevOf(e.s)
  BY DEF DevOf
<1>2. \A s \in Ids : s # e.s => DevOf(s)' = DevOf(s)
  BY DEF DevOf
<1> QED BY <1>1, <1>2, DevFinite, FS_AddElement

LEMMA DevRemove ==
    ASSUME IsFiniteSet(dev), NEW d \in dev, dev' = dev \ {d}
    PROVE  /\ IsFiniteSet(dev')
           /\ Cardinality(DevOf(d.s)') = Cardinality(DevOf(d.s)) - 1
           /\ \A s \in Ids : s # d.s => DevOf(s)' = DevOf(s)
<1>1. DevOf(d.s)' = DevOf(d.s) \ {d} /\ d \in DevOf(d.s)
  BY DEF DevOf
<1>2. \A s \in Ids : s # d.s => DevOf(s)' = DevOf(s)
  BY DEF DevOf
<1> QED BY <1>1, <1>2, DevFinite, FS_RemoveElement

LEMMA DevReplace ==
    ASSUME IsFiniteSet(dev), NEW d \in dev, NEW e, e \notin dev \ {d}, e.s = d.s,
           dev' = (dev \ {d}) \union {e}
    PROVE  /\ IsFiniteSet(dev')
           /\ \A s \in Ids : Cardinality(DevOf(s)') = Cardinality(DevOf(s))
<1>1. /\ DevOf(d.s)' = (DevOf(d.s) \ {d}) \union {e} /\ d \in DevOf(d.s)
      /\ e \notin DevOf(d.s) \ {d}
  BY DEF DevOf
<1>2. \A s \in Ids : s # d.s => DevOf(s)' = DevOf(s)
  BY DEF DevOf
<1>3. IsFiniteSet(dev')
  BY FS_AddElement, FS_RemoveElement
<1>4. /\ IsFiniteSet(DevOf(d.s) \ {d}) /\ Cardinality(DevOf(d.s)) \in Nat
      /\ Cardinality(DevOf(d.s) \ {d}) = Cardinality(DevOf(d.s)) - 1
  BY <1>1, DevFinite, FS_RemoveElement
<1>5. Cardinality(DevOf(d.s)') = Cardinality(DevOf(d.s) \ {d}) + 1
  BY <1>1, <1>4, FS_AddElement
<1>6. Cardinality(DevOf(d.s)') = Cardinality(DevOf(d.s))
  BY <1>4, <1>5
<1> QED BY <1>2, <1>3, <1>6

\* A step that gives a header of session s to another holder, or loses it with a failed handler
LEMMA CountsStep ==
    ASSUME NEW s \in Ids, IsFiniteSet(dev), CountsOf(s), hdrs'[s] \in Nat, pool'[s] \in Nat,
           pool'[s] + Cardinality(DevOf(s)') = Hdrs,
           \/ HdrsOf(s)' = HdrsOf(s) /\ (Orderly(s)' => Orderly(s))
           \/ HdrsOf(s)' = HdrsOf(s) - 1 /\ ~Orderly(s)'
    PROVE  CountsOf(s)'
<1>1. HdrsOf(s) \in Nat
  BY DevFinite DEF CountsOf, HdrsOf
<1>2. Hdrs \in Nat
  BY TargetSizes
<1>3. HdrsOf(s)' <= Hdrs /\ (Orderly(s)' => HdrsOf(s)' = Hdrs)
  BY <1>1, <1>2 DEF CountsOf
<1> QED BY <1>3 DEF CountsOf

LEMMA CountsFrame ==
    ASSUME NEW s \in Ids, IsFiniteSet(dev), CountsOf(s), hdrs'[s] = hdrs[s], pool'[s] = pool[s],
           Cardinality(DevOf(s)') = Cardinality(DevOf(s)),
           Receiving(s)' <=> Receiving(s), Orderly(s)' => Orderly(s)
    PROVE  CountsOf(s)'
<1>1. HdrsOf(s)' = HdrsOf(s)
  BY DEF HdrsOf
<1> QED BY <1>1, CountsStep DEF CountsOf

\* While a thread serves a structure, it alone receives for it.
LEMMA Receivers ==
    ASSUME HashInv, Types, NEW c \in Conns, Moves(c)
    PROVE  /\ \A s \in Ids : Orderly(s)' => Orderly(s)
           /\ thr'[c].failed => ~Orderly(thr[c].s)'
           /\ \A s \in Ids : s # thr[c].s => (Receiving(s)' <=> Receiving(s))
           /\ thr[c].pc \in Serving =>
                 /\ Receiving(thr[c].s) <=> thr[c].pc = "recv"
                 /\ Receiving(thr[c].s)' <=> thr'[c].pc = "recv"
           /\ thr[c].pc # "recv" /\ thr'[c].pc # "recv" =>
                 \A s \in Ids : Receiving(s)' <=> Receiving(s)
<1>1. /\ \A b \in Conns \ {c} : thr'[b] = thr[b]
      /\ thr'[c].s = thr[c].s /\ (thr[c].failed => thr'[c].failed)
      /\ thr[c].pc # "none" /\ thr'[c].pc # "none" /\ thr[c].s \in Ids
  BY DEF Moves, Types, Threadly
<1>2. /\ \A s \in Ids : Orderly(s)' => Orderly(s)
      /\ thr'[c].failed => ~Orderly(thr[c].s)'
  BY <1>1 DEF Orderly
<1>3. \A s \in Ids : s # thr[c].s => (Receiving(s)' <=> Receiving(s))
  BY <1>1 DEF Receiving
<1>4. ASSUME thr[c].pc \in Serving
      PROVE  \A b \in Conns \ {c} : ~(thr[b].pc = "recv" /\ thr[b].s = thr[c].s)
  BY <1>1, <1>4 DEF HashInv, SocketInv, OneHolder, Serves, Serving
<1>5. ASSUME thr[c].pc \in Serving
      PROVE  /\ Receiving(thr[c].s) <=> thr[c].pc = "recv"
             /\ Receiving(thr[c].s)' <=> thr'[c].pc = "recv"
  BY <1>1, <1>4, <1>5 DEF Receiving
<1>6. ASSUME thr[c].pc # "recv", thr'[c].pc # "recv"
      PROVE  \A s \in Ids : Receiving(s)' <=> Receiving(s)
  BY <1>1, <1>6 DEF Receiving
<1> QED BY <1>2, <1>3, <1>5, <1>6

\* Threads take a header before they receive, and give it back or to a command.
LEMMA ThreadCounts ==
    ASSUME HashInv, Types, Apart, Counts, NEW c \in Conns, Thread(c)
    PROVE  Counts'
<1>1. Moves(c)
  BY ThreadMoves
<1>2. PICK s \in Ids : s = thr[c].s
  BY DEF Types, Threadly
<1>3. /\ \A r \in Ids : Orderly(r)' => Orderly(r)
      /\ thr'[c].failed => ~Orderly(s)'
      /\ \A r \in Ids : r # s => (Receiving(r)' <=> Receiving(r))
      /\ thr[c].pc \in Serving => /\ Receiving(s) <=> thr[c].pc = "recv"
                                  /\ Receiving(s)' <=> thr'[c].pc = "recv"
      /\ thr[c].pc # "recv" /\ thr'[c].pc # "recv" =>
            \A r \in Ids : Receiving(r)' <=> Receiving(r)
  <2>1. thr'[c].s = thr[c].s
    BY <1>1 DEF Moves
  <2> QED BY <1>1, <1>2, <2>1, Receivers
<1>4. /\ IsFiniteSet(dev) /\ DOMAIN hdrs = Ids /\ DOMAIN pool = Ids
      /\ \A r \in Ids : CountsOf(r)
      /\ \A r \in Ids : Cardinality(DevOf(r)) \in Nat
  BY DevFinite DEF Counts
<1>5. thr \in [Conns -> Threadly]
  BY DEF Types
<1>6. CASE UNCHANGED <<hdrs, pool, dev>> /\ thr[c].pc # "recv" /\ thr'[c].pc # "recv"
  <2>1. \A r \in Ids : DevOf(r)' = DevOf(r)
    BY <1>6 DEF DevOf
  <2>2. \A r \in Ids : CountsOf(r)'
    BY <1>3, <1>4, <1>6, <2>1, CountsFrame
  <2> QED BY <1>4, <1>6, <2>2 DEF Counts
<1>7. CASE /\ UNCHANGED <<pool, dev>> /\ thr[c].pc = "loop" /\ thr'[c].pc = "recv" /\ hdrs[s] > 0
           /\ hdrs' = [hdrs EXCEPT ![s] = @ - 1]
  <2>1. \A r \in Ids : DevOf(r)' = DevOf(r)
    BY <1>7 DEF DevOf
  <2>2. ~Receiving(s) /\ Receiving(s)'
    BY <1>3, <1>7 DEF Serving
  <2>3. hdrs[s] \in Nat /\ hdrs'[s] = hdrs[s] - 1 /\ \A r \in Ids : r # s => hdrs'[r] = hdrs[r]
    BY <1>4, <1>7 DEF CountsOf
  <2>4. HdrsOf(s)' = HdrsOf(s) /\ hdrs'[s] \in Nat
    BY <1>4, <1>7, <2>1, <2>2, <2>3 DEF HdrsOf
  <2>5. CountsOf(s)'
    BY <1>3, <1>4, <1>7, <2>1, <2>4, CountsStep DEF CountsOf
  <2>6. \A r \in Ids : r # s => CountsOf(r)'
    BY <1>3, <1>4, <1>7, <2>1, <2>3, CountsFrame
  <2> QED BY <1>4, <1>7, <2>5, <2>6 DEF Counts
<1>8. CASE /\ UNCHANGED <<pool, dev>> /\ thr[c].pc = "recv" /\ thr'[c].pc # "recv"
           /\ hdrs' = [hdrs EXCEPT ![s] = @ + 1]
  <2>1. \A r \in Ids : DevOf(r)' = DevOf(r)
    BY <1>8 DEF DevOf
  <2>2. Receiving(s) /\ ~Receiving(s)'
    BY <1>3, <1>8 DEF Serving
  <2>3. hdrs[s] \in Nat /\ hdrs'[s] = hdrs[s] + 1 /\ \A r \in Ids : r # s => hdrs'[r] = hdrs[r]
    BY <1>4, <1>8 DEF CountsOf
  <2>4. HdrsOf(s)' = HdrsOf(s) /\ hdrs'[s] \in Nat
    BY <1>4, <1>8, <2>1, <2>2, <2>3 DEF HdrsOf
  <2>5. CountsOf(s)'
    BY <1>3, <1>4, <1>8, <2>1, <2>4, CountsStep DEF CountsOf
  <2>6. \A r \in Ids : r # s => CountsOf(r)'
    BY <1>3, <1>4, <1>8, <2>1, <2>3, CountsFrame
  <2> QED BY <1>4, <1>8, <2>5, <2>6 DEF Counts
<1>9. CASE /\ UNCHANGED <<hdrs, pool, dev>> /\ thr[c].pc = "recv" /\ thr'[c].pc # "recv"
           /\ thr'[c].failed
  <2>1. \A r \in Ids : DevOf(r)' = DevOf(r)
    BY <1>9 DEF DevOf
  <2>2. Receiving(s) /\ ~Receiving(s)' /\ ~Orderly(s)'
    BY <1>3, <1>9 DEF Serving
  <2>3. HdrsOf(s)' = HdrsOf(s) - 1
    BY <1>4, <1>9, <2>1, <2>2 DEF HdrsOf, CountsOf
  <2>4. CountsOf(s)'
    BY <1>4, <1>9, <2>1, <2>2, <2>3, CountsStep DEF CountsOf
  <2>5. \A r \in Ids : r # s => CountsOf(r)'
    BY <1>3, <1>4, <1>9, <2>1, CountsFrame
  <2> QED BY <1>4, <1>9, <2>4, <2>5 DEF Counts
<1>10. CASE /\ UNCHANGED hdrs /\ thr[c].pc = "recv" /\ thr'[c].pc # "recv" /\ pool[s] # 0
            /\ pool' = [pool EXCEPT ![s] = @ - 1]
            /\ \E e : e \notin dev /\ e.s = s /\ dev' = dev \union {e}
  <2>1. PICK e : e \notin dev /\ e.s = s /\ dev' = dev \union {e}
    BY <1>10
  <2>2. /\ IsFiniteSet(dev') /\ Cardinality(DevOf(s)') = Cardinality(DevOf(s)) + 1
        /\ \A r \in Ids : r # s => DevOf(r)' = DevOf(r)
    <3>1. /\ IsFiniteSet(dev') /\ Cardinality(DevOf(e.s)') = Cardinality(DevOf(e.s)) + 1
          /\ \A r \in Ids : r # e.s => DevOf(r)' = DevOf(r)
      BY <1>4, <2>1, DevAdd
    <3>2. DevOf(e.s) = DevOf(s) /\ DevOf(e.s)' = DevOf(s)'
      BY <2>1
    <3> QED BY <2>1, <3>1, <3>2
  <2>3. Receiving(s) /\ ~Receiving(s)'
    BY <1>3, <1>10 DEF Serving
  <2>4. /\ pool[s] \in Nat /\ pool'[s] = pool[s] - 1 /\ \A r \in Ids : r # s => pool'[r] = pool[r]
        /\ hdrs[s] \in Nat
    BY <1>4, <1>10 DEF CountsOf
  <2>5. HdrsOf(s)' = HdrsOf(s)
    BY <1>4, <1>10, <2>2, <2>3, <2>4 DEF HdrsOf
  <2>6. pool'[s] \in Nat /\ pool'[s] + Cardinality(DevOf(s)') = Hdrs
    <3>1. pool[s] + Cardinality(DevOf(s)) = Hdrs
      BY <1>4 DEF CountsOf
    <3> QED BY <1>4, <1>10, <2>2, <2>4, <3>1
  <2>7. CountsOf(s)'
    BY <1>3, <1>4, <1>10, <2>4, <2>5, <2>6, CountsStep
  <2>8. \A r \in Ids : r # s => CountsOf(r)'
    BY <1>3, <1>4, <1>10, <2>2, <2>4, CountsFrame
  <2> QED BY <1>4, <1>10, <2>2, <2>7, <2>8 DEF Counts
<1>11. ASSUME NEW pc, Goto(c, pc)
       PROVE  thr'[c].pc = pc
  BY <1>5, <1>11 DEF Goto, Threadly
<1>12. ASSUME NEW pc, Fails(c, pc)
       PROVE  thr'[c].pc = pc /\ thr'[c].failed
  <2>1. PICK failed : failed = TRUE
    OBVIOUS
  <2>2. thr' = [thr EXCEPT ![c].pc = pc, ![c].failed = failed]
    BY <1>12, <2>1 DEF Fails
  <2> QED BY <1>5, <2>1, <2>2 DEF Threadly
<1>13. CASE ThreadStart(c) \/ ThreadClose(c) \/ ThreadDrain(c) \/ ThreadReturn(c) \/ ThreadClear(c)
            \/ ThreadExit(c)
  BY <1>6, <1>11, <1>13 DEF ThreadStart, ThreadClose, ThreadDrain, ThreadReturn, ThreadClear,
       ThreadExit, poolVars
<1>14. CASE ThreadLoop(c)
  BY <1>2, <1>6, <1>7, <1>11, <1>12, <1>14 DEF ThreadLoop
<1>15. CASE ThreadRecvFails(c)
  BY <1>2, <1>8, <1>11, <1>15 DEF ThreadRecvFails
<1>16. CASE ThreadLogin(c) \/ ThreadLogout(c)
  BY <1>2, <1>8, <1>9, <1>11, <1>12, <1>16 DEF ThreadLogin, ThreadLogout, Received, Handled,
       HandlerFails
<1>17. CASE ThreadCommand(c)
  <2>1. thr[c].pc = "recv"
    BY <1>17 DEF ThreadCommand, Received
  <2>2. CASE pool[s] = 0
    BY <1>2, <1>9, <1>12, <1>17, <2>1, <2>2 DEF ThreadCommand, HandlerFails
  <2>3. CASE pool[s] # 0
    <3>1. PICK t : t = Head(net[c].in).tag
      OBVIOUS
    <3>2. PICK no : no = FALSE
      OBVIOUS
    <3>3. PICK e : e = [s |-> s, c |-> c, tag |-> t, sent |-> no]
      OBVIOUS
    <3>4. /\ UNCHANGED hdrs /\ pool' = [pool EXCEPT ![s] = @ - 1] /\ dev' = dev \union {e}
          /\ Goto(c, "loop")
      BY <1>2, <1>17, <2>3, <3>1, <3>2, <3>3 DEF ThreadCommand
    <3>5. e.s = s /\ e.c = c /\ e.tag = t
      BY <3>3
    <3>6. e \notin dev
      <4>1. \A d \in dev : ~(d.c = c /\ d.tag = t)
        BY <1>17, <3>1, CommandTag DEF ThreadCommand
      <4> QED BY <3>5, <4>1
    <3> QED BY <1>10, <1>11, <2>1, <2>3, <3>4, <3>5, <3>6
  <2> QED BY <2>2, <2>3
<1> QED BY <1>13, <1>14, <1>15, <1>16, <1>17 DEF Thread

\* A LUN worker that is done with a command gives its header and structure back.
LEMMA LunCounts ==
    ASSUME HashInv, Types, KeyOnce, Counts, NEW d \in dev, Respond(d) \/ Forget(d)
    PROVE  Counts'
<1>1. UNCHANGED thr
  BY DEF Respond, Forget
<1>2. /\ IsFiniteSet(dev) /\ DOMAIN hdrs = Ids /\ DOMAIN pool = Ids
      /\ \A r \in Ids : CountsOf(r)
      /\ \A r \in Ids : Cardinality(DevOf(r)) \in Nat
  BY DevFinite DEF Counts
<1>3. \A r \in Ids : (Receiving(r)' <=> Receiving(r)) /\ (Orderly(r)' => Orderly(r))
  BY <1>1 DEF Receiving, Orderly
<1>4. PICK s \in Ids : s = d.s
  BY DEF Types
<1>5. CASE UNCHANGED <<hdrs, pool, dev>>
  <2>1. \A r \in Ids : DevOf(r)' = DevOf(r)
    BY <1>5 DEF DevOf
  <2> QED BY <1>2, <1>3, <1>5, <2>1, CountsFrame DEF Counts
<1>6. CASE Respond(d) /\ ~UNCHANGED dev
  <2>1. PICK yes : yes = TRUE
    OBVIOUS
  <2>2. PICK e : e = [d EXCEPT !.sent = yes]
    OBVIOUS
  <2>3. e.s = d.s /\ e.c = d.c /\ e.tag = d.tag
    BY <2>2 DEF Types
  <2>4. e \notin dev \ {d}
    BY <2>3 DEF KeyOnce
  <2>5. dev' = (dev \ {d}) \union {e} /\ UNCHANGED <<hdrs, pool>>
    BY <1>6, <2>1, <2>2 DEF Respond, poolVars
  <2>6. IsFiniteSet(dev') /\ \A r \in Ids : Cardinality(DevOf(r)') = Cardinality(DevOf(r))
    BY <1>2, <2>3, <2>4, <2>5, DevReplace
  <2> QED BY <1>2, <1>3, <2>5, <2>6, CountsFrame DEF Counts
<1>7. CASE /\ hdrs' = [hdrs EXCEPT ![s] = @ + 1] /\ pool' = [pool EXCEPT ![s] = @ + 1]
           /\ dev' = dev \ {d}
  <2>1. /\ IsFiniteSet(dev') /\ Cardinality(DevOf(s)') = Cardinality(DevOf(s)) - 1
        /\ \A r \in Ids : r # s => DevOf(r)' = DevOf(r)
    <3>1. /\ IsFiniteSet(dev') /\ Cardinality(DevOf(d.s)') = Cardinality(DevOf(d.s)) - 1
          /\ \A r \in Ids : r # d.s => DevOf(r)' = DevOf(r)
      BY <1>2, <1>7, DevRemove
    <3>2. DevOf(d.s) = DevOf(s) /\ DevOf(d.s)' = DevOf(s)'
      BY <1>4
    <3> QED BY <1>4, <3>1, <3>2
  <2>2. /\ hdrs[s] \in Nat /\ hdrs'[s] = hdrs[s] + 1 /\ pool[s] \in Nat /\ pool'[s] = pool[s] + 1
        /\ \A r \in Ids : r # s => hdrs'[r] = hdrs[r] /\ pool'[r] = pool[r]
    BY <1>2, <1>7 DEF CountsOf
  <2>3. HdrsOf(s)' = HdrsOf(s)
    <3>1. PICK k : k = IF Receiving(s) THEN 1 ELSE 0
      OBVIOUS
    <3>2. HdrsOf(s) = hdrs[s] + Cardinality(DevOf(s)) + k /\ k \in Nat
      BY <3>1 DEF HdrsOf
    <3>3. HdrsOf(s)' = hdrs'[s] + Cardinality(DevOf(s)') + k
      BY <1>3, <3>1 DEF HdrsOf
    <3> QED BY <1>2, <2>1, <2>2, <3>2, <3>3
  <2>4. pool'[s] \in Nat /\ pool'[s] + Cardinality(DevOf(s)') = Hdrs
    <3>1. pool[s] + Cardinality(DevOf(s)) = Hdrs
      BY <1>2 DEF CountsOf
    <3> QED BY <1>2, <2>1, <2>2, <3>1
  <2>5. CountsOf(s)'
    BY <1>2, <1>3, <2>2, <2>3, <2>4, CountsStep
  <2>6. \A r \in Ids : r # s => CountsOf(r)'
    BY <1>2, <1>3, <2>1, <2>2, CountsFrame
  <2> QED BY <1>2, <1>7, <2>1, <2>5, <2>6 DEF Counts
<1> QED BY <1>4, <1>5, <1>6, <1>7 DEF Respond, Forget, poolVars

LEMMA CountsKept ==
    ASSUME HashInv, Types, Apart, KeyOnce, Counts, Next
    PROVE  Counts'
<1>1. ASSUME UNCHANGED <<hdrs, pool, dev>>,
             \A s \in Ids : (Receiving(s)' <=> Receiving(s)) /\ (Orderly(s)' => Orderly(s))
      PROVE  Counts'
  <2>1. \A r \in Ids : DevOf(r)' = DevOf(r)
    BY <1>1 DEF DevOf
  <2> QED BY <1>1, <2>1, CountsFrame DEF Counts
<1>2. CASE UNCHANGED <<hdrs, pool, dev, thr>>
  BY <1>1, <1>2 DEF Receiving, Orderly
<1>3. CASE Initiators \/ Interrupt \/ Handler \/ ListenerTake \/ ListenerStarted
  BY <1>2, <1>3 DEF Initiators, Connect, SendPdu, Close, Interrupt, Handler, StopSession, StopWait,
       ShutDown, ListenerTake, ListenerStarted, poolVars
<1>4. ASSUME NEW c \in Conns, ListenerAccept(c) PROVE Counts'
  <2>1. UNCHANGED <<hdrs, pool, dev>> /\ thr[c].pc = "none"
    BY <1>4 DEF ListenerAccept, Apart, ApartOf, poolVars
  <2>2. thr' = [thr EXCEPT ![c].pc = "start", ![c].s = lst.s]
    BY <1>4 DEF ListenerAccept
  <2>3. thr'[c].pc = "start" /\ \A b \in Conns \ {c} : thr'[b] = thr[b]
    BY <2>2 DEF Types, Threadly
  <2> QED BY <1>1, <2>1, <2>3 DEF Receiving, Orderly
<1> QED BY <1>3, <1>4, ThreadCounts, LunCounts DEF Next, Step, Listener, Luns

-----------------------------------------------------------------------------
(***************************************************************************)
(* The theorems                                                              *)
(***************************************************************************)

LEMMA InitAccount == Init => AccountInv
<1> SUFFICES ASSUME Init PROVE AccountInv
  OBVIOUS
<1>0. nsess \in 1..NSess /\ NSess \in Nat \ {0} /\ Hdrs \in Nat
  BY TargetSizes DEF Init
<1>1. HashInv
  BY InitHash
<1>2. 0 \in Ids /\ 0 \in 0..nsess
  BY <1>0 DEF Ids
<1>3. Types
  <2>1. stop \in Stops /\ stop.pc # "wait"
    BY <1>2 DEF Init, Stops
  <2>2. lst \in [pc : {"take", "accept", "started", "done"}, s : Ids]
    BY <1>2 DEF Init
  <2>3. thr \in [Conns -> Threadly]
    <3>1. PICK no \in BOOLEAN : no = FALSE
      OBVIOUS
    <3>2. PICK r : r = [pc |-> "none", s |-> 0, failed |-> no]
      OBVIOUS
    <3>3. r \in Threadly
      BY <1>2, <3>2 DEF Threadly
    <3>4. thr = [c \in Conns |-> r]
      BY <3>1, <3>2 DEF Init
    <3> QED BY <3>3, <3>4
  <2> QED BY <2>1, <2>2, <2>3 DEF Init, Types
<1>4. SessTypes
  <2>1. \A s \in Ids : sess[s] = Cleared
    BY DEF Init
  <2>2. Cleared.in \in BOOLEAN /\ Cleared.fd = NoFd /\ Cleared.flags = {}
    BY DEF Cleared
  <2> QED BY <2>1, <2>2 DEF SessTypes
<1>5. NoneLost
  <2> SUFFICES ASSUME NEW s \in Ids, s < nsess PROVE Free(s)
    BY DEF NoneLost
  <2>1. freeq = [i \in 1..nsess |-> i - 1] /\ nsess \in Nat /\ s \in Nat
    BY <1>0 DEF Init, Ids
  <2>2. s + 1 \in 1..nsess /\ freeq[s + 1] = s
    BY <2>1
  <2>3. Len(freeq) = nsess
    BY <2>1
  <2> QED BY <2>2, <2>3 DEF Free
<1>6. Apart
  <2> SUFFICES ASSUME NEW c \in Conns PROVE ApartOf(c)
    BY DEF Apart
  <2>1. net[c].st = "none" /\ net[c].in = <<>> /\ thr[c].pc = "none" /\ dev = {}
    BY DEF Init
  <2>2. TagsOnce(net[c].in) /\ Tags(c) = {}
    BY <2>1, NoTags DEF Tags
  <2> QED BY <2>1, <2>2 DEF ApartOf
<1>7. KeyOnce
  BY DEF Init, KeyOnce
<1>8. Counts
  <2>1. dev = {} /\ \A s \in Ids : hdrs[s] = Hdrs /\ pool[s] = Hdrs
    BY DEF Init
  <2>2. \A s \in Ids : DevOf(s) = {} /\ ~Receiving(s)
    BY DEF Init, DevOf, Receiving
  <2>3. Cardinality({}) = 0 /\ IsFiniteSet({})
    BY FS_EmptySet
  <2>4. \A s \in Ids : HdrsOf(s) = Hdrs
    BY <1>0, <2>1, <2>2, <2>3 DEF HdrsOf
  <2>5. \A s \in Ids : CountsOf(s)
    BY <1>0, <2>1, <2>2, <2>3, <2>4 DEF CountsOf
  <2> QED BY <2>1, <2>3, <2>5 DEF Init, Counts
<1> QED BY <1>1, <1>3, <1>4, <1>5, <1>6, <1>7, <1>8 DEF AccountInv

LEMMA NextAccount == AccountInv /\ [Next]_vars => AccountInv'
<1> SUFFICES ASSUME AccountInv, [Next]_vars PROVE AccountInv'
  OBVIOUS
<1> USE DEF AccountInv
<1>1. HashInv'
  BY NextHash
<1>2. CASE Next
  BY <1>1, <1>2, TypesKept, SessTypesKept, NoneLostKept, ApartKept, KeyOnceKept, CountsKept
<1>3. CASE UNCHANGED vars
  <2>1. /\ UNCHANGED <<nsess, g_state, lst, stop, freeq, sess, thr, fds, net, dev, exited>>
        /\ UNCHANGED <<hdrs, pool>>
    BY <1>3 DEF vars
  <2>2. Types' /\ SessTypes' /\ NoneLost'
    BY <2>1 DEF Types, Stops, SessTypes, NoneLost, Free, Listens, Serves
  <2>3. Apart' /\ KeyOnce'
    BY <2>1 DEF Apart, ApartOf, Tags, NewTag, KeyOnce
  <2>4. Counts'
    BY <2>1 DEF Counts, CountsOf, HdrsOf, DevOf, Receiving, Orderly
  <2> QED BY <1>1, <2>2, <2>3, <2>4
<1> QED BY <1>2, <1>3

\* The types, from the parts of the invariant
LEMMA AccountTypes == AccountInv => TypeOK
<1> SUFFICES ASSUME AccountInv PROVE TypeOK
  OBVIOUS
<1>0. Types /\ SessTypes /\ Counts /\ HashInv
  BY DEF AccountInv
<1>1. nsess \in 1..NSess /\ nsess \in Nat /\ nsess <= NSess /\ NSess \in Nat /\ Hdrs \in Nat
  BY <1>0, InUse, TargetSizes DEF HashInv, SocketInv, Shapes, StopShape
<1>2. stop \in [pc : {"no", "sessions", "wait", "end"}, s : 0..NSess]
  <2>1. \A i \in 0..nsess : i \in 0..NSess
    BY <1>1
  <2>2. stop \in Stops
    BY <1>0 DEF Types
  <2> QED BY <2>1, <2>2 DEF Stops
<1>3. freeq \in Seq(Ids) /\ \A s \in Ids : WellFormed(sess[s].cmds, Conns)
  BY <1>0 DEF HashInv, HashShape, SocketInv, Shapes
<1>4. ASSUME NEW s \in Ids
      PROVE  /\ hdrs[s] + Cardinality({d \in dev : d.s = s}) \in 0..Hdrs
             /\ pool[s] + Cardinality({d \in dev : d.s = s}) \in 0..Hdrs
  <2>1. PICK n : n = Cardinality(DevOf(s))
    OBVIOUS
  <2>2. n \in Nat
    BY <1>0, <2>1, DevFinite DEF Counts
  <2>3. hdrs[s] \in Nat /\ pool[s] \in Nat /\ pool[s] + n = Hdrs /\ HdrsOf(s) <= Hdrs
    BY <1>0, <2>1 DEF Counts, CountsOf
  <2>4. HdrsOf(s) = hdrs[s] + n \/ HdrsOf(s) = hdrs[s] + n + 1
    BY <2>1, <2>2, <2>3 DEF HdrsOf
  <2>5. hdrs[s] + n \in 0..Hdrs /\ pool[s] + n \in 0..Hdrs
    BY <1>1, <2>2, <2>3, <2>4
  <2> QED BY <2>1, <2>5 DEF DevOf
<1>5. thr \in [Conns -> [pc : Serving \union Ended \union {"none"}, s : Ids, failed : BOOLEAN]]
  BY <1>0 DEF Types, Threadly
<1> QED BY <1>0, <1>1, <1>2, <1>3, <1>4, <1>5 DEF TypeOK, Types, SessTypes

\* target.c's g_session_q: for any number of structures and connections, every session
\* structure is on the queue once, with the listener or with one session worker, and
\* what is missing from its pools is with the worker or at a LUN.
THEOREM AllAccounted == Spec => []Accounted
<1>1. AccountInv => Accounted
  <2> SUFFICES ASSUME AccountInv PROVE Accounted
    OBVIOUS
  <2>1. TypeOK /\ OneHolder /\ NoneLost
    BY AccountTypes DEF AccountInv, HashInv, SocketInv
  <2>2. ASSUME NEW s \in 0..(nsess - 1)
        PROVE  Cardinality({i \in DOMAIN freeq : freeq[i] = s})
               + (IF lst.pc = "accept" /\ lst.s = s THEN 1 ELSE 0)
               + Cardinality({c \in Conns : thr[c].pc \in Serving /\ thr[c].s = s}) = 1
    <3> DEFINE Q == {i \in DOMAIN freeq : freeq[i] = s}
               T == {c \in Conns : thr[c].pc \in Serving /\ thr[c].s = s}
    <3>1. s \in Ids /\ s < nsess
      BY InUse DEF AccountInv
    <3>2. DOMAIN freeq = 1..Len(freeq)
      BY DEF AccountInv, HashInv, SocketInv, Shapes
    <3>3. Cardinality({}) = 0 /\ \A x : Cardinality({x}) = 1
      BY FS_EmptySet, FS_Singleton
    <3>4. CASE Free(s)
      <4>1. PICK i \in 1..Len(freeq) : freeq[i] = s
        BY <3>4 DEF Free
      <4>2. Q = {i} /\ T = {} /\ ~Listens(s)
        BY <2>1, <3>1, <3>2, <3>4, <4>1 DEF OneHolder, Serves
      <4>3. Cardinality(Q) = 1 /\ Cardinality(T) = 0
        BY <3>3, <4>2
      <4> QED BY <4>2, <4>3 DEF Listens
    <3>5. CASE Listens(s)
      <4>1. Q = {} /\ T = {}
        BY <2>1, <3>1, <3>2, <3>5 DEF OneHolder, Serves, Free
      <4>2. Cardinality(Q) = 0 /\ Cardinality(T) = 0
        BY <3>3, <4>1
      <4> QED BY <3>5, <4>2 DEF Listens
    <3>6. ASSUME NEW c \in Conns, Serves(c, s)
          PROVE  Cardinality(Q) + (IF lst.pc = "accept" /\ lst.s = s THEN 1 ELSE 0)
                 + Cardinality(T) = 1
      <4>1. Q = {} /\ T = {c} /\ ~Listens(s)
        BY <2>1, <3>1, <3>2, <3>6 DEF OneHolder, Serves, Free
      <4>2. Cardinality(Q) = 0 /\ Cardinality(T) = 1
        BY <3>3, <4>1
      <4> QED BY <4>1, <4>2 DEF Listens
    <3> QED BY <2>1, <3>1, <3>4, <3>5, <3>6 DEF NoneLost
  <2> QED BY <2>1, <2>2 DEF Accounted
<1> QED BY InitAccount, NextAccount, <1>1, PTL DEF Spec

\* command_done and execute_t: for any numbers, a session structure without a connection
\* whose handlers did not fail has all its headers and command structures back.
THEOREM PoolsComeBack == Spec => []PoolsRefilled
<1>1. AccountInv => PoolsRefilled
  <2> SUFFICES ASSUME AccountInv, NEW s \in Ids, \A d \in dev : d.s # s,
                      \A c \in Conns : thr[c].pc # "none" /\ thr[c].s = s =>
                         thr[c].pc \in {"close", "drain", "return"} \union Ended /\ ~thr[c].failed
               PROVE  hdrs[s] = Hdrs /\ pool[s] = Hdrs
    BY DEF PoolsRefilled
  <2>1. DevOf(s) = {} /\ ~Receiving(s) /\ Orderly(s)
    BY DEF DevOf, Receiving, Orderly, Ended
  <2>2. CountsOf(s) /\ Cardinality(DevOf(s)) = 0
    BY <2>1, FS_EmptySet DEF AccountInv, Counts
  <2> QED BY <2>1, <2>2 DEF CountsOf, HdrsOf
<1> QED BY InitAccount, NextAccount, <1>1, PTL DEF Spec
=============================================================================
