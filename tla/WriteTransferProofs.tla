------------------------ MODULE WriteTransferProofs ------------------------
(***************************************************************************)
(* Proof that a write that is reported GOOD has all its data placed, each    *)
(* unit once, that no side meets an error, and that the rx thread completes  *)
(* commands that nobody works on: for any number of writes of any length,    *)
(* and for all parameters with which the target asks for data once.          *)
(*                                                                           *)
(* What was sent of a command and what was received of it are linked by what *)
(* is on the way: PDUs that continue one another.                            *)
(***************************************************************************)
EXTENDS WriteTransfer, SequenceTheorems, TLAPS

\* One R2T is enough: what the target asks for at once is within MaxBurstLength.
Fits == AsksAtOnce(ImmediateLength) => TransLen - ImmediateLength <= par.max

\* What a command is sent without an R2T
Burst == IF par.initialR2T THEN ImmediateLength
         ELSE IF par.first = 0 THEN TransLen ELSE Min2(par.first, TransLen)

\* PDUs on the way, the one that a thread has taken off the wire among them
Going == wk \o i2t
Coming == rx \o t2i

-----------------------------------------------------------------------------
(***************************************************************************)
(* The initiator's side of a command                                         *)
(***************************************************************************)
Has(s, x) == \E i \in 1..Len(s) : s[i] = x
NoRepeat(s) == \A i, j \in 1..Len(s) : s[i] = s[j] => i = j

TxAt(c) == tx # <<>> /\ tx[1].cmd = c
TxIn(c, mode) == TxAt(c) /\ tx[1].mode = mode
Away(c) == ~TxAt(c) /\ ~Has(txq, c)

NotYet(c) == /\ icmd[c].status = "none" /\ icmd[c].sent = 0 /\ icmd[c].r2treq = 0
             /\ Away(c) /\ c \notin ihash
ToSend(c) == /\ icmd[c].status = "pending" /\ icmd[c].sent = 0 /\ icmd[c].r2treq = 0
             /\ \/ Has(txq, c) /\ ~TxAt(c) /\ c \notin ihash
                \/ ~Has(txq, c) /\ TxIn(c, "command") /\ c \in ihash /\ ~icmd[c].txDone
Bursting(c) == /\ icmd[c].status = "pending" /\ icmd[c].r2treq = 0
               /\ ~Has(txq, c) /\ c \in ihash
               /\ \/ /\ TxIn(c, "unsolicited") /\ ~icmd[c].txDone
                     /\ ImmediateLength <= icmd[c].sent /\ icmd[c].sent < Burst
                  \/ icmd[c].sent = Burst /\ TxIn(c, "sent") /\ ~icmd[c].txDone
                  \/ icmd[c].sent = Burst /\ ~TxAt(c) /\ icmd[c].txDone
Answering(c) == /\ icmd[c].status = "pending" /\ icmd[c].r2treq = 1 /\ Burst < TransLen
                /\ icmd[c].off = Burst /\ icmd[c].len = TransLen - Burst
                /\ \/ icmd[c].sent = Burst /\ Has(txq, c) /\ ~TxAt(c) /\ c \notin ihash
                   \/ /\ TxIn(c, "r2t") /\ ~Has(txq, c) /\ c \in ihash /\ ~icmd[c].txDone
                      /\ tx[1].bytes >= 0
                      /\ icmd[c].sent = Burst + tx[1].bytes /\ icmd[c].sent < TransLen
                   \/ /\ icmd[c].sent = TransLen /\ TxIn(c, "answered")
                      /\ ~Has(txq, c) /\ c \in ihash /\ ~icmd[c].txDone
AllSent(c) == /\ icmd[c].status = "pending" /\ icmd[c].r2treq = 0 /\ icmd[c].sent = TransLen
              /\ Away(c) /\ c \in ihash /\ icmd[c].txDone
Good(c) == /\ icmd[c].status = "good" /\ icmd[c].r2treq = 0 /\ icmd[c].sent = TransLen
           /\ Away(c) /\ c \notin ihash

Initiator(c) == NotYet(c) \/ ToSend(c) \/ Bursting(c) \/ Answering(c) \/ AllSent(c) \/ Good(c)

(***************************************************************************)
(* The target's side                                                         *)
(***************************************************************************)
Quiet(c) == ~tcmd[c].ready /\ ~tcmd[c].done /\ tcmd[c].asked = 0
Fresh(c) == /\ c \notin thash /\ lun[c] = "none" /\ Quiet(c)
            /\ tcmd[c].bytes = 0 /\ tcmd[c].status = 0 /\ ~tcmd[c].r2tFlag
Accepted(c) == /\ c \in thash /\ lun[c] \in {"queued", "prepare"} /\ Quiet(c)
               /\ tcmd[c].length = ImmediateLength
               /\ tcmd[c].bytes = 0 /\ tcmd[c].status = 0 /\ ~tcmd[c].r2tFlag
Refused(c) == /\ c \in thash /\ lun[c] = "none" /\ Quiet(c)
              /\ tcmd[c].bytes = 0 /\ tcmd[c].status # 0 /\ ~tcmd[c].r2tFlag
\* R2T mode, or the immediate data is the whole first burst: an R2T is due.
Due(c) == /\ c \in thash /\ lun[c] = "ask" /\ Quiet(c) /\ AsksAtOnce(ImmediateLength)
          /\ tcmd[c].bytes = ImmediateLength /\ tcmd[c].bytes < TransLen
          /\ tcmd[c].status = 0 /\ ~tcmd[c].r2tFlag
Receiving(c) == /\ c \in thash /\ ~tcmd[c].done /\ tcmd[c].status = 0
                /\ \/ lun[c] = "wake" /\ ~tcmd[c].ready /\ tcmd[c].bytes = ImmediateLength
                   \/ lun[c] = "none" /\ tcmd[c].ready
                /\ ImmediateLength <= tcmd[c].bytes /\ tcmd[c].bytes < TransLen
                /\ tcmd[c].r2tFlag <=> tcmd[c].bytes >= Burst
Complete(c) == /\ tcmd[c].bytes = TransLen /\ tcmd[c].status = 0
               /\ tcmd[c].r2tFlag <=> Burst < TransLen
               /\ \/ c \in thash /\ lun[c] = "queued" /\ tcmd[c].done
                  \/ c \in thash /\ lun[c] = "report"
                  \/ c \notin thash /\ lun[c] = "none"

Target(c) == Fresh(c) \/ Accepted(c) \/ Refused(c) \/ Due(c) \/ Receiving(c) \/ Complete(c)

\* What is placed is what was counted, from the beginning on.
Prefix(c) == placed[c] = [u \in Units |-> IF u < tcmd[c].bytes THEN 1 ELSE 0]

-----------------------------------------------------------------------------
(***************************************************************************)
(* What is on the way                                                        *)
(***************************************************************************)
\* p takes command c from x to y; -1 is before the command PDU.
Link(p, c, x, y) ==
    IF p.cmd # c THEN y = x
    ELSE IF p.op = "command" THEN x = -1 /\ y = p.len
    ELSE x = p.off /\ y = p.off + p.len

\* The PDUs of s take command c from one position to another.
Leads(s, c, from, to) ==
    \E b \in Seq(Int) :
        /\ Len(b) = Len(s) + 1 /\ b[1] = from /\ b[Len(s) + 1] = to
        /\ \A i, j \in 1..(Len(s) + 1) : i <= j => b[i] <= b[j]
        /\ \A i \in 1..Len(s) : Link(s[i], c, b[i], b[i + 1])

\* Up to where command c was sent and received
SentTo(c) == IF NotYet(c) \/ ToSend(c) THEN -1 ELSE icmd[c].sent
GotTo(c) == IF tcmd[c].bytes > 0 THEN tcmd[c].bytes
            ELSE IF c \in thash THEN ImmediateLength ELSE -1

CmdPdus == {CmdPdu(c, ImmediateLength) : c \in Cmds}
DataPdus == {p \in [op : {"data"}, cmd : Cmds, off : Nat, len : Nat \ {0}, final : BOOLEAN] :
                /\ p.off + p.len <= TransLen
                /\ par.seg = 0 \/ p.len <= par.seg
                /\ p.off + p.len = TransLen => p.final}
R2TPdus == {R2TPdu(c, Burst, TransLen - Burst) : c \in Cmds}
RspPdus == {RspPdu(c, 0) : c \in Cmds}

Comes(c, op) == \E i \in 1..Len(Coming) : Coming[i].cmd = c /\ Coming[i].op = op

\* The one R2T of a command, and its response
Asked(c) == /\ ~tcmd[c].r2tFlag => icmd[c].r2treq = 0 /\ (Burst < TransLen => icmd[c].sent <= Burst)
            /\ Comes(c, "r2t") <=> tcmd[c].r2tFlag /\ icmd[c].r2treq = 0 /\ icmd[c].sent < TransLen
Responded(c) == /\ icmd[c].status = "good" => Complete(c) /\ c \notin thash
                /\ Comes(c, "response") <=>
                       Complete(c) /\ c \notin thash /\ icmd[c].status = "pending"

-----------------------------------------------------------------------------
IniFields ==
    /\ icmd \in [Cmds -> [sent : Nat, r2treq : 0..1, off : 0..TransLen, len : 0..TransLen,
                          txDone : BOOLEAN, status : {"none", "pending", "good"}]]
    /\ txq \in Seq(Cmds) /\ ihash \subseteq Cmds
    /\ tx = <<>> \/ \E j \in [cmd : Cmds, mode : Modes, bytes : Nat] : tx = <<j>>
TgtFields ==
    /\ tcmd \in [Cmds -> [length : 0..TransLen, bytes : 0..TransLen, ready : BOOLEAN,
                          r2tFlag : BOOLEAN, done : BOOLEAN, status : Nat, asked : 0..TransLen]]
    /\ lun \in [Cmds -> {"none", "queued", "prepare", "ask", "wake", "report"}]
    /\ placed \in [Cmds -> [Units -> 0..1]]
    /\ lunq \in Seq(Cmds) /\ thash \subseteq Cmds
WireFields ==
    /\ i2t \in Seq(CmdPdus \cup DataPdus) /\ (wk = <<>> \/ \E p \in DataPdus : wk = <<p>>)
    /\ t2i \in Seq(R2TPdus \cup RspPdus) /\ (rx = <<>> \/ \E p \in R2TPdus \cup RspPdus : rx = <<p>>)
Fields == par \in Params /\ IniFields /\ TgtFields /\ WireFields /\ iup = TRUE /\ tup = TRUE

Queues ==
    /\ NoRepeat(txq) /\ NoRepeat(lunq)
    /\ \A c \in Cmds : Has(lunq, c) <=> lun[c] = "queued"
    /\ \A i, j \in 1..Len(Coming) : Coming[i].cmd = Coming[j].cmd => i = j

CmdInv(c) == /\ Initiator(c) /\ Target(c) /\ Prefix(c)
             /\ Leads(Going, c, GotTo(c), SentTo(c))
             /\ Asked(c) /\ Responded(c)

WriteInv == Fields /\ Queues /\ \A c \in Cmds : CmdInv(c)

-----------------------------------------------------------------------------
(***************************************************************************)
(* Amounts                                                                   *)
(***************************************************************************)

\* What the parameters make of immediate data and first burst
LEMMA Amounts ==
    ASSUME par \in Params
    PROVE  /\ TransLen \in Nat \ {0} /\ par.seg \in Nat /\ par.first \in Nat /\ par.max \in Nat
           /\ par.cmds \subseteq Cmds
           /\ ImmediateLength \in Nat /\ Burst \in Nat
           /\ ImmediateLength <= Burst /\ Burst <= TransLen
           /\ ImmediateLength < TransLen => (AsksAtOnce(ImmediateLength) <=> ImmediateLength = Burst)
<1>1. /\ par.seg \in Nat /\ par.first \in Nat /\ par.max \in Nat /\ par.transLen \in Nat \ {0}
      /\ par.initialR2T \in BOOLEAN /\ par.immediate \in BOOLEAN /\ par.cmds \in SUBSET Cmds
      /\ par.immediate /\ par.first # 0 =>
             (IF par.seg = 0 THEN par.transLen <= par.first
              ELSE par.seg <= par.first \/ par.transLen <= par.first)
  BY ParamsAssumption
<1>2. ImmediateLength \in Nat /\ ImmediateLength <= TransLen
  BY <1>1 DEF ImmediateLength, Limited, Min2, TransLen
<1>3. par.first # 0 => ImmediateLength <= par.first
  BY <1>1 DEF ImmediateLength, Limited, Min2, TransLen
<1> QED BY <1>1, <1>2, <1>3 DEF Burst, AsksAtOnce, Min2, TransLen

\* Unsolicited data goes on until the burst is reached.
LEMMA Unsolicited ==
    ASSUME par \in Params, NEW sent \in Nat, ImmediateLength <= sent, sent <= Burst
    PROVE  /\ MoreUnsolicited(sent) <=> sent < Burst
           /\ sent < Burst =>
                /\ UnsolicitedLength(sent) \in Nat \ {0} /\ sent + UnsolicitedLength(sent) <= Burst
                /\ par.seg = 0 \/ UnsolicitedLength(sent) <= par.seg
<1>1. /\ TransLen \in Nat \ {0} /\ par.seg \in Nat /\ par.first \in Nat
      /\ ImmediateLength \in Nat
  BY Amounts
<1> QED BY <1>1 DEF MoreUnsolicited, UnsolicitedLength, Burst, Limited, Min2

\* After the burst the target's worker asks for the rest, unless that was done at once.
LEMMA Rest ==
    ASSUME par \in Params, NEW t, t.bytes \in Nat, t.bytes < TransLen,
           ImmediateLength <= t.bytes, ~par.initialR2T \/ t.r2tFlag
    PROVE  FirstBurstR2T(t) <=> ~t.r2tFlag /\ t.bytes >= Burst
<1>1. /\ TransLen \in Nat \ {0} /\ par.first \in Nat /\ ImmediateLength \in Nat
  BY Amounts
<1> QED BY <1>1 DEF FirstBurstR2T, Burst, Min2

-----------------------------------------------------------------------------
(***************************************************************************)
(* Sequences                                                                 *)
(***************************************************************************)

LEMMA TailFacts ==
    ASSUME NEW S, NEW s \in Seq(S), s # <<>>
    PROVE  /\ Head(s) \in S /\ Tail(s) \in Seq(S) /\ Len(s) \in Nat \ {0} /\ Len(Tail(s)) = Len(s) - 1
           /\ Head(s) = s[1] /\ \A i \in 1..Len(Tail(s)) : Tail(s)[i] = s[i + 1] /\ i + 1 \in 1..Len(s)
           /\ \A i \in 1..Len(s) : i = 1 \/ (i - 1 \in 1..Len(Tail(s)) /\ s[i] = Tail(s)[i - 1])
OBVIOUS

LEMMA HasTail ==
    ASSUME NEW S, NEW s \in Seq(S), s # <<>>
    PROVE  /\ \A x : Has(s, x) <=> x = Head(s) \/ Has(Tail(s), x)
           /\ NoRepeat(s) => NoRepeat(Tail(s)) /\ ~Has(Tail(s), Head(s))
<1>1. /\ Len(s) \in Nat \ {0} /\ Len(Tail(s)) = Len(s) - 1
      /\ Head(s) = s[1] /\ \A i \in 1..Len(Tail(s)) : Tail(s)[i] = s[i + 1] /\ i + 1 \in 1..Len(s)
      /\ \A i \in 1..Len(s) : i = 1 \/ (i - 1 \in 1..Len(Tail(s)) /\ s[i] = Tail(s)[i - 1])
  BY TailFacts
<1>2. ASSUME NEW x PROVE Has(s, x) <=> x = Head(s) \/ Has(Tail(s), x)
  <2>1. ASSUME Has(s, x) PROVE x = Head(s) \/ Has(Tail(s), x)
    <3>1. PICK i \in 1..Len(s) : s[i] = x
      BY <2>1 DEF Has
    <3> QED BY <3>1, <1>1 DEF Has
  <2>2. ASSUME x = Head(s) \/ Has(Tail(s), x) PROVE Has(s, x)
    <3>1. CASE x = Head(s)
      <4>1. 1 \in 1..Len(s) /\ s[1] = x
        BY <3>1, <1>1
      <4> QED BY <4>1 DEF Has
    <3>2. CASE Has(Tail(s), x)
      <4>1. PICK i \in 1..Len(Tail(s)) : Tail(s)[i] = x
        BY <3>2 DEF Has
      <4> QED BY <4>1, <1>1 DEF Has
    <3> QED BY <2>2, <3>1, <3>2
  <2> QED BY <2>1, <2>2
<1>3. ASSUME NoRepeat(s) PROVE NoRepeat(Tail(s))
  <2> SUFFICES ASSUME NEW i \in 1..Len(Tail(s)), NEW j \in 1..Len(Tail(s)), Tail(s)[i] = Tail(s)[j]
               PROVE  i = j
    BY DEF NoRepeat
  <2>1. i + 1 = j + 1
    BY <1>1, <1>3 DEF NoRepeat
  <2> QED BY <2>1, <1>1
<1>4. ASSUME NoRepeat(s) PROVE ~Has(Tail(s), Head(s))
  BY <1>1, <1>4 DEF Has, NoRepeat
<1> QED BY <1>2, <1>3, <1>4

LEMMA HasAppend ==
    ASSUME NEW S, NEW s \in Seq(S), NEW e \in S
    PROVE  /\ Append(s, e) \in Seq(S)
           /\ \A x : Has(Append(s, e), x) <=> Has(s, x) \/ x = e
           /\ NoRepeat(s) /\ ~Has(s, e) => NoRepeat(Append(s, e))
<1>1. /\ Append(s, e) \in Seq(S) /\ Len(Append(s, e)) = Len(s) + 1 /\ Len(s) \in Nat
      /\ Append(s, e)[Len(s) + 1] = e /\ \A i \in 1..Len(s) : Append(s, e)[i] = s[i]
  OBVIOUS
<1>2. \A i \in 1..Len(Append(s, e)) : i \in 1..Len(s) \/ i = Len(s) + 1
  BY <1>1
<1>3. ASSUME NEW x PROVE Has(Append(s, e), x) <=> Has(s, x) \/ x = e
  BY <1>1, <1>2 DEF Has
<1>4. ASSUME NoRepeat(s), ~Has(s, e) PROVE NoRepeat(Append(s, e))
  BY <1>1, <1>2, <1>4 DEF Has, NoRepeat
<1> QED BY <1>1, <1>3, <1>4

\* What a thread takes off the wire is the first on its way, and still is.
LEMMA OnTheWay ==
    ASSUME NEW S, NEW s \in Seq(S), NEW h \in Seq(S), h = <<>> \/ \E p \in S : h = <<p>>
    PROVE  /\ h \o s \in Seq(S)
           /\ h = <<>> => h \o s = s
           /\ h # <<>> => h \o s # <<>> /\ Head(h \o s) = h[1] /\ Tail(h \o s) = s /\ h[1] \in S
           /\ s # <<>> => <<Head(s)>> \o Tail(s) = s
           /\ \A e \in S : h \o Append(s, e) = Append(h \o s, e)
<1>1. h \o s \in Seq(S) /\ (h = <<>> => h \o s = s)
  BY ConcatEmptySeq, ConcatProperties
<1>2. ASSUME NEW p \in S PROVE /\ <<p>> \in Seq(S) /\ <<p>> \o s \in Seq(S) /\ <<p>> \o s # <<>>
                               /\ Head(<<p>> \o s) = p /\ Tail(<<p>> \o s) = s
  OBVIOUS
<1>3. ASSUME s # <<>> PROVE <<Head(s)>> \o Tail(s) = s
  <2>1. Head(s) \in S /\ Tail(s) \in Seq(S) /\ <<Head(s)>> \in Seq(S)
    BY <1>3
  <2>2. <<Head(s)>> \o Tail(s) \in Seq(S) /\ Len(<<Head(s)>> \o Tail(s)) = Len(s)
    BY <1>3, <2>1
  <2>3. \A i \in 1..Len(s) : (<<Head(s)>> \o Tail(s))[i] = s[i]
    BY <1>3, <2>1
  <2> QED BY <2>2, <2>3, SeqEqual
<1>4. ASSUME NEW e \in S PROVE h \o Append(s, e) = Append(h \o s, e)
  <2>1. <<e>> \in Seq(S)
    OBVIOUS
  <2>2. Append(s, e) = s \o <<e>> /\ Append(h \o s, e) = (h \o s) \o <<e>>
    BY <1>1, AppendIsConcat
  <2> QED BY <2>1, <2>2, ConcatAssociative
<1>5. ASSUME h # <<>> PROVE h \o s # <<>> /\ Head(h \o s) = h[1] /\ Tail(h \o s) = s /\ h[1] \in S
  <2>1. PICK p \in S : h = <<p>>
    BY <1>5
  <2>2. h[1] = p
    BY <2>1
  <2> QED BY <2>1, <2>2, <1>2
<1> QED BY <1>1, <1>3, <1>4, <1>5

\* Nothing on the way: what was sent was received.
LEMMA LeadsEmpty ==
    ASSUME NEW c, NEW x \in Int
    PROVE  Leads(<<>>, c, x, x)
<1> DEFINE b == <<x>>
<1>1. b \in Seq(Int) /\ Len(b) = 1 /\ b[1] = x
  OBVIOUS
<1>2. Len(<<>>) + 1 = 1 /\ 1..Len(<<>>) = {}
  OBVIOUS
<1> HIDE DEF b
<1>3. \A i, j \in 1..(Len(<<>>) + 1) : i <= j => b[i] <= b[j]
  <2> SUFFICES ASSUME NEW i \in 1..(Len(<<>>) + 1), NEW j \in 1..(Len(<<>>) + 1)
               PROVE  b[i] <= b[j]
    OBVIOUS
  <2>1. i = 1 /\ j = 1
    BY <1>2
  <2> QED BY <2>1, <1>1
<1> QED BY <1>1, <1>2, <1>3 DEF Leads

\* What is on the way never leads back.
LEMMA LeadsOn ==
    ASSUME NEW S, NEW s \in Seq(S), NEW c, NEW from, NEW to, Leads(s, c, from, to)
    PROVE  from \in Int /\ to \in Int /\ from <= to
<1>1. PICK b \in Seq(Int) :
        /\ Len(b) = Len(s) + 1 /\ b[1] = from /\ b[Len(s) + 1] = to
        /\ \A i, j \in 1..(Len(s) + 1) : i <= j => b[i] <= b[j]
  BY DEF Leads
<1>2. Len(s) \in Nat
  OBVIOUS
<1>3. 1 \in 1..Len(b) /\ Len(s) + 1 \in 1..Len(b)
  BY <1>1, <1>2
<1>4. b[1] \in Int /\ b[Len(s) + 1] \in Int
  BY <1>3
<1> QED BY <1>1, <1>2, <1>3, <1>4

\* The first PDU on the way
LEMMA LeadsTail ==
    ASSUME NEW S, NEW s \in Seq(S), s # <<>>, NEW c, NEW from, NEW to, Leads(s, c, from, to)
    PROVE  \E y \in Int : /\ Link(Head(s), c, from, y) /\ from <= y /\ y <= to
                          /\ Leads(Tail(s), c, y, to)
<1>1. PICK b \in Seq(Int) :
        /\ Len(b) = Len(s) + 1 /\ b[1] = from /\ b[Len(s) + 1] = to
        /\ \A i, j \in 1..(Len(s) + 1) : i <= j => b[i] <= b[j]
        /\ \A i \in 1..Len(s) : Link(s[i], c, b[i], b[i + 1])
  BY DEF Leads
<1>2. /\ Len(s) \in Nat \ {0} /\ Len(Tail(s)) = Len(s) - 1 /\ Head(s) = s[1]
      /\ \A i \in 1..Len(Tail(s)) : Tail(s)[i] = s[i + 1] /\ i + 1 \in 1..Len(s)
  BY TailFacts
<1> DEFINE r == Tail(b)
<1>3. /\ r \in Seq(Int) /\ Len(r) = Len(Tail(s)) + 1
      /\ \A i \in 1..Len(r) : r[i] = b[i + 1] /\ i + 1 \in 1..Len(b)
  <2>1. b # <<>> /\ Len(b) - 1 = Len(Tail(s)) + 1
    BY <1>1, <1>2
  <2> QED BY <2>1, TailFacts
<1>4. 2 \in 1..Len(b) /\ b[2] \in Int /\ r[1] = b[2] /\ r[Len(Tail(s)) + 1] = to
  <2>1. 2 \in 1..Len(b) /\ 1 \in 1..Len(r) /\ Len(Tail(s)) + 1 \in 1..Len(r) /\ (Len(Tail(s)) + 1) + 1 = Len(s) + 1
    BY <1>1, <1>2, <1>3
  <2> QED BY <2>1, <1>1, <1>3
<1> HIDE DEF r
<1>5. Link(Head(s), c, from, b[2]) /\ from <= b[2] /\ b[2] <= to
  <2>1. 1 \in 1..Len(s) /\ 1 + 1 = 2
    BY <1>2
  <2>2. Link(s[1], c, b[1], b[2])
    BY <1>1, <2>1
  <2>3. 1 \in 1..(Len(s) + 1) /\ 2 \in 1..(Len(s) + 1) /\ Len(s) + 1 \in 1..(Len(s) + 1) /\ 2 <= Len(s) + 1
    BY <1>2
  <2> QED BY <1>1, <1>2, <2>2, <2>3
<1>6. Leads(Tail(s), c, b[2], to)
  <2>1. \A i, j \in 1..(Len(Tail(s)) + 1) : i <= j => r[i] <= r[j]
    <3> SUFFICES ASSUME NEW i \in 1..(Len(Tail(s)) + 1), NEW j \in 1..(Len(Tail(s)) + 1), i <= j
                 PROVE  r[i] <= r[j]
      OBVIOUS
    <3>1. i + 1 \in 1..(Len(s) + 1) /\ j + 1 \in 1..(Len(s) + 1) /\ i + 1 <= j + 1
      BY <1>2
    <3>2. r[i] = b[i + 1] /\ r[j] = b[j + 1]
      BY <1>3
    <3> QED BY <3>1, <3>2, <1>1
  <2>2. \A i \in 1..Len(Tail(s)) : Link(Tail(s)[i], c, r[i], r[i + 1])
    <3> SUFFICES ASSUME NEW i \in 1..Len(Tail(s)) PROVE Link(Tail(s)[i], c, r[i], r[i + 1])
      OBVIOUS
    <3>1. i \in 1..Len(r) /\ i + 1 \in 1..Len(r) /\ i + 1 \in 1..Len(s)
      BY <1>2, <1>3
    <3>2. r[i] = b[i + 1] /\ r[i + 1] = b[(i + 1) + 1] /\ Tail(s)[i] = s[i + 1]
      BY <3>1, <1>2, <1>3
    <3>3. Link(s[i + 1], c, b[i + 1], b[(i + 1) + 1])
      BY <3>1, <1>1
    <3> QED BY <3>2, <3>3
  <2> QED BY <1>3, <1>4, <2>1, <2>2 DEF Leads
<1> QED BY <1>4, <1>5, <1>6

\* One PDU more on the way
LEMMA LeadsAppend ==
    ASSUME NEW S, NEW s \in Seq(S), NEW p \in S, NEW c, NEW from, NEW to, Leads(s, c, from, to),
           NEW y \in Int, to <= y, Link(p, c, to, y)
    PROVE  Leads(Append(s, p), c, from, y)
<1>1. PICK b \in Seq(Int) :
        /\ Len(b) = Len(s) + 1 /\ b[1] = from /\ b[Len(s) + 1] = to
        /\ \A i, j \in 1..(Len(s) + 1) : i <= j => b[i] <= b[j]
        /\ \A i \in 1..Len(s) : Link(s[i], c, b[i], b[i + 1])
  BY DEF Leads
<1> DEFINE r == Append(b, y)
           q == Append(s, p)
<1>2. /\ Len(s) \in Nat /\ Len(q) = Len(s) + 1 /\ q[Len(s) + 1] = p
      /\ \A i \in 1..Len(s) : q[i] = s[i]
  OBVIOUS
<1>3. /\ r \in Seq(Int) /\ Len(r) = Len(b) + 1 /\ r[Len(b) + 1] = y /\ \A i \in 1..Len(b) : r[i] = b[i]
  OBVIOUS
<1>4. \A i \in 1..(Len(s) + 1) : b[i] \in Int /\ r[i] = b[i]
  BY <1>1, <1>3
<1>5. Len(r) = Len(q) + 1 /\ r[Len(q) + 1] = y /\ Len(q) + 1 = (Len(s) + 1) + 1
  BY <1>1, <1>2, <1>3
<1> HIDE DEF r, q
<1>6. \A i, j \in 1..(Len(q) + 1) : i <= j => r[i] <= r[j]
  <2> SUFFICES ASSUME NEW i \in 1..(Len(q) + 1), NEW j \in 1..(Len(q) + 1), i <= j
               PROVE  r[i] <= r[j]
    OBVIOUS
  <2>1. CASE j \in 1..(Len(s) + 1)
    <3>1. i \in 1..(Len(s) + 1)
      BY <2>1, <1>2
    <3> QED BY <2>1, <3>1, <1>1, <1>4
  <2>2. CASE j = Len(q) + 1 /\ i \in 1..(Len(s) + 1)
    <3>1. b[i] <= b[Len(s) + 1]
      BY <2>2, <1>1, <1>2
    <3>2. b[i] \in Int /\ b[Len(s) + 1] \in Int /\ r[i] = b[i]
      BY <2>2, <1>2, <1>4
    <3> QED BY <3>1, <3>2, <2>2, <1>1, <1>5
  <2>3. CASE j = Len(q) + 1 /\ i = Len(q) + 1
    BY <2>3, <1>5
  <2> QED BY <2>1, <2>2, <2>3, <1>2, <1>5
<1>7. \A i \in 1..Len(q) : Link(q[i], c, r[i], r[i + 1])
  <2> SUFFICES ASSUME NEW i \in 1..Len(q) PROVE Link(q[i], c, r[i], r[i + 1])
    OBVIOUS
  <2>1. CASE i \in 1..Len(s)
    <3>1. i \in 1..(Len(s) + 1) /\ i + 1 \in 1..(Len(s) + 1)
      BY <2>1, <1>2
    <3> QED BY <2>1, <3>1, <1>1, <1>2, <1>4
  <2>2. CASE i = Len(s) + 1
    <3>1. q[i] = p /\ r[i] = to /\ r[i + 1] = y
      BY <2>2, <1>1, <1>2, <1>4, <1>5
    <3> QED BY <3>1
  <2> QED BY <2>1, <2>2, <1>2
<1>8. r[1] = from
  BY <1>1, <1>2, <1>4
<1> QED BY <1>3, <1>5, <1>6, <1>7, <1>8 DEF Leads, q

-----------------------------------------------------------------------------
(***************************************************************************)
(* Steps that leave a command alone                                          *)
(***************************************************************************)
Pdus == CmdPdus \cup DataPdus
Answers == R2TPdus \cup RspPdus

SameInitiator(c) == /\ icmd'[c] = icmd[c] /\ (c \in ihash' <=> c \in ihash)
                    /\ (Has(txq', c) <=> Has(txq, c))
                    /\ (TxAt(c)' <=> TxAt(c)) /\ (TxAt(c) => tx' = tx)
SameTarget(c) == /\ tcmd'[c] = tcmd[c] /\ lun'[c] = lun[c] /\ (c \in thash' <=> c \in thash)
                 /\ placed'[c] = placed[c]
SameAnswers(c) == \A op : Comes(c, op)' <=> Comes(c, op)

\* No step changes the parameters, nor what depends on them alone.
LEMMA SameParameters ==
    ASSUME par' = par
    PROVE  /\ TransLen' = TransLen /\ Units' = Units /\ ImmediateLength' = ImmediateLength
           /\ Burst' = Burst /\ (AsksAtOnce(ImmediateLength)' <=> AsksAtOnce(ImmediateLength))
           /\ (Fits' <=> Fits)
           /\ CmdPdus' = CmdPdus /\ DataPdus' = DataPdus /\ R2TPdus' = R2TPdus /\ RspPdus' = RspPdus
<1>1. TransLen' = TransLen
  BY DEF TransLen
<1>2. ImmediateLength' = ImmediateLength
  BY <1>1 DEF ImmediateLength
<1>3. Burst' = Burst
  BY <1>1, <1>2 DEF Burst
<1>4. Units' = Units
  BY <1>1 DEF Units
<1>5. AsksAtOnce(ImmediateLength)' <=> AsksAtOnce(ImmediateLength)
  BY <1>2 DEF AsksAtOnce
<1>6. Fits' <=> Fits
  BY <1>1, <1>2, <1>5 DEF Fits
<1>7. CmdPdus' = CmdPdus /\ R2TPdus' = R2TPdus /\ RspPdus' = RspPdus
  BY <1>1, <1>2, <1>3 DEF CmdPdus, R2TPdus, RspPdus
<1>8. DataPdus' = DataPdus
  BY <1>1 DEF DataPdus
<1> QED BY <1>1, <1>2, <1>3, <1>4, <1>5, <1>6, <1>7, <1>8

LEMMA InitiatorKept ==
    ASSUME par' = par, NEW c, SameInitiator(c)
    PROVE  /\ NotYet(c)' <=> NotYet(c)
           /\ ToSend(c)' <=> ToSend(c)
           /\ Bursting(c)' <=> Bursting(c)
           /\ Answering(c)' <=> Answering(c)
           /\ AllSent(c)' <=> AllSent(c)
           /\ Good(c)' <=> Good(c)
           /\ SentTo(c)' = SentTo(c)
<1>1. TransLen' = TransLen /\ ImmediateLength' = ImmediateLength /\ Burst' = Burst
  BY SameParameters
<1>2. /\ icmd'[c] = icmd[c] /\ (c \in ihash' <=> c \in ihash) /\ (Has(txq, c)' <=> Has(txq, c))
      /\ (TxAt(c)' <=> TxAt(c)) /\ (TxAt(c) => tx' = tx)
  BY DEF SameInitiator, Has
<1>3. \A mode : TxIn(c, mode)' <=> TxIn(c, mode)
  BY <1>2 DEF TxIn
<1>4. NotYet(c)' <=> NotYet(c)
  BY <1>2 DEF NotYet, Away
<1>5. ToSend(c)' <=> ToSend(c)
  BY <1>2, <1>3 DEF ToSend
<1>6. Bursting(c)' <=> Bursting(c)
  BY <1>1, <1>2, <1>3 DEF Bursting
<1>7. Answering(c)' <=> Answering(c)
  BY <1>1, <1>2, <1>3 DEF Answering, TxIn
<1>8. AllSent(c)' <=> AllSent(c)
  BY <1>1, <1>2 DEF AllSent, Away
<1>9. Good(c)' <=> Good(c)
  BY <1>1, <1>2 DEF Good, Away
<1>10. SentTo(c)' = SentTo(c)
  BY <1>2, <1>4, <1>5 DEF SentTo
<1> QED BY <1>4, <1>5, <1>6, <1>7, <1>8, <1>9, <1>10

LEMMA TargetKept ==
    ASSUME par' = par, NEW c, SameTarget(c)
    PROVE  /\ Fresh(c)' <=> Fresh(c)
           /\ Accepted(c)' <=> Accepted(c)
           /\ Refused(c)' <=> Refused(c)
           /\ Due(c)' <=> Due(c)
           /\ Receiving(c)' <=> Receiving(c)
           /\ Complete(c)' <=> Complete(c)
           /\ Prefix(c)' <=> Prefix(c)
           /\ GotTo(c)' = GotTo(c)
<1>1. TransLen' = TransLen /\ ImmediateLength' = ImmediateLength /\ Burst' = Burst /\ Units' = Units
      /\ (AsksAtOnce(ImmediateLength)' <=> AsksAtOnce(ImmediateLength))
  BY SameParameters
<1>2. /\ tcmd'[c] = tcmd[c] /\ lun'[c] = lun[c] /\ (c \in thash' <=> c \in thash)
      /\ placed'[c] = placed[c]
  BY DEF SameTarget
<1>3. Quiet(c)' <=> Quiet(c)
  BY <1>2 DEF Quiet
<1>4. (Fresh(c)' <=> Fresh(c)) /\ (Accepted(c)' <=> Accepted(c)) /\ (Refused(c)' <=> Refused(c))
  BY <1>1, <1>2, <1>3 DEF Fresh, Accepted, Refused
<1>5. Due(c)' <=> Due(c)
  BY <1>1, <1>2, <1>3 DEF Due
<1>6. Receiving(c)' <=> Receiving(c)
  BY <1>1, <1>2 DEF Receiving
<1>7. Complete(c)' <=> Complete(c)
  BY <1>1, <1>2 DEF Complete
<1>8. Prefix(c)' <=> Prefix(c)
  BY <1>1, <1>2 DEF Prefix
<1>9. GotTo(c)' = GotTo(c)
  BY <1>1, <1>2 DEF GotTo
<1> QED BY <1>4, <1>5, <1>6, <1>7, <1>8, <1>9

\* A command whose two sides and answers are the same keeps its part of the invariant.
LEMMA CmdKept ==
    ASSUME par' = par, NEW c, CmdInv(c), SameInitiator(c), SameTarget(c), SameAnswers(c),
           Leads(Going', c, GotTo(c), SentTo(c))
    PROVE  CmdInv(c)'
<1>1. /\ Initiator(c)' <=> Initiator(c)
      /\ SentTo(c)' = SentTo(c)
  BY InitiatorKept DEF Initiator
<1>2. /\ Target(c)' <=> Target(c)
      /\ Complete(c)' <=> Complete(c)
      /\ Prefix(c)' <=> Prefix(c)
      /\ GotTo(c)' = GotTo(c)
  BY TargetKept DEF Target
<1>3. Asked(c)'
  BY SameParameters DEF CmdInv, Asked, SameInitiator, SameTarget, SameAnswers
<1>4. Responded(c)'
  BY <1>2 DEF CmdInv, Responded, SameInitiator, SameTarget, SameAnswers
<1>5. Leads(Going, c, GotTo(c), SentTo(c))'
  BY <1>1, <1>2 DEF Leads, Link
<1> QED BY <1>1, <1>2, <1>3, <1>4, <1>5 DEF CmdInv

-----------------------------------------------------------------------------
(***************************************************************************)
(* Steps at the ends of the wires                                            *)
(***************************************************************************)
LEMMA Wires ==
    ASSUME Fields
    PROVE  /\ i2t \in Seq(Pdus) /\ wk \in Seq(Pdus) /\ (wk = <<>> \/ \E p \in Pdus : wk = <<p>>)
           /\ t2i \in Seq(Answers) /\ rx \in Seq(Answers) /\ (rx = <<>> \/ \E p \in Answers : rx = <<p>>)
           /\ Going \in Seq(Pdus) /\ Coming \in Seq(Answers)
<1>1. i2t \in Seq(Pdus) /\ (wk = <<>> \/ \E p \in Pdus : wk = <<p>>)
  BY DEF Fields, WireFields, Pdus
<1>2. t2i \in Seq(Answers) /\ (rx = <<>> \/ \E p \in Answers : rx = <<p>>)
  BY DEF Fields, WireFields, Answers
<1>3. ASSUME NEW S, NEW h, h = <<>> \/ \E p \in S : h = <<p>> PROVE h \in Seq(S)
  <2>1. CASE h = <<>>
    BY <2>1
  <2>2. CASE \E p \in S : h = <<p>>
    BY <2>2
  <2> QED BY <1>3, <2>1, <2>2
<1>4. wk \in Seq(Pdus) /\ rx \in Seq(Answers)
  BY <1>1, <1>2, <1>3
<1> QED BY <1>1, <1>2, <1>4, OnTheWay DEF Going, Coming

\* The initiator sends a PDU: more is on the way to the target.
LEMMA Sends ==
    ASSUME Fields, NEW p \in Pdus, i2t' = Append(i2t, p), wk' = wk,
           NEW c, NEW from, NEW to, Leads(Going, c, from, to)
    PROVE  /\ p.cmd # c => Leads(Going', c, from, to)
           /\ \A y \in Int : to <= y /\ Link(p, c, to, y) => Leads(Going', c, from, y)
<1>1. Going \in Seq(Pdus) /\ Going' = Append(Going, p)
  <2>1. wk \o Append(i2t, p) = Append(wk \o i2t, p)
    BY Wires, OnTheWay
  <2> QED BY <2>1, Wires DEF Going
<1>2. to \in Int
  BY <1>1, LeadsOn
<1>3. p.cmd # c => Link(p, c, to, to) /\ to <= to
  BY <1>2 DEF Link
<1> QED BY <1>1, <1>2, <1>3, LeadsAppend

\* The first PDU on the way is done with at the target: less is on the way.
LEMMA Arrives ==
    ASSUME Fields, NEW p, Going # <<>>, p = Head(Going), Going' = Tail(Going),
           NEW c, NEW from, NEW to, Leads(Going, c, from, to)
    PROVE  /\ p.cmd # c => Leads(Going', c, from, to)
           /\ \E y \in Int : /\ Link(p, c, from, y) /\ from <= y /\ y <= to
                             /\ Leads(Going', c, y, to)
<1>1. PICK y \in Int : Link(p, c, from, y) /\ from <= y /\ y <= to /\ Leads(Going', c, y, to)
  BY Wires, LeadsTail
<1>2. p.cmd # c => y = from
  BY <1>1 DEF Link
<1> QED BY <1>1, <1>2

\* The two ways a PDU is done with: off the wire, and by the worker that took it.
LEMMA FirstGoing ==
    ASSUME Fields
    PROVE  /\ wk = <<>> /\ i2t # <<>> => /\ Going # <<>> /\ Head(Going) = Head(i2t)
                                         /\ Tail(Going) = Tail(i2t) /\ Going = i2t
                                         /\ Head(i2t) \in Pdus /\ Tail(i2t) \in Seq(Pdus)
                                         /\ <<Head(i2t)>> \o Tail(i2t) = Going
           /\ wk # <<>> => /\ Going # <<>> /\ Head(Going) = wk[1] /\ Tail(Going) = i2t
                           /\ wk[1] \in DataPdus
           /\ <<>> \o i2t = i2t
<1>1. wk = <<>> /\ i2t # <<>> => Going = i2t /\ Head(i2t) \in Pdus /\ Tail(i2t) \in Seq(Pdus)
                                 /\ <<Head(i2t)>> \o Tail(i2t) = Going
  BY Wires, OnTheWay, TailFacts DEF Going
<1>2. wk # <<>> => Going # <<>> /\ Head(Going) = wk[1] /\ Tail(Going) = i2t
  BY Wires, OnTheWay DEF Going
<1>3. wk # <<>> => wk[1] \in DataPdus
  BY DEF Fields, WireFields
<1>4. <<>> \o i2t = i2t
  BY Wires, ConcatEmptySeq
<1> QED BY <1>1, <1>2, <1>3, <1>4

\* The target sends an answer to a command that has none on the way.
LEMMA AnswerSent ==
    ASSUME Fields, NEW p \in Answers, t2i' = Append(t2i, p), rx' = rx
    PROVE  /\ \A c, op : Comes(c, op)' <=> Comes(c, op) \/ (p.cmd = c /\ p.op = op)
           /\ (/\ \A op : ~Comes(p.cmd, op)
               /\ \A i, j \in 1..Len(Coming) : Coming[i].cmd = Coming[j].cmd => i = j)
                 => (\A i, j \in 1..Len(Coming) : Coming[i].cmd = Coming[j].cmd => i = j)'
<1>1. Coming \in Seq(Answers) /\ Coming' = Append(Coming, p)
  <2>1. rx \o Append(t2i, p) = Append(rx \o t2i, p)
    BY Wires, OnTheWay
  <2> QED BY <2>1, Wires DEF Coming
<1> DEFINE n == Len(Coming)
<1>2. /\ n \in Nat /\ Len(Coming') = n + 1 /\ Coming'[n + 1] = p
      /\ \A i \in 1..n : Coming'[i] = Coming[i]
  BY <1>1
<1>3. n = Len(Coming)
  OBVIOUS
<1> HIDE DEF n
<1>4. \A i \in 1..Len(Coming') : i \in 1..n \/ i = n + 1
  BY <1>2
<1>5. (\A i \in 1..n : i \in 1..Len(Coming')) /\ n + 1 \in 1..Len(Coming')
  BY <1>2
<1>6. ASSUME NEW c, NEW op PROVE Comes(c, op)' <=> Comes(c, op) \/ (p.cmd = c /\ p.op = op)
  <2>1. ASSUME Comes(c, op)' PROVE Comes(c, op) \/ (p.cmd = c /\ p.op = op)
    BY <2>1, <1>2, <1>3, <1>4 DEF Comes
  <2>2. ASSUME Comes(c, op) PROVE Comes(c, op)'
    BY <2>2, <1>2, <1>3, <1>5 DEF Comes
  <2>3. ASSUME p.cmd = c, p.op = op PROVE Comes(c, op)'
    BY <2>3, <1>2, <1>5 DEF Comes
  <2> QED BY <2>1, <2>2, <2>3
<1>7. ASSUME \A op : ~Comes(p.cmd, op),
             \A i, j \in 1..n : Coming[i].cmd = Coming[j].cmd => i = j,
             NEW i \in 1..Len(Coming'), NEW j \in 1..Len(Coming'), Coming'[i].cmd = Coming'[j].cmd
      PROVE  i = j
  <2>1. \A k \in 1..n : Coming[k].cmd # p.cmd
    BY <1>3, <1>7 DEF Comes
  <2> QED BY <2>1, <1>2, <1>4, <1>7
<1> QED BY <1>3, <1>6, <1>7

\* The rx thread has handled the PDU that it took.
LEMMA Handled ==
    ASSUME Fields, rx # <<>>, rx' = <<>>, t2i' = t2i,
           \A i, j \in 1..Len(Coming) : Coming[i].cmd = Coming[j].cmd => i = j
    PROVE  /\ rx[1] \in Answers /\ Comes(rx[1].cmd, rx[1].op)
           /\ \A op : op # rx[1].op => ~Comes(rx[1].cmd, op)
           /\ \A c, op : c = rx[1].cmd => ~Comes(c, op)'
           /\ \A c, op : c # rx[1].cmd => (Comes(c, op)' <=> Comes(c, op))
           /\ (\A i, j \in 1..Len(Coming) : Coming[i].cmd = Coming[j].cmd => i = j)'
<1>1. Coming \in Seq(Answers) /\ Coming # <<>> /\ Head(Coming) = rx[1] /\ Tail(Coming) = t2i
      /\ rx[1] \in Answers
  BY Wires, OnTheWay DEF Coming
<1>2. Coming' = Tail(Coming)
  BY <1>1, Wires, ConcatEmptySeq DEF Coming
<1>3. /\ Len(Coming) \in Nat \ {0} /\ Len(Coming') = Len(Coming) - 1
      /\ rx[1] = Coming[1] /\ \A i \in 1..Len(Coming') : Coming'[i] = Coming[i + 1] /\ i + 1 \in 1..Len(Coming)
      /\ \A i \in 1..Len(Coming) : i = 1 \/ (i - 1 \in 1..Len(Coming') /\ Coming[i] = Coming'[i - 1])
  BY <1>1, <1>2, TailFacts
<1>4. 1 \in 1..Len(Coming)
  BY <1>3
<1>5. Comes(rx[1].cmd, rx[1].op)
  BY <1>3, <1>4 DEF Comes
<1>6. ASSUME NEW c, NEW op, c = rx[1].cmd PROVE ~Comes(c, op)'
  <2> SUFFICES ASSUME NEW i \in 1..Len(Coming'), Coming'[i].cmd = c PROVE FALSE
    BY DEF Comes
  <2> QED BY <1>3, <1>4, <1>6
<1>7. ASSUME NEW op, op # rx[1].op PROVE ~Comes(rx[1].cmd, op)
  BY <1>3, <1>4, <1>7 DEF Comes
<1>8. ASSUME NEW c, NEW op, c # rx[1].cmd PROVE Comes(c, op)' <=> Comes(c, op)
  <2>1. ASSUME Comes(c, op)' PROVE Comes(c, op)
    BY <2>1, <1>3 DEF Comes
  <2>2. ASSUME Comes(c, op) PROVE Comes(c, op)'
    BY <2>2, <1>3, <1>8 DEF Comes
  <2> QED BY <2>1, <2>2
<1>9. ASSUME NEW i \in 1..Len(Coming'), NEW j \in 1..Len(Coming'), Coming'[i].cmd = Coming'[j].cmd
      PROVE  i = j
  <2>1. i + 1 = j + 1
    BY <1>3, <1>9
  <2> QED BY <2>1
<1>10. (\A i, j \in 1..Len(Coming) : Coming[i].cmd = Coming[j].cmd => i = j)'
  BY <1>9
<1> QED BY <1>1, <1>5, <1>6, <1>7, <1>8, <1>10

\* What the rx thread takes off the wire is still to be handled.
LEMMA HeaderTaken ==
    ASSUME Fields, rx = <<>>, t2i # <<>>, rx' = <<Head(t2i)>>, t2i' = Tail(t2i)
    PROVE  /\ Coming' = Coming /\ Head(t2i) \in Answers /\ Tail(t2i) \in Seq(Answers)
           /\ Comes(Head(t2i).cmd, Head(t2i).op)
<1>1. /\ Coming' = t2i /\ Coming = t2i
  BY Wires, OnTheWay DEF Coming
<1>2. Head(t2i) \in Answers /\ Tail(t2i) \in Seq(Answers) /\ Len(t2i) \in Nat \ {0} /\ Head(t2i) = t2i[1]
  BY Wires, TailFacts
<1>3. 1 \in 1..Len(t2i)
  BY <1>2
<1> QED BY <1>1, <1>2, <1>3 DEF Comes

-----------------------------------------------------------------------------
(***************************************************************************)
(* Steps of one side                                                         *)
(***************************************************************************)
LEMMA FieldsKept ==
    ASSUME Fields, par' = par
    PROVE  /\ UNCHANGED <<icmd, txq, ihash, tx>> => IniFields'
           /\ UNCHANGED <<tcmd, lun, placed, lunq, thash>> => TgtFields'
           /\ UNCHANGED <<i2t, wk, t2i, rx>> => WireFields'
<1>1. UNCHANGED <<icmd, txq, ihash, tx>> => IniFields'
  BY SameParameters DEF Fields, IniFields
<1>2. UNCHANGED <<tcmd, lun, placed, lunq, thash>> => TgtFields'
  BY SameParameters DEF Fields, TgtFields
<1>3. UNCHANGED <<i2t, wk, t2i, rx>> => WireFields'
  BY SameParameters DEF Fields, WireFields
<1> QED BY <1>1, <1>2, <1>3

LEMMA WiresKept ==
    ASSUME Fields, par' = par, i2t' \in Seq(Pdus), t2i' \in Seq(Answers),
           wk' = <<>> \/ (\E p \in DataPdus : wk' = <<p>>),
           rx' = <<>> \/ (\E p \in Answers : rx' = <<p>>)
    PROVE  WireFields'
BY SameParameters DEF WireFields, Pdus, Answers

LEMMA LeadsThen ==
    ASSUME NEW c, NEW x, NEW y, x = GotTo(c)', y = SentTo(c)', Leads(Going', c, x, y)
    PROVE  Leads(Going, c, GotTo(c), SentTo(c))'
BY DEF Leads, Link

\* A step of the tx thread, or of a caller, on command c, which may send a PDU
LEMMA IniStep ==
    ASSUME WriteInv, par' = par, UNCHANGED tgtVars, UNCHANGED <<t2i, rx>>, NEW c \in Cmds,
           i2t' = i2t \/ (\E p \in Pdus : p.cmd = c /\ i2t' = Append(i2t, p)),
           \A d \in Cmds \ {c} : SameInitiator(d),
           IniFields', iup' = TRUE, NoRepeat(txq'),
           Initiator(c)', Leads(Going', c, GotTo(c), SentTo(c)'),
           SameAnswers(c) => Asked(c)' /\ Responded(c)'
    PROVE  WriteInv'
<1>1. Fields /\ Queues
  BY DEF WriteInv
<1>2. i2t' \in Seq(Pdus)
  <2>1. i2t \in Seq(Pdus)
    BY <1>1, Wires
  <2>2. \A p \in Pdus : Append(i2t, p) \in Seq(Pdus)
    BY <2>1
  <2> QED BY <2>1, <2>2
<1>3. Fields'
  <2>1. wk' = wk /\ t2i' = t2i /\ rx' = rx
    BY DEF tgtVars
  <2>2. WireFields'
    BY <1>1, <1>2, <2>1, WiresKept, Wires DEF Fields, WireFields
  <2>3. TgtFields'
    BY <1>1, FieldsKept DEF tgtVars
  <2> QED BY <1>1, <2>2, <2>3 DEF Fields, tgtVars
<1>4. Coming' = Coming /\ \A d, op : Comes(d, op)' <=> Comes(d, op)
  BY DEF Coming, Comes
<1>5. \A d : SameAnswers(d) /\ SameTarget(d)
  BY <1>4 DEF SameAnswers, SameTarget, tgtVars
<1>6. Queues'
  BY <1>1, <1>4 DEF Queues, Has, NoRepeat, tgtVars
<1>7. ASSUME NEW d \in Cmds \ {c} PROVE CmdInv(d)'
  <2>1. CmdInv(d)
    BY DEF WriteInv
  <2>2. Leads(Going', d, GotTo(d), SentTo(d))
    <3>1. Leads(Going, d, GotTo(d), SentTo(d)) /\ wk' = wk
      BY <2>1 DEF CmdInv, tgtVars
    <3>2. CASE i2t' = i2t
      BY <3>1, <3>2 DEF Going
    <3>3. CASE \E p \in Pdus : p.cmd = c /\ i2t' = Append(i2t, p)
      BY <3>1, <3>3, <1>1, Sends
    <3> QED BY <3>2, <3>3
  <2> QED BY <1>5, <2>1, <2>2, CmdKept
<1>8. CmdInv(c)'
  <2>1. CmdInv(c)
    BY DEF WriteInv
  <2>2. Target(c)' /\ Prefix(c)' /\ GotTo(c)' = GotTo(c)
    BY <1>5, <2>1, TargetKept DEF CmdInv, Target
  <2>3. Leads(Going, c, GotTo(c), SentTo(c))'
    BY <2>2, LeadsThen
  <2> QED BY <1>5, <2>2, <2>3 DEF CmdInv
<1> QED BY <1>3, <1>6, <1>7, <1>8 DEF WriteInv

\* A step of the target on command c, which may answer it
LEMMA TargetStep ==
    ASSUME WriteInv, par' = par, UNCHANGED iniVars, NEW c \in Cmds,
           i2t' \in Seq(Pdus), wk' = <<>> \/ (\E p \in DataPdus : wk' = <<p>>),
           \A d \in Cmds \ {c} : \A x, y : Leads(Going, d, x, y) => Leads(Going', d, x, y),
           t2i' = t2i
             \/ ((\A op : ~Comes(c, op)) /\ \E p \in Answers : p.cmd = c /\ t2i' = Append(t2i, p)),
           \A d \in Cmds \ {c} : SameTarget(d),
           TgtFields', tup' = TRUE, NoRepeat(lunq'),
           \A d \in Cmds : Has(lunq', d) <=> lun'[d] = "queued",
           Target(c)', Prefix(c)', Leads(Going', c, GotTo(c)', SentTo(c)),
           Asked(c)', Responded(c)'
    PROVE  WriteInv'
<1>1. Fields /\ Queues /\ rx' = rx
  BY DEF WriteInv, iniVars
<1>2. t2i' \in Seq(Answers)
  <2>1. t2i \in Seq(Answers)
    BY <1>1, Wires
  <2>2. \A p \in Answers : Append(t2i, p) \in Seq(Answers)
    BY <2>1
  <2> QED BY <2>1, <2>2
<1>3. Fields'
  <2>1. WireFields'
    BY <1>1, <1>2, WiresKept, Wires
  <2>2. IniFields'
    BY <1>1, FieldsKept DEF iniVars
  <2> QED BY <1>1, <2>1, <2>2 DEF Fields, iniVars
<1>4. /\ \A d \in Cmds \ {c} : \A op : Comes(d, op)' <=> Comes(d, op)
      /\ (\A i, j \in 1..Len(Coming) : Coming[i].cmd = Coming[j].cmd => i = j)'
  <2>1. CASE t2i' = t2i
    BY <1>1, <2>1 DEF Coming, Comes, Queues
  <2>2. CASE (\A op : ~Comes(c, op)) /\ \E p \in Answers : p.cmd = c /\ t2i' = Append(t2i, p)
    <3>1. PICK p \in Answers : p.cmd = c /\ t2i' = Append(t2i, p)
      BY <2>2
    <3> QED BY <1>1, <2>2, <3>1, AnswerSent DEF Queues
  <2> QED BY <2>1, <2>2
<1>5. \A d : SameInitiator(d)
  BY DEF SameInitiator, iniVars, Has, TxAt
<1>6. Queues'
  BY <1>1, <1>4 DEF Queues, Has, NoRepeat, iniVars
<1>7. ASSUME NEW d \in Cmds \ {c} PROVE CmdInv(d)'
  <2>1. CmdInv(d) /\ Leads(Going, d, GotTo(d), SentTo(d))
    BY DEF WriteInv, CmdInv
  <2>2. SameAnswers(d)
    BY <1>4 DEF SameAnswers
  <2> QED BY <1>5, <2>1, <2>2, CmdKept
<1>8. CmdInv(c)'
  <2>1. CmdInv(c)
    BY DEF WriteInv
  <2>2. Initiator(c)' /\ SentTo(c)' = SentTo(c)
    BY <1>5, <2>1, InitiatorKept DEF CmdInv, Initiator
  <2>3. Leads(Going, c, GotTo(c), SentTo(c))'
    BY <2>2, LeadsThen
  <2> QED BY <2>2, <2>3 DEF CmdInv
<1> QED BY <1>3, <1>6, <1>7, <1>8 DEF WriteInv

-----------------------------------------------------------------------------
(***************************************************************************)
(* The initiator's threads                                                   *)
(***************************************************************************)
LEMMA Command ==
    ASSUME WriteInv, NEW c \in Cmds
    PROVE  /\ Fields /\ Queues /\ par \in Params
           /\ Initiator(c) /\ Target(c) /\ Prefix(c)
           /\ Leads(Going, c, GotTo(c), SentTo(c)) /\ Asked(c) /\ Responded(c)
           /\ GotTo(c) \in Int /\ SentTo(c) \in Int /\ GotTo(c) <= SentTo(c)
           /\ icmd[c].sent \in Nat /\ icmd[c].off \in 0..TransLen /\ icmd[c].len \in 0..TransLen
           /\ icmd[c].txDone \in BOOLEAN
           /\ tcmd[c].bytes \in 0..TransLen /\ tcmd[c].r2tFlag \in BOOLEAN
<1>1. Fields /\ Queues /\ par \in Params /\ CmdInv(c)
  BY DEF WriteInv, Fields
<1>2. Going \in Seq(Pdus)
  BY <1>1, Wires
<1>3. Leads(Going, c, GotTo(c), SentTo(c))
  BY <1>1 DEF CmdInv
<1>4. GotTo(c) \in Int /\ SentTo(c) \in Int /\ GotTo(c) <= SentTo(c)
  BY <1>2, <1>3, LeadsOn
<1>5. /\ icmd[c].sent \in Nat /\ icmd[c].off \in 0..TransLen /\ icmd[c].len \in 0..TransLen
      /\ icmd[c].txDone \in BOOLEAN
  BY <1>1 DEF Fields, IniFields
<1>6. tcmd[c].bytes \in 0..TransLen /\ tcmd[c].r2tFlag \in BOOLEAN
  BY <1>1 DEF Fields, TgtFields
<1> QED BY <1>1, <1>4, <1>5, <1>6 DEF CmdInv

LEMMA EnqueueStep ==
    ASSUME WriteInv, NEW c \in Cmds, initiator_enqueue(c)
    PROVE  WriteInv'
<1>1. /\ par' = par /\ UNCHANGED tgtVars /\ UNCHANGED <<t2i, rx>> /\ i2t' = i2t
      /\ icmd[c].status = "none" /\ icmd' = [icmd EXCEPT ![c].status = "pending"]
      /\ txq' = Append(txq, c) /\ tx' = tx /\ ihash' = ihash /\ iup' = iup
  BY DEF initiator_enqueue, chanVars
<1>2. Fields /\ Queues /\ IniFields
  BY DEF WriteInv, Fields
<1>3. NotYet(c)
  BY Command, <1>1 DEF Initiator, NotYet, ToSend, Bursting, Answering, AllSent, Good
<1>4. /\ txq' \in Seq(Cmds) /\ NoRepeat(txq')
      /\ \A x : Has(txq', x) <=> Has(txq, x) \/ x = c
  BY <1>1, <1>2, <1>3, HasAppend DEF IniFields, Queues, NotYet, Away
<1>5. /\ icmd'[c].status = "pending" /\ icmd'[c].sent = icmd[c].sent
      /\ icmd'[c].r2treq = icmd[c].r2treq
      /\ \A d \in Cmds \ {c} : icmd'[d] = icmd[d]
  BY <1>1, <1>2 DEF IniFields
<1>6. IniFields'
  <2>1. icmd' \in [Cmds -> [sent : Nat, r2treq : 0..1, off : 0..TransLen, len : 0..TransLen,
                            txDone : BOOLEAN, status : {"none", "pending", "good"}]]
    BY <1>1, <1>2 DEF IniFields
  <2> QED BY <2>1, <1>1, <1>2, <1>4, SameParameters DEF IniFields
<1>7. \A d \in Cmds \ {c} : SameInitiator(d)
  BY <1>1, <1>4, <1>5 DEF SameInitiator, TxAt
<1>8. ToSend(c)'
  BY <1>1, <1>3, <1>4, <1>5 DEF NotYet, ToSend, Away, TxAt, Has
<1>9. Leads(Going', c, GotTo(c), SentTo(c)')
  <2>1. SentTo(c)' = SentTo(c)
    BY <1>3, <1>8 DEF SentTo
  <2>2. Going' = Going
    BY <1>1 DEF Going, tgtVars
  <2> QED BY <2>1, <2>2, Command
<1>10. SameAnswers(c) => Asked(c)' /\ Responded(c)'
  <2> SUFFICES ASSUME SameAnswers(c) PROVE Asked(c)' /\ Responded(c)'
    OBVIOUS
  <2>1. SameTarget(c)
    BY <1>1 DEF SameTarget, tgtVars
  <2>2. (Complete(c)' <=> Complete(c)) /\ thash' = thash /\ tcmd' = tcmd
    BY <1>1, <2>1, TargetKept DEF tgtVars
  <2>3. Asked(c) /\ Responded(c) /\ GotTo(c) <= -1
    BY Command, <1>3 DEF SentTo
  <2>4. Asked(c)'
    BY <1>1, <1>5, <2>2, <2>3, SameParameters DEF Asked, SameAnswers
  <2>5. ~Complete(c)
    BY <2>3, Command, Amounts DEF Complete, GotTo
  <2> QED BY <1>5, <2>2, <2>3, <2>4, <2>5 DEF Responded, SameAnswers
<1> QED BY <1>1, <1>2, <1>4, <1>6, <1>7, <1>8, <1>9, <1>10, IniStep DEF Initiator, Fields

LEMMA TakeStep ==
    ASSUME WriteInv, NEW c \in Cmds, c = Head(txq), TxTake
    PROVE  WriteInv'
<1>1. Fields /\ Queues /\ IniFields /\ txq \in Seq(Cmds) /\ NoRepeat(txq)
  BY DEF WriteInv, Fields, IniFields, Queues
<1>2. /\ tx = <<>> /\ txq # <<>> /\ txq' = Tail(txq) /\ ihash' = ihash \cup {c}
      /\ icmd' = [icmd EXCEPT ![c].txDone = FALSE]
      /\ IF icmd[c].r2treq > 0
         THEN tx' = Job(c, "r2t", 0) /\ iup' = (icmd[c].len # 0)
         ELSE tx' = Job(c, "command", 0) /\ iup' = (icmd[c].sent = 0)
      /\ par' = par /\ i2t' = i2t /\ t2i' = t2i /\ rx' = rx /\ UNCHANGED tgtVars
  BY DEF TxTake, chanVars
<1>3. /\ c \in Cmds /\ txq' \in Seq(Cmds) /\ NoRepeat(txq')
      /\ Has(txq, c) /\ ~Has(txq', c) /\ \A d : d # c => (Has(txq', d) <=> Has(txq, d))
  BY <1>1, <1>2, HasTail, TailFacts
<1>4. ~TxAt(c) /\ \A d : ~TxAt(d)
  BY <1>2 DEF TxAt
<1>5. ToSend(c) \/ Answering(c)
  BY <1>3, Command DEF Initiator, NotYet, Bursting, AllSent, Good, Away
<1>6. /\ icmd'[c].txDone = FALSE /\ icmd'[c].sent = icmd[c].sent /\ icmd'[c].r2treq = icmd[c].r2treq
      /\ icmd'[c].status = icmd[c].status /\ icmd'[c].off = icmd[c].off /\ icmd'[c].len = icmd[c].len
      /\ \A d \in Cmds \ {c} : icmd'[d] = icmd[d]
  BY <1>1, <1>2, <1>3 DEF IniFields
<1>7. /\ \E mode \in Modes : tx' = Job(c, mode, 0)
      /\ tx' # <<>> /\ tx'[1].cmd = c /\ tx'[1].bytes = 0
      /\ \A d : d # c => ~TxAt(d)'
  BY <1>2 DEF Job, Modes, TxAt
<1>8. IniFields'
  <2>1. icmd' \in [Cmds -> [sent : Nat, r2treq : 0..1, off : 0..TransLen, len : 0..TransLen,
                            txDone : BOOLEAN, status : {"none", "pending", "good"}]]
    BY <1>1, <1>2, <1>3 DEF IniFields
  <2>2. \E j \in [cmd : Cmds, mode : Modes, bytes : Nat] : tx' = <<j>>
    BY <1>3, <1>7 DEF Job
  <2>3. ihash' \subseteq Cmds
    BY <1>1, <1>2, <1>3 DEF IniFields
  <2> QED BY <2>1, <2>2, <2>3, <1>2, <1>3, SameParameters DEF IniFields
<1>9. \A d \in Cmds \ {c} : SameInitiator(d)
  BY <1>2, <1>3, <1>4, <1>6, <1>7 DEF SameInitiator
<1>10. /\ ToSend(c) => ToSend(c)' /\ iup' = TRUE
       /\ Answering(c) => Answering(c)' /\ iup' = TRUE
  <2>1. Has(txq, c)' <=> Has(txq', c)
    BY DEF Has
  <2>2. ASSUME ToSend(c) PROVE ToSend(c)' /\ iup' = TRUE
    <3>3. ~(icmd[c].r2treq > 0) /\ icmd[c].sent = 0
      BY <2>2 DEF ToSend
    <3>4. tx' = Job(c, "command", 0) /\ iup' = (icmd[c].sent = 0)
      BY <3>3, <1>2
    <3>1. tx' = Job(c, "command", 0) /\ iup' = TRUE
      BY <3>3, <3>4
    <3>2. TxIn(c, "command")'
      BY <3>1 DEF TxIn, TxAt, Job
    <3> QED BY <1>2, <1>3, <1>6, <2>1, <2>2, <3>1, <3>2 DEF ToSend
  <2>3. ASSUME Answering(c) PROVE Answering(c)' /\ iup' = TRUE
    <3>1. Burst < TransLen /\ icmd[c].len = TransLen - Burst /\ icmd[c].r2treq = 1 /\ icmd[c].sent = Burst
      BY <1>3, <1>4, <2>3 DEF Answering, TxIn
    <3>2. TransLen \in Nat /\ Burst \in Nat
      BY Amounts, <1>1 DEF Fields
    <3>5. icmd[c].r2treq > 0 /\ icmd[c].len # 0
      BY <3>1, <3>2
    <3>6. tx' = Job(c, "r2t", 0) /\ iup' = (icmd[c].len # 0)
      BY <3>5, <1>2
    <3>3. tx' = Job(c, "r2t", 0) /\ iup' = TRUE
      BY <3>5, <3>6
    <3>4. TxIn(c, "r2t")'
      BY <3>3 DEF TxIn, TxAt, Job
    <3> QED BY <1>2, <1>3, <1>6, <1>7, <2>1, <2>3, <3>1, <3>2, <3>3, <3>4, SameParameters DEF Answering
  <2> QED BY <2>2, <2>3
<1>11. SentTo(c)' = SentTo(c)
  <2>1. CASE ToSend(c)
    BY <2>1, <1>10 DEF SentTo
  <2>2. CASE Answering(c)
    <3>1. ~NotYet(c) /\ ~ToSend(c) /\ ~NotYet(c)' /\ ~ToSend(c)'
      BY <2>2, <1>10 DEF Answering, NotYet, ToSend
    <3> QED BY <3>1, <1>6 DEF SentTo
  <2> QED BY <1>5, <2>1, <2>2
<1>12. Leads(Going', c, GotTo(c), SentTo(c)')
  <2>1. Going' = Going
    BY <1>2 DEF Going, tgtVars
  <2> QED BY <1>3, <1>11, <2>1, Command
<1>13. SameAnswers(c) => Asked(c)' /\ Responded(c)'
  <2> SUFFICES ASSUME SameAnswers(c) PROVE Asked(c)' /\ Responded(c)'
    OBVIOUS
  <2>1. SameTarget(c)
    BY <1>2 DEF SameTarget, tgtVars
  <2>2. (Complete(c)' <=> Complete(c)) /\ thash' = thash /\ tcmd' = tcmd
    BY <1>2, <2>1, TargetKept DEF tgtVars
  <2>3. Asked(c) /\ Responded(c)
    BY Command, <1>3
  <2>4. Asked(c)'
    BY <1>2, <1>6, <2>2, <2>3, SameParameters DEF Asked, SameAnswers
  <2> QED BY <1>6, <2>2, <2>3, <2>4 DEF Responded, SameAnswers
<1> QED BY <1>2, <1>3, <1>5, <1>8, <1>9, <1>10, <1>12, <1>13, IniStep DEF Initiator

\* Nothing of a command is received before it is sent.
LEMMA Unsent ==
    ASSUME WriteInv, NEW c \in Cmds, NotYet(c) \/ ToSend(c)
    PROVE  GotTo(c) = -1 /\ SentTo(c) = -1 /\ Fresh(c) /\ ~Complete(c) /\ ~tcmd[c].r2tFlag
<1>1. /\ TransLen \in Nat \ {0} /\ ImmediateLength \in Nat
      /\ tcmd[c].bytes \in Nat /\ GotTo(c) <= SentTo(c) /\ Target(c)
  BY Command, Amounts
<1>2. SentTo(c) = -1
  BY DEF SentTo
<1>3. tcmd[c].bytes = 0 /\ c \notin thash /\ GotTo(c) = -1
  BY <1>1, <1>2 DEF GotTo
<1> QED BY <1>1, <1>2, <1>3 DEF Target, Fresh, Accepted, Refused, Due, Receiving, Complete

\* The target asks for more only when there is more than the burst.
LEMMA AskedMore ==
    ASSUME WriteInv, NEW c \in Cmds, tcmd[c].r2tFlag
    PROVE  Burst < TransLen
<1>1. TransLen \in Nat \ {0} /\ Burst \in Nat /\ tcmd[c].bytes \in Nat /\ Target(c)
  BY Command, Amounts
<1> QED BY <1>1 DEF Target, Fresh, Accepted, Refused, Due, Receiving, Complete

\* The tx thread sends a PDU of command c, or is done with it.
LEMMA TxStep ==
    ASSUME WriteInv, NEW c \in Cmds, tx # <<>>, tx[1].cmd = c,
           par' = par, UNCHANGED tgtVars, UNCHANGED <<t2i, rx, txq, ihash, iup>>,
           i2t' = i2t \/ (\E p \in Pdus : p.cmd = c /\ i2t' = Append(i2t, p)),
           NEW n, n \in [sent : Nat, r2treq : 0..1, off : 0..TransLen, len : 0..TransLen,
                         txDone : BOOLEAN, status : {"none", "pending", "good"}],
           icmd' = [icmd EXCEPT ![c] = n], n.status = icmd[c].status,
           tx' = <<>> \/ (\E mode \in Modes, bytes \in Nat : tx' = Job(c, mode, bytes)),
           Initiator(c)', Leads(Going', c, GotTo(c), SentTo(c)'),
           Asked(c) /\ SameAnswers(c) /\ par' = par /\ tcmd' = tcmd => Asked(c)'
    PROVE  WriteInv'
<1>1. Fields /\ Queues /\ IniFields
  BY DEF WriteInv, Fields
<1>2. icmd'[c] = n /\ \A d \in Cmds \ {c} : icmd'[d] = icmd[d]
  BY <1>1 DEF IniFields
<1>3. IniFields'
  <2>1. icmd' \in [Cmds -> [sent : Nat, r2treq : 0..1, off : 0..TransLen, len : 0..TransLen,
                            txDone : BOOLEAN, status : {"none", "pending", "good"}]]
    BY <1>1 DEF IniFields
  <2>2. tx' = <<>> \/ \E j \in [cmd : Cmds, mode : Modes, bytes : Nat] : tx' = <<j>>
    BY DEF Job
  <2> QED BY <2>1, <2>2, <1>1, SameParameters DEF IniFields
<1>4. \A d \in Cmds \ {c} : SameInitiator(d)
  <2>1. \A d : d # c => ~TxAt(d) /\ ~TxAt(d)'
    BY DEF TxAt, Job
  <2> QED BY <1>2, <2>1 DEF SameInitiator
<1>5. NoRepeat(txq')
  BY <1>1 DEF Queues
<1>6. SameAnswers(c) => Asked(c)' /\ Responded(c)'
  <2> SUFFICES ASSUME SameAnswers(c) PROVE Asked(c)' /\ Responded(c)'
    OBVIOUS
  <2>1. SameTarget(c)
    BY DEF SameTarget, tgtVars
  <2>2. (Complete(c)' <=> Complete(c)) /\ thash' = thash /\ tcmd' = tcmd
    BY <2>1, TargetKept DEF tgtVars
  <2>3. Asked(c) /\ Responded(c)
    BY Command
  <2> QED BY <1>2, <2>2, <2>3 DEF Responded, SameAnswers
<1> QED BY <1>1, <1>3, <1>4, <1>5, <1>6, IniStep DEF Fields

LEMMA SendCommandStep ==
    ASSUME WriteInv, NEW c \in Cmds, tx # <<>>, tx[1].cmd = c, TxCommand
    PROVE  WriteInv'
<1> DEFINE mode == IF MoreUnsolicited(ImmediateLength) THEN "unsolicited" ELSE "sent"
           n == [icmd[c] EXCEPT !.sent = ImmediateLength]
           p == CmdPdu(c, ImmediateLength)
<1>1. /\ tx[1].mode = "command" /\ i2t' = Append(i2t, p) /\ icmd' = [icmd EXCEPT ![c] = n]
      /\ tx' = Job(c, mode, 0)
      /\ par' = par /\ UNCHANGED tgtVars /\ UNCHANGED <<t2i, rx, txq, ihash, iup>>
  BY DEF TxCommand
<1>2. /\ ImmediateLength \in Nat /\ Burst \in Nat /\ ImmediateLength <= Burst /\ Burst <= TransLen
      /\ TransLen \in Nat /\ (MoreUnsolicited(ImmediateLength) <=> ImmediateLength < Burst)
  BY Command, Amounts, Unsolicited
<1>3. ToSend(c) /\ ~Has(txq, c) /\ c \in ihash /\ ~icmd[c].txDone
  BY Command, <1>1 DEF Initiator, NotYet, ToSend, Bursting, Answering, AllSent, Good, Away, TxIn, TxAt
<1>4. Fields /\ IniFields
  BY Command DEF Fields
<1>5. /\ n \in [sent : Nat, r2treq : 0..1, off : 0..TransLen, len : 0..TransLen,
                txDone : BOOLEAN, status : {"none", "pending", "good"}]
      /\ n.sent = ImmediateLength /\ n.status = "pending" /\ n.r2treq = 0 /\ ~n.txDone
      /\ n.status = icmd[c].status
  BY <1>2, <1>3, <1>4 DEF IniFields, ToSend
<1>6. p \in Pdus /\ p.cmd = c /\ Link(p, c, -1, ImmediateLength)
  BY DEF Pdus, CmdPdus, CmdPdu, Link
<1>7. icmd'[c] = n
  BY <1>1, <1>4 DEF IniFields
<1>8. mode \in Modes /\ tx' # <<>> /\ tx'[1].cmd = c /\ tx'[1].mode = mode
  BY <1>1 DEF Modes, Job
<1> HIDE DEF n, p
<1>9. Bursting(c)'
  <2>1. ImmediateLength' = ImmediateLength /\ Burst' = Burst
    BY <1>1, SameParameters
  <2>2. \A m : TxIn(c, m)' <=> m = mode
    BY <1>8 DEF TxIn, TxAt
  <2>3. ~Has(txq, c)' /\ (c \in ihash)'
    BY <1>1, <1>3 DEF Has
  <2> QED BY <2>1, <2>2, <2>3, <1>2, <1>5, <1>7 DEF Bursting
<1>10. SentTo(c) = -1 /\ GotTo(c) = -1 /\ ~tcmd[c].r2tFlag
  BY <1>3, Unsent
<1>11. SentTo(c)' = ImmediateLength
  <2>1. ~NotYet(c)' /\ ~ToSend(c)'
    BY <1>5, <1>7, <1>8 DEF NotYet, ToSend, TxIn, TxAt
  <2> QED BY <2>1, <1>5, <1>7 DEF SentTo
<1>12. Leads(Going', c, GotTo(c), SentTo(c)')
  <2>1. Leads(Going, c, -1, -1) /\ wk' = wk
    BY <1>1, <1>10, Command DEF tgtVars
  <2>2. Leads(Going', c, -1, ImmediateLength)
    BY <1>1, <1>2, <1>4, <1>6, <2>1, Sends
  <2> QED BY <2>2, <1>10, <1>11
<1>13. Asked(c) /\ SameAnswers(c) /\ par' = par /\ tcmd' = tcmd => Asked(c)'
  BY <1>2, <1>5, <1>7, <1>10, SameParameters DEF Asked, SameAnswers
<1>14. \E m \in Modes, bytes \in Nat : tx' = Job(c, m, bytes)
  BY <1>1, <1>8
<1>15. Initiator(c)'
  BY <1>9 DEF Initiator
<1> HIDE DEF mode
<1> QED BY <1>1, <1>5, <1>6, <1>12, <1>13, <1>14, <1>15, TxStep

LEMMA UnsolicitedStep ==
    ASSUME WriteInv, NEW c \in Cmds, tx # <<>>, tx[1].cmd = c, TxUnsolicited
    PROVE  WriteInv'
<1> DEFINE sent == icmd[c].sent
           len == UnsolicitedLength(sent)
           final == sent + len = TransLen \/ sent + len >= par.first
           mode == IF MoreUnsolicited(sent + len) THEN "unsolicited" ELSE "sent"
           n == [icmd[c] EXCEPT !.sent = sent + len]
           p == DataPdu(c, sent, len, final)
<1>1. /\ tx[1].mode = "unsolicited" /\ i2t' = Append(i2t, p) /\ icmd' = [icmd EXCEPT ![c] = n]
      /\ tx' = Job(c, mode, 0)
      /\ par' = par /\ UNCHANGED tgtVars /\ UNCHANGED <<t2i, rx, txq, ihash, iup>>
  BY DEF TxUnsolicited
<1>2. /\ ImmediateLength \in Nat /\ Burst \in Nat /\ ImmediateLength <= Burst /\ Burst <= TransLen
      /\ TransLen \in Nat /\ par \in Params
  BY Command, Amounts
<1>3. /\ Bursting(c) /\ ~Has(txq, c) /\ c \in ihash /\ ~icmd[c].txDone
      /\ ImmediateLength <= sent /\ sent < Burst /\ sent \in Nat
  BY Command, <1>1 DEF Initiator, NotYet, ToSend, Bursting, Answering, AllSent, Good, Away, TxIn, TxAt
<1>4. Fields /\ IniFields
  BY Command DEF Fields
<1>5. /\ len \in Nat \ {0} /\ sent + len <= Burst /\ (par.seg = 0 \/ len <= par.seg)
      /\ sent + len \in Nat /\ ImmediateLength <= sent + len
      /\ (MoreUnsolicited(sent + len) <=> sent + len < Burst)
  <2>1. len \in Nat \ {0} /\ sent + len <= Burst /\ (par.seg = 0 \/ len <= par.seg)
    BY <1>2, <1>3, Unsolicited
  <2>2. sent + len \in Nat /\ ImmediateLength <= sent + len
    BY <1>2, <1>3, <2>1
  <2> QED BY <1>2, <2>1, <2>2, Unsolicited
<1>6. p \in Pdus /\ p.cmd = c /\ Link(p, c, sent, sent + len)
  <2>1. sent + len <= TransLen /\ final \in BOOLEAN
    BY <1>2, <1>3, <1>5
  <2>2. sent + len = TransLen => final
    OBVIOUS
  <2> HIDE DEF final, len, sent
  <2>3. p \in DataPdus /\ p.cmd = c /\ p.op = "data" /\ p.off = sent /\ p.len = len
    BY <1>3, <1>5, <2>1, <2>2 DEF DataPdus, DataPdu
  <2> QED BY <2>3 DEF Pdus, Link
<1> HIDE DEF len
<1>7. /\ n \in [sent : Nat, r2treq : 0..1, off : 0..TransLen, len : 0..TransLen,
                txDone : BOOLEAN, status : {"none", "pending", "good"}]
      /\ n.sent = sent + len /\ n.status = "pending" /\ n.r2treq = 0 /\ ~n.txDone
      /\ n.status = icmd[c].status
  BY <1>3, <1>4, <1>5 DEF IniFields, Bursting
<1>8. icmd'[c] = n
  BY <1>1, <1>4 DEF IniFields
<1>9. mode \in Modes /\ tx' # <<>> /\ tx'[1].cmd = c /\ tx'[1].mode = mode
  BY <1>1 DEF Modes, Job
<1> HIDE DEF n, p
<1>10. Bursting(c)'
  <2>1. ImmediateLength' = ImmediateLength /\ Burst' = Burst
    BY <1>1, SameParameters
  <2>2. \A m : TxIn(c, m)' <=> m = mode
    BY <1>9 DEF TxIn, TxAt
  <2>3. ~Has(txq, c)' /\ (c \in ihash)'
    BY <1>1, <1>3 DEF Has
  <2> QED BY <2>1, <2>2, <2>3, <1>2, <1>5, <1>7, <1>8 DEF Bursting
<1>11. SentTo(c) = sent /\ SentTo(c)' = sent + len
  <2>1. ~NotYet(c) /\ ~ToSend(c)
    BY <1>1 DEF NotYet, ToSend, TxIn, TxAt, Away
  <2>2. ~NotYet(c)' /\ ~ToSend(c)'
    BY <1>7, <1>8, <1>9 DEF NotYet, ToSend, TxIn, TxAt
  <2> QED BY <2>1, <2>2, <1>7, <1>8 DEF SentTo
<1>12. Leads(Going', c, GotTo(c), SentTo(c)')
  <2>1. Leads(Going, c, GotTo(c), sent) /\ wk' = wk /\ sent + len \in Int /\ sent <= sent + len
    BY <1>1, <1>3, <1>5, <1>11, Command DEF tgtVars
  <2>2. Leads(Going', c, GotTo(c), sent + len)
    BY <1>1, <1>4, <1>6, <2>1, Sends
  <2> QED BY <2>2, <1>11
<1>13. Asked(c) /\ SameAnswers(c) /\ par' = par /\ tcmd' = tcmd => Asked(c)'
  <2>1. tcmd[c].r2tFlag => Burst < TransLen
    BY AskedMore
  <2>2. icmd[c].r2treq = 0 /\ sent < TransLen /\ (Burst < TransLen => sent + len < TransLen)
    BY <1>2, <1>3, <1>5 DEF Bursting
  <2> QED BY <2>1, <2>2, <1>5, <1>7, <1>8, SameParameters DEF Asked, SameAnswers
<1>14. \E m \in Modes, bytes \in Nat : tx' = Job(c, m, bytes)
  BY <1>1, <1>9
<1>15. Initiator(c)'
  BY <1>10 DEF Initiator
<1> HIDE DEF mode
<1> QED BY <1>1, <1>6, <1>7, <1>12, <1>13, <1>14, <1>15, TxStep

\* The amount sent for the R2T and the amount sent for the command end together.
LEMMA SameEnd ==
    ASSUME NEW sent \in Nat, NEW bytes \in Nat, NEW len \in Nat, NEW total \in Nat, NEW burst \in Nat,
           NEW asked, sent = burst + bytes, asked = total - burst
    PROVE  /\ bytes + len < asked <=> sent + len < total
           /\ bytes + len = asked <=> sent + len = total
OBVIOUS

LEMMA AnswerStep ==
    ASSUME WriteInv, NEW c \in Cmds, tx # <<>>, tx[1].cmd = c, TxR2TData
    PROVE  WriteInv'
<1> DEFINE sent == icmd[c].sent
           bytes == tx[1].bytes
           left == icmd[c].len - bytes
           len == Limited(par.seg, left)
           final == bytes + len = icmd[c].len
           mode == IF bytes + len < icmd[c].len THEN "r2t" ELSE "answered"
           n == [icmd[c] EXCEPT !.sent = sent + len]
           p == DataPdu(c, sent, len, final)
<1>1. /\ tx[1].mode = "r2t"
      /\ par' = par /\ UNCHANGED tgtVars /\ UNCHANGED <<t2i, rx, txq, ihash>>
  BY DEF TxR2TData
<1>2. /\ Burst \in Nat /\ TransLen \in Nat /\ par.seg \in Nat /\ Fields /\ IniFields
  BY Command, Amounts DEF Fields
<1>3. /\ Answering(c) /\ ~Has(txq, c) /\ c \in ihash /\ ~icmd[c].txDone /\ bytes >= 0
      /\ sent = Burst + bytes /\ sent < TransLen /\ sent \in Nat /\ Burst < TransLen
      /\ icmd[c].off = Burst /\ icmd[c].len = TransLen - Burst /\ icmd[c].r2treq = 1
      /\ icmd[c].status = "pending"
  BY Command, <1>1 DEF Initiator, NotYet, ToSend, Bursting, Answering, AllSent, Good, Away, TxIn, TxAt
<1>4. bytes \in Nat
  BY <1>2 DEF IniFields
<1>5. /\ len \in Nat \ {0} /\ sent + len <= TransLen /\ (par.seg = 0 \/ len <= par.seg)
      /\ sent + len \in Nat /\ ~(bytes > icmd[c].len) /\ bytes + len \in Nat
      /\ (bytes + len < icmd[c].len <=> sent + len < TransLen)
      /\ (final <=> sent + len = TransLen)
  <2>1. left \in Nat \ {0} /\ left = TransLen - sent /\ icmd[c].len = bytes + left
    <3>1. /\ Burst \in Nat /\ TransLen \in Nat /\ sent = Burst + bytes /\ sent < TransLen
          /\ left = icmd[c].len - bytes /\ icmd[c].len = TransLen - Burst
      BY <1>2, <1>3
    <3> HIDE DEF sent, bytes, left
    <3> QED BY <3>1, <1>4
  <2> HIDE DEF left
  <2>2. len \in Nat \ {0} /\ len <= left /\ (par.seg = 0 \/ len <= par.seg)
    BY <1>2, <2>1 DEF Limited, Min2
  <2> HIDE DEF len
  <2>3. sent = Burst + bytes /\ icmd[c].len = TransLen - Burst /\ sent \in Nat
    BY <1>3
  <2>4. /\ sent + len <= TransLen /\ sent + len \in Nat /\ ~(bytes > icmd[c].len)
        /\ bytes + len \in Nat
    <3>1. len <= left /\ left = TransLen - sent /\ len \in Nat /\ left \in Nat
      BY <2>1, <2>2
    <3> HIDE DEF sent
    <3>2. sent + len <= TransLen /\ sent + len \in Nat
      BY <1>2, <2>3, <3>1
    <3>3. icmd[c].len = bytes + left
      BY <2>1
    <3>4. ~(bytes > icmd[c].len) /\ bytes + len \in Nat
      BY <1>4, <3>1, <3>3
    <3> QED BY <3>2, <3>4
  <2> HIDE DEF sent, bytes
  <2>5. /\ bytes + len < icmd[c].len <=> sent + len < TransLen
        /\ bytes + len = icmd[c].len <=> sent + len = TransLen
    BY <1>2, <1>4, <2>2, <2>3, SameEnd
  <2> QED BY <2>2, <2>4, <2>5
<1>6. /\ i2t' = Append(i2t, p) /\ icmd' = [icmd EXCEPT ![c] = n]
      /\ tx' = Job(c, mode, bytes + len) /\ iup' = iup
  <2>1. R2TDataOffset(c, bytes) = sent
    BY <1>2, <1>3, <1>4 DEF R2TDataOffset
  <2>2. /\ i2t' = Append(i2t, p) /\ icmd' = [icmd EXCEPT ![c].sent = @ + len]
        /\ tx' = Job(c, mode, bytes + len) /\ UNCHANGED iup
    BY <1>3, <1>5, <2>1 DEF TxR2TData
  <2> QED BY <2>2
<1>7. p \in Pdus /\ p.cmd = c /\ Link(p, c, sent, sent + len)
  <2>1. final \in BOOLEAN /\ (sent + len = TransLen => final)
    BY <1>5
  <2> HIDE DEF final, len, sent
  <2>2. p \in DataPdus /\ p.cmd = c /\ p.op = "data" /\ p.off = sent /\ p.len = len
    BY <1>3, <1>5, <2>1 DEF DataPdus, DataPdu
  <2> QED BY <2>2 DEF Pdus, Link
<1> HIDE DEF len
<1>8. /\ n \in [sent : Nat, r2treq : 0..1, off : 0..TransLen, len : 0..TransLen,
                txDone : BOOLEAN, status : {"none", "pending", "good"}]
      /\ n.sent = sent + len /\ n.status = "pending" /\ n.r2treq = 1 /\ ~n.txDone
      /\ n.off = Burst /\ n.len = TransLen - Burst
      /\ n.status = icmd[c].status
  BY <1>2, <1>3, <1>5 DEF IniFields
<1>9. icmd'[c] = n
  BY <1>2, <1>6 DEF IniFields
<1>10. mode \in Modes /\ tx' # <<>> /\ tx'[1].cmd = c /\ tx'[1].mode = mode /\ tx'[1].bytes = bytes + len
  BY <1>6 DEF Modes, Job
<1> HIDE DEF n, p
<1>11. Answering(c)'
  <2>1. TransLen' = TransLen /\ Burst' = Burst
    BY <1>1, SameParameters
  <2>2. \A m : TxIn(c, m)' <=> m = mode
    BY <1>10 DEF TxIn, TxAt
  <2>3. ~Has(txq, c)' /\ (c \in ihash)'
    BY <1>1, <1>3 DEF Has
  <2>4. /\ tx'[1].bytes >= 0 /\ icmd'[c].sent = Burst + tx'[1].bytes
        /\ mode = "r2t" => icmd'[c].sent < TransLen
        /\ mode # "r2t" => mode = "answered" /\ icmd'[c].sent = TransLen
    <3>1. tx'[1].bytes = bytes + len /\ icmd'[c].sent = sent + len
      BY <1>8, <1>9, <1>10
    <3>2. sent + len = Burst + (bytes + len) /\ bytes + len >= 0
      BY <1>2, <1>3, <1>4, <1>5
    <3>3. /\ mode = "r2t" => sent + len < TransLen
          /\ mode # "r2t" => mode = "answered" /\ sent + len = TransLen
      BY <1>2, <1>5
    <3> QED BY <3>1, <3>2, <3>3
  <2> QED BY <2>1, <2>2, <2>3, <2>4, <1>3, <1>8, <1>9 DEF Answering
<1>12. SentTo(c) = sent /\ SentTo(c)' = sent + len
  <2>1. ~NotYet(c) /\ ~ToSend(c)
    BY <1>3 DEF NotYet, ToSend
  <2>2. ~NotYet(c)' /\ ~ToSend(c)'
    BY <1>8, <1>9 DEF NotYet, ToSend
  <2> QED BY <2>1, <2>2, <1>8, <1>9 DEF SentTo
<1>13. Leads(Going', c, GotTo(c), SentTo(c)')
  <2>1. Leads(Going, c, GotTo(c), sent) /\ wk' = wk /\ sent + len \in Int /\ sent <= sent + len
    BY <1>1, <1>3, <1>5, <1>12, Command DEF tgtVars
  <2>2. Leads(Going', c, GotTo(c), sent + len)
    BY <1>2, <1>6, <1>7, <2>1, Sends
  <2> QED BY <2>2, <1>12
<1>14. Asked(c) /\ SameAnswers(c) /\ par' = par /\ tcmd' = tcmd => Asked(c)'
  BY <1>3, <1>8, <1>9, SameParameters DEF Asked, SameAnswers
<1>15. \E m \in Modes, b \in Nat : tx' = Job(c, m, b)
  BY <1>5, <1>6, <1>10
<1>16. Initiator(c)'
  BY <1>11 DEF Initiator
<1> HIDE DEF mode
<1> QED BY <1>1, <1>6, <1>7, <1>8, <1>13, <1>14, <1>15, <1>16, TxStep

LEMMA DoneStep ==
    ASSUME WriteInv, NEW c \in Cmds, tx # <<>>, tx[1].cmd = c, TxDone
    PROVE  WriteInv'
<1> DEFINE n == [icmd[c] EXCEPT !.txDone = TRUE, !.r2treq = 0]
<1>1. /\ tx[1].mode \in {"sent", "answered"} /\ tx' = <<>> /\ i2t' = i2t
      /\ icmd' = [icmd EXCEPT ![c].txDone = TRUE,
                              ![c].r2treq = IF tx[1].mode = "answered" THEN @ - 1 ELSE @]
      /\ par' = par /\ UNCHANGED tgtVars /\ UNCHANGED <<t2i, rx, txq, ihash, iup>>
  BY DEF TxDone, chanVars
<1>2. /\ Burst \in Nat /\ TransLen \in Nat /\ Fields /\ IniFields
  BY Command, Amounts DEF Fields
<1>3. /\ ~Has(txq, c) /\ c \in ihash /\ icmd[c].status = "pending"
      /\ tx[1].mode = "sent" => Bursting(c) /\ icmd[c].sent = Burst /\ icmd[c].r2treq = 0
      /\ tx[1].mode = "answered" => Answering(c) /\ icmd[c].sent = TransLen /\ icmd[c].r2treq = 1
  BY Command, <1>1 DEF Initiator, NotYet, ToSend, Bursting, Answering, AllSent, Good, Away, TxIn, TxAt
<1>4. /\ n \in [sent : Nat, r2treq : 0..1, off : 0..TransLen, len : 0..TransLen,
                txDone : BOOLEAN, status : {"none", "pending", "good"}]
      /\ n.sent = icmd[c].sent /\ n.status = icmd[c].status /\ n.r2treq = 0 /\ n.txDone
  <2> DEFINE m == [icmd[c] EXCEPT !.txDone = TRUE]
  <2>1. icmd[c] \in [sent : Nat, r2treq : 0..1, off : 0..TransLen, len : 0..TransLen,
                    txDone : BOOLEAN, status : {"none", "pending", "good"}]
    BY <1>2 DEF IniFields
  <2>2. /\ m \in [sent : Nat, r2treq : 0..1, off : 0..TransLen, len : 0..TransLen,
                  txDone : BOOLEAN, status : {"none", "pending", "good"}]
        /\ m.sent = icmd[c].sent /\ m.status = icmd[c].status /\ m.txDone
    BY <2>1
  <2>3. n = [m EXCEPT !.r2treq = 0]
    BY <2>1
  <2> HIDE DEF m, n
  <2> QED BY <2>2, <2>3
<1>5. icmd' = [icmd EXCEPT ![c] = n] /\ icmd'[c] = n
  <2>1. (IF tx[1].mode = "answered" THEN icmd[c].r2treq - 1 ELSE icmd[c].r2treq) = 0
    BY <1>1, <1>3
  <2>2. icmd' = [icmd EXCEPT ![c].txDone = TRUE, ![c].r2treq = 0]
    BY <1>1, <2>1
  <2> QED BY <1>2, <2>2 DEF IniFields
<1> HIDE DEF n
<1>6. ~TxAt(c)' /\ ~Has(txq, c)' /\ (c \in ihash)'
  BY <1>1, <1>3 DEF TxAt, Has
<1>7. TransLen' = TransLen /\ Burst' = Burst
  BY <1>1, SameParameters
<1>8. /\ tx[1].mode = "sent" => Bursting(c)'
      /\ tx[1].mode = "answered" => AllSent(c)'
  BY <1>3, <1>4, <1>5, <1>6, <1>7 DEF Bursting, AllSent, Away
<1>9. SentTo(c)' = SentTo(c)
  <2>1. ~NotYet(c) /\ ~ToSend(c)
    BY <1>1, <1>3 DEF NotYet, ToSend, TxIn, TxAt
  <2>2. ~NotYet(c)' /\ ~ToSend(c)'
    BY <1>3, <1>4, <1>5, <1>6 DEF NotYet, ToSend, TxIn
  <2> QED BY <2>1, <2>2, <1>4, <1>5 DEF SentTo
<1>10. Leads(Going', c, GotTo(c), SentTo(c)')
  <2>1. Going' = Going
    BY <1>1 DEF Going, tgtVars
  <2> QED BY <2>1, <1>9, Command
<1>11. Asked(c) /\ SameAnswers(c) /\ par' = par /\ tcmd' = tcmd => Asked(c)'
  BY <1>1, <1>2, <1>3, <1>4, <1>5, <1>7 DEF Asked, SameAnswers
<1>12. Initiator(c)'
  BY <1>1, <1>8 DEF Initiator
<1> QED BY <1>1, <1>4, <1>5, <1>10, <1>11, <1>12, TxStep

\* An answer comes for a command that the initiator has, and has sent as far as the
\* target received it.
LEMMA Expected ==
    ASSUME WriteInv, NEW c \in Cmds
    PROVE  /\ Comes(c, "r2t") => /\ Bursting(c) /\ c \in ihash /\ Burst < TransLen
                                 /\ tcmd[c].r2tFlag /\ icmd[c].r2treq = 0
           /\ Comes(c, "response") => /\ Bursting(c) \/ Answering(c) \/ AllSent(c)
                                      /\ c \in ihash /\ icmd[c].sent = TransLen
                                      /\ Complete(c) /\ c \notin thash
<1>1. /\ Initiator(c) /\ Asked(c) /\ Responded(c) /\ GotTo(c) <= SentTo(c)
      /\ Burst \in Nat /\ TransLen \in Nat \ {0} /\ Burst <= TransLen
      /\ icmd[c].sent \in Nat
  BY Command, Amounts
<1>2. ASSUME Comes(c, "r2t")
      PROVE  /\ Bursting(c) /\ c \in ihash /\ Burst < TransLen
             /\ tcmd[c].r2tFlag /\ icmd[c].r2treq = 0
  <2>1. tcmd[c].r2tFlag /\ icmd[c].r2treq = 0 /\ icmd[c].sent < TransLen
    BY <1>1, <1>2 DEF Asked
  <2>2. ~NotYet(c) /\ ~ToSend(c) /\ Burst < TransLen
    BY <2>1, Unsent, AskedMore
  <2>3. ~Answering(c) /\ ~AllSent(c) /\ ~Good(c)
    BY <2>1, <1>1 DEF Answering, AllSent, Good
  <2> QED BY <1>1, <2>1, <2>2, <2>3 DEF Initiator, Bursting
<1>3. ASSUME Comes(c, "response")
      PROVE  /\ Bursting(c) \/ Answering(c) \/ AllSent(c)
             /\ c \in ihash /\ icmd[c].sent = TransLen /\ Complete(c) /\ c \notin thash
  <2>1. Complete(c) /\ c \notin thash /\ icmd[c].status = "pending"
    BY <1>1, <1>3 DEF Responded
  <2>2. ~NotYet(c) /\ ~ToSend(c)
    BY <2>1, Unsent
  <2>3. TransLen <= icmd[c].sent
    BY <1>1, <2>1, <2>2 DEF SentTo, GotTo, Complete
  <2>4. ~Good(c)
    BY <2>1 DEF Good
  <2>5. CASE Bursting(c)
    BY <2>5, <2>1, <2>3, <1>1 DEF Bursting
  <2>6. CASE Answering(c)
    BY <2>6, <2>1, <2>3, <1>1 DEF Answering
  <2>7. CASE AllSent(c)
    BY <2>7, <2>1 DEF AllSent
  <2> QED BY <1>1, <2>2, <2>4, <2>5, <2>6, <2>7 DEF Initiator
<1> QED BY <1>2, <1>3

LEMMA AnswerTypes ==
    ASSUME WriteInv, NEW p \in Answers
    PROVE  /\ p.cmd \in Cmds /\ p.op \in {"r2t", "response"}
           /\ p.op = "r2t" => p.off = Burst /\ p.len = TransLen - Burst
           /\ p.op = "response" => p.status = 0
BY DEF Answers, R2TPdus, RspPdus, R2TPdu, RspPdu

LEMMA HeaderStep ==
    ASSUME WriteInv, RxHeader
    PROVE  WriteInv'
<1>1. /\ rx = <<>> /\ t2i # <<>> /\ rx' = <<Head(t2i)>> /\ t2i' = Tail(t2i)
      /\ iup' = (Head(t2i).cmd \in ihash)
      /\ UNCHANGED <<par, i2t, txq, tx, ihash, icmd, tgtVars>>
  BY DEF RxHeader
<1>2. Fields /\ Queues
  BY DEF WriteInv
<1>3. /\ Coming' = Coming /\ Head(t2i) \in Answers /\ Tail(t2i) \in Seq(Answers)
      /\ Comes(Head(t2i).cmd, Head(t2i).op)
  BY <1>1, <1>2, HeaderTaken
<1>4. Head(t2i).cmd \in ihash
  BY <1>3, AnswerTypes, Expected
<1>5. iup' = TRUE
  BY <1>1, <1>4
<1>6. Fields'
  <2>1. par' = par /\ i2t' \in Seq(Pdus) /\ wk' = wk
    BY <1>1, <1>2, Wires DEF tgtVars
  <2>2. wk' = <<>> \/ (\E p \in DataPdus : wk' = <<p>>)
    BY <1>2, <2>1 DEF Fields, WireFields
  <2>3. WireFields'
    BY <1>1, <1>2, <1>3, <2>1, <2>2, WiresKept
  <2>4. IniFields' /\ TgtFields'
    BY <1>1, <1>2, FieldsKept DEF tgtVars
  <2> QED BY <1>1, <1>2, <1>5, <2>1, <2>3, <2>4 DEF Fields, tgtVars
<1>7. Queues'
  BY <1>1, <1>2, <1>3 DEF Queues, Has, NoRepeat, tgtVars
<1>8. ASSUME NEW c \in Cmds PROVE CmdInv(c)'
  <2>1. SameInitiator(c) /\ SameTarget(c) /\ SameAnswers(c) /\ Going' = Going /\ par' = par
    BY <1>1, <1>3 DEF SameInitiator, SameTarget, SameAnswers, TxAt, Comes, Going, tgtVars
  <2>2. CmdInv(c) /\ Leads(Going', c, GotTo(c), SentTo(c))
    BY <2>1 DEF WriteInv, CmdInv
  <2> QED BY <2>1, <2>2, CmdKept
<1> QED BY <1>6, <1>7, <1>8 DEF WriteInv

\* The rx thread handles the answer that it took, to command c.
LEMMA RxStep ==
    ASSUME WriteInv, NEW c \in Cmds, rx # <<>>, rx[1].cmd = c, rx' = <<>>,
           par' = par, UNCHANGED tgtVars, UNCHANGED <<chanVars, tx>>, iup' = TRUE,
           NEW n, n \in [sent : Nat, r2treq : 0..1, off : 0..TransLen, len : 0..TransLen,
                         txDone : BOOLEAN, status : {"none", "pending", "good"}],
           icmd' = [icmd EXCEPT ![c] = n], ihash' = ihash \ {c},
           txq' = txq \/ (~Has(txq, c) /\ txq' = Append(txq, c)),
           Initiator(c)', SentTo(c)' = SentTo(c),
           (\A op : ~Comes(c, op)') => Asked(c)' /\ Responded(c)'
    PROVE  WriteInv'
<1>1. Fields /\ Queues /\ IniFields
  BY DEF WriteInv, Fields
<1>2. icmd'[c] = n /\ \A d \in Cmds \ {c} : icmd'[d] = icmd[d]
  BY <1>1 DEF IniFields
<1>3. /\ txq' \in Seq(Cmds) /\ NoRepeat(txq')
      /\ \A d \in Cmds \ {c} : Has(txq', d) <=> Has(txq, d)
  <2>1. txq \in Seq(Cmds) /\ NoRepeat(txq)
    BY <1>1 DEF IniFields, Queues
  <2>2. CASE txq' = txq
    BY <2>1, <2>2
  <2>3. CASE ~Has(txq, c) /\ txq' = Append(txq, c)
    BY <2>1, <2>3, HasAppend
  <2> QED BY <2>2, <2>3
<1>4. /\ t2i' = t2i /\ i2t' = i2t /\ wk' = wk /\ Going' = Going
  BY DEF chanVars, tgtVars, Going
<1>5. /\ \A d \in Cmds : \A op : d = c => ~Comes(d, op)'
      /\ \A d \in Cmds : \A op : d # c => (Comes(d, op)' <=> Comes(d, op))
      /\ (\A i, j \in 1..Len(Coming) : Coming[i].cmd = Coming[j].cmd => i = j)'
  BY <1>1, <1>4, Handled DEF Queues
<1>6. Fields'
  <2>1. icmd' \in [Cmds -> [sent : Nat, r2treq : 0..1, off : 0..TransLen, len : 0..TransLen,
                            txDone : BOOLEAN, status : {"none", "pending", "good"}]]
    BY <1>1 DEF IniFields
  <2>2. IniFields'
    BY <1>1, <1>3, <2>1, SameParameters DEF IniFields
  <2>3. TgtFields'
    BY <1>1, FieldsKept DEF tgtVars
  <2>4. WireFields'
    <3>1. wk' = <<>> \/ (\E p \in DataPdus : wk' = <<p>>)
      BY <1>1, <1>4 DEF Fields, WireFields
    <3> QED BY <1>1, <1>4, <3>1, Wires, WiresKept
  <2> QED BY <1>1, <2>2, <2>3, <2>4 DEF Fields, tgtVars
<1>7. Queues'
  BY <1>1, <1>3, <1>5 DEF Queues, Has, NoRepeat, tgtVars
<1>8. ASSUME NEW d \in Cmds \ {c} PROVE CmdInv(d)'
  <2>1. SameInitiator(d) /\ SameTarget(d) /\ SameAnswers(d)
    BY <1>2, <1>3, <1>5 DEF SameInitiator, SameTarget, SameAnswers, TxAt, tgtVars
  <2>2. CmdInv(d) /\ Leads(Going', d, GotTo(d), SentTo(d))
    BY <1>4 DEF WriteInv, CmdInv
  <2> QED BY <2>1, <2>2, CmdKept
<1>9. CmdInv(c)'
  <2>1. SameTarget(c)
    BY DEF SameTarget, tgtVars
  <2>2. Target(c)' /\ Prefix(c)' /\ GotTo(c)' = GotTo(c)
    BY <2>1, Command, TargetKept DEF Target
  <2>3. Leads(Going, c, GotTo(c), SentTo(c))'
    BY <1>4, <2>2, Command, LeadsThen
  <2> QED BY <1>5, <2>2, <2>3 DEF CmdInv
<1> QED BY <1>6, <1>7, <1>8, <1>9 DEF WriteInv

LEMMA R2TStep ==
    ASSUME WriteInv, NEW c \in Cmds, rx # <<>>, rx[1].cmd = c, RxR2T
    PROVE  WriteInv'
<1> DEFINE n == [icmd[c] EXCEPT !.r2treq = 1, !.off = Burst, !.len = TransLen - Burst]
<1>1. /\ rx[1].op = "r2t" /\ icmd[c].txDone /\ rx' = <<>>
      /\ iup' = (icmd[c].r2treq <= 1)
      /\ icmd' = [icmd EXCEPT ![c].r2treq = @ + 1, ![c].off = rx[1].off, ![c].len = rx[1].len]
      /\ ihash' = IF rx[1].off + rx[1].len = TransLen THEN ihash \ {c} ELSE ihash
      /\ txq' = Append(txq, c)
      /\ par' = par /\ UNCHANGED tgtVars /\ UNCHANGED <<chanVars, tx>>
  BY DEF RxR2T, RxReady
<1>2. Fields /\ Queues /\ IniFields /\ Burst \in Nat /\ TransLen \in Nat
  BY Command, Amounts DEF Fields
<1>3. /\ rx[1] \in Answers /\ Comes(c, "r2t") /\ ~Comes(c, "response")
  <2>1. t2i' = t2i
    BY <1>1 DEF chanVars
  <2> QED BY <1>1, <1>2, <2>1, Handled DEF Queues
<1>4. rx[1].off = Burst /\ rx[1].len = TransLen - Burst
  BY <1>1, <1>3, AnswerTypes
<1>5. /\ Bursting(c) /\ c \in ihash /\ Burst < TransLen /\ tcmd[c].r2tFlag
      /\ icmd[c].r2treq = 0 /\ icmd[c].sent = Burst /\ ~TxAt(c) /\ ~Has(txq, c)
      /\ icmd[c].status = "pending"
  BY <1>1, <1>3, Expected DEF Bursting
<1>6. iup' = TRUE
  <2>1. icmd[c].r2treq <= 1
    BY <1>5
  <2> QED BY <1>1, <2>1
<1>7. ihash' = ihash \ {c}
  <2>1. rx[1].off + rx[1].len = TransLen
    BY <1>2, <1>4
  <2> QED BY <1>1, <2>1
<1>8. /\ n \in [sent : Nat, r2treq : 0..1, off : 0..TransLen, len : 0..TransLen,
                txDone : BOOLEAN, status : {"none", "pending", "good"}]
      /\ n.sent = icmd[c].sent /\ n.r2treq = 1 /\ n.off = Burst /\ n.len = TransLen - Burst
      /\ n.status = icmd[c].status
  <2>1. icmd[c] \in [sent : Nat, r2treq : 0..1, off : 0..TransLen, len : 0..TransLen,
                    txDone : BOOLEAN, status : {"none", "pending", "good"}]
    BY <1>2 DEF IniFields
  <2>2. Burst \in 0..TransLen /\ TransLen - Burst \in 0..TransLen /\ 1 \in 0..1
    BY <1>2, <1>5
  <2> QED BY <2>1, <2>2
<1>9. icmd' = [icmd EXCEPT ![c] = n] /\ icmd'[c] = n
  <2>1. icmd[c].r2treq + 1 = 1
    BY <1>5
  <2>2. icmd' = [icmd EXCEPT ![c].r2treq = 1, ![c].off = Burst, ![c].len = TransLen - Burst]
    BY <1>1, <1>4, <2>1
  <2> QED BY <1>2, <2>2 DEF IniFields
<1> HIDE DEF n
<1>10. Answering(c)'
  <2>1. Has(txq', c)
    BY <1>1, <1>2, HasAppend DEF IniFields
  <2>2. Has(txq, c)' /\ ~TxAt(c)' /\ ~(c \in ihash)'
    BY <1>1, <1>5, <1>7, <2>1 DEF TxAt, Has
  <2> QED BY <1>1, <1>5, <1>8, <1>9, <2>2, SameParameters DEF Answering
<1>11. SentTo(c)' = SentTo(c)
  <2>1. ~NotYet(c) /\ ~ToSend(c)
    BY <1>1, <1>5 DEF NotYet, ToSend, TxIn
  <2>2. ~NotYet(c)' /\ ~ToSend(c)'
    BY <1>8, <1>9 DEF NotYet, ToSend
  <2> QED BY <2>1, <2>2, <1>8, <1>9 DEF SentTo
<1>12. ASSUME \A op : ~Comes(c, op)' PROVE Asked(c)' /\ Responded(c)'
  <2>1. SameTarget(c) /\ tcmd' = tcmd /\ thash' = thash
    BY <1>1 DEF SameTarget, tgtVars
  <2>2. Complete(c)' <=> Complete(c)
    BY <1>1, <2>1, TargetKept
  <2>3. Responded(c)
    BY Command
  <2>4. Asked(c)'
    BY <1>5, <1>8, <1>9, <1>12, <2>1 DEF Asked
  <2>5. Responded(c)'
    BY <1>3, <1>5, <1>8, <1>9, <1>12, <2>1, <2>2, <2>3 DEF Responded
  <2> QED BY <2>4, <2>5
<1>13. Initiator(c)'
  BY <1>10 DEF Initiator
<1> QED BY <1>1, <1>5, <1>6, <1>7, <1>8, <1>9, <1>11, <1>12, <1>13, RxStep

LEMMA ResponseStep ==
    ASSUME WriteInv, NEW c \in Cmds, rx # <<>>, rx[1].cmd = c, RxResponse
    PROVE  WriteInv'
<1> DEFINE n == [icmd[c] EXCEPT !.status = "good"]
           short == rx[1].status = 0 /\ icmd[c].sent # TransLen
<1>1. /\ rx[1].op = "response" /\ icmd[c].txDone /\ rx' = <<>>
      /\ icmd' = [icmd EXCEPT ![c].status = IF short THEN "failed"
                                            ELSE IF rx[1].status = 0 THEN "good" ELSE "check"]
      /\ ihash' = ihash \ {c} /\ iup' = ~short
      /\ txq' = txq
      /\ par' = par /\ UNCHANGED tgtVars /\ UNCHANGED <<chanVars, tx>>
  BY DEF RxResponse, RxReady
<1>2. Fields /\ Queues /\ IniFields
  BY Command DEF Fields
<1>3. rx[1] \in Answers /\ Comes(c, "response")
  <2>1. t2i' = t2i
    BY <1>1 DEF chanVars
  <2> QED BY <1>1, <1>2, <2>1, Handled DEF Queues
<1>4. rx[1].status = 0
  BY <1>1, <1>3, AnswerTypes
<1>5. /\ Bursting(c) \/ AllSent(c)
      /\ c \in ihash /\ icmd[c].sent = TransLen /\ Complete(c) /\ c \notin thash
      /\ icmd[c].r2treq = 0 /\ ~TxAt(c) /\ ~Has(txq, c)
  <2>1. /\ Bursting(c) \/ Answering(c) \/ AllSent(c)
        /\ c \in ihash /\ icmd[c].sent = TransLen /\ Complete(c) /\ c \notin thash
    BY <1>3, Expected
  <2>2. ~Answering(c)
    BY <1>1, <2>1 DEF Answering
  <2> QED BY <1>1, <2>1, <2>2 DEF Bursting, AllSent, Away
<1>6. icmd' = [icmd EXCEPT ![c] = n] /\ iup' = TRUE
  <2>1. ~short
    BY <1>5
  <2>2. icmd' = [icmd EXCEPT ![c].status = "good"] /\ iup' = TRUE
    BY <1>1, <1>4, <2>1
  <2> QED BY <2>2
<1>7. /\ n \in [sent : Nat, r2treq : 0..1, off : 0..TransLen, len : 0..TransLen,
                txDone : BOOLEAN, status : {"none", "pending", "good"}]
      /\ n.sent = icmd[c].sent /\ n.r2treq = icmd[c].r2treq /\ n.status = "good"
  <2>1. icmd[c] \in [sent : Nat, r2treq : 0..1, off : 0..TransLen, len : 0..TransLen,
                    txDone : BOOLEAN, status : {"none", "pending", "good"}]
    BY <1>2 DEF IniFields
  <2> QED BY <2>1
<1>8. icmd'[c] = n
  BY <1>2, <1>6 DEF IniFields
<1> HIDE DEF n, short
<1>9. Good(c)'
  <2>1. Away(c)' /\ ~(c \in ihash)'
    BY <1>1, <1>5 DEF Away, TxAt, Has
  <2> QED BY <1>1, <1>5, <1>7, <1>8, <2>1, SameParameters DEF Good
<1>10. SentTo(c)' = SentTo(c)
  <2>1. ~NotYet(c) /\ ~ToSend(c)
    BY <1>1, <1>5, Unsent
  <2>2. ~NotYet(c)' /\ ~ToSend(c)'
    BY <1>7, <1>8 DEF NotYet, ToSend
  <2> QED BY <2>1, <2>2, <1>7, <1>8 DEF SentTo
<1>11. ASSUME \A op : ~Comes(c, op)' PROVE Asked(c)' /\ Responded(c)'
  <2>1. SameTarget(c) /\ tcmd' = tcmd /\ thash' = thash
    BY <1>1 DEF SameTarget, tgtVars
  <2>2. Complete(c)'
    BY <1>1, <1>5, <2>1, TargetKept
  <2>3. Asked(c)
    BY Command
  <2>4. TransLen' = TransLen /\ Burst' = Burst /\ TransLen \in Nat
    BY <1>1, SameParameters, Command, Amounts
  <2>5. Asked(c)'
    BY <1>5, <1>7, <1>8, <1>11, <2>1, <2>3, <2>4 DEF Asked
  <2> QED BY <1>5, <1>7, <1>8, <1>11, <2>1, <2>2, <2>5 DEF Responded
<1>12. Initiator(c)'
  BY <1>9 DEF Initiator
<1> QED BY <1>1, <1>6, <1>7, <1>10, <1>11, <1>12, RxStep

-----------------------------------------------------------------------------
(***************************************************************************)
(* The target's session worker                                               *)
(***************************************************************************)
TRecord == [length : 0..TransLen, bytes : 0..TransLen, ready : BOOLEAN,
            r2tFlag : BOOLEAN, done : BOOLEAN, status : Nat, asked : 0..TransLen]
LunStates == {"none", "queued", "prepare", "ask", "wake", "report"}

\* What the fields of one command are
LEMMA TargetFields ==
    ASSUME WriteInv, NEW c \in Cmds
    PROVE  /\ tcmd \in [Cmds -> TRecord] /\ tcmd[c] \in TRecord /\ tcmd = [tcmd EXCEPT ![c] = tcmd[c]]
           /\ lun \in [Cmds -> LunStates] /\ lun[c] \in LunStates /\ lun = [lun EXCEPT ![c] = lun[c]]
           /\ placed \in [Cmds -> [Units -> 0..1]] /\ placed[c] \in [Units -> 0..1]
           /\ placed = [placed EXCEPT ![c] = placed[c]]
           /\ lunq \in Seq(Cmds) /\ thash \subseteq Cmds
           /\ lun[c] = "queued" <=> Has(lunq, c)
<1>1. TgtFields /\ Queues
  BY DEF WriteInv, Fields
<1>2. /\ tcmd \in [Cmds -> TRecord] /\ lun \in [Cmds -> LunStates]
      /\ placed \in [Cmds -> [Units -> 0..1]] /\ lunq \in Seq(Cmds) /\ thash \subseteq Cmds
  BY <1>1 DEF TgtFields, TRecord, LunStates
<1>3. \A S, f : f \in [Cmds -> S] => f[c] \in S /\ f = [f EXCEPT ![c] = f[c]]
  OBVIOUS
<1> QED BY <1>1, <1>2, <1>3 DEF Queues

\* TargetStep, field by field
LEMMA FieldStep ==
    ASSUME WriteInv, par' = par, UNCHANGED iniVars, NEW c \in Cmds, tup' = TRUE,
           i2t' \in Seq(Pdus), wk' = <<>> \/ (\E p \in DataPdus : wk' = <<p>>),
           \A d \in Cmds \ {c} : \A x, y : Leads(Going, d, x, y) => Leads(Going', d, x, y),
           t2i' = t2i
             \/ ((\A op : ~Comes(c, op)) /\ \E p \in Answers : p.cmd = c /\ t2i' = Append(t2i, p)),
           NEW t \in TRecord, tcmd' = [tcmd EXCEPT ![c] = t],
           NEW l \in LunStates, lun' = [lun EXCEPT ![c] = l],
           NEW f \in [Units -> 0..1], placed' = [placed EXCEPT ![c] = f],
           thash' \in {thash, thash \cup {c}, thash \ {c}},
           \/ lunq' = lunq /\ (l = "queued" <=> lun[c] = "queued")
           \/ lunq' = Append(lunq, c) /\ lun[c] # "queued" /\ l = "queued"
           \/ lunq # <<>> /\ lunq' = Tail(lunq) /\ c = Head(lunq) /\ l # "queued",
           Target(c)', Prefix(c)', Leads(Going', c, GotTo(c)', SentTo(c)),
           Asked(c)', Responded(c)'
    PROVE  WriteInv'
<1>1. /\ tcmd \in [Cmds -> TRecord] /\ lun \in [Cmds -> LunStates] /\ lunq \in Seq(Cmds)
      /\ placed \in [Cmds -> [Units -> 0..1]] /\ thash \subseteq Cmds
      /\ NoRepeat(lunq) /\ \A d \in Cmds : Has(lunq, d) <=> lun[d] = "queued"
  BY TargetFields DEF WriteInv, Queues
<1>2. /\ tcmd' \in [Cmds -> TRecord] /\ lun' \in [Cmds -> LunStates]
      /\ placed' \in [Cmds -> [Units -> 0..1]] /\ thash' \subseteq Cmds
  BY <1>1
<1>3. /\ tcmd'[c] = t /\ lun'[c] = l /\ placed'[c] = f
      /\ \A d \in Cmds \ {c} : /\ tcmd'[d] = tcmd[d] /\ lun'[d] = lun[d] /\ placed'[d] = placed[d]
                               /\ (d \in thash' <=> d \in thash)
  BY <1>1
<1>4. /\ lunq' \in Seq(Cmds) /\ NoRepeat(lunq')
      /\ \A d \in Cmds \ {c} : Has(lunq', d) <=> Has(lunq, d)
      /\ Has(lunq', c) <=> l = "queued"
  <2>1. CASE lunq' = lunq /\ (l = "queued" <=> lun[c] = "queued")
    BY <2>1, <1>1
  <2>2. CASE lunq' = Append(lunq, c) /\ lun[c] # "queued" /\ l = "queued"
    BY <2>2, <1>1, HasAppend
  <2>3. CASE lunq # <<>> /\ lunq' = Tail(lunq) /\ c = Head(lunq) /\ l # "queued"
    BY <2>3, <1>1, HasTail, TailFacts
  <2> QED BY <2>1, <2>2, <2>3
<1>5. \A d \in Cmds : Has(lunq', d) <=> lun'[d] = "queued"
  BY <1>1, <1>3, <1>4
<1>6. TgtFields'
  BY <1>2, <1>4, SameParameters DEF TgtFields, TRecord, LunStates
<1>7. \A d \in Cmds \ {c} : SameTarget(d)
  BY <1>3 DEF SameTarget
<1> QED BY <1>4, <1>5, <1>6, <1>7, TargetStep

\* The PDU that is next for command c starts where the target is.
LEMMA NextPdu ==
    ASSUME WriteInv, NEW p, Going # <<>>, p = Head(Going), NEW c \in Cmds, c = p.cmd
    PROVE  /\ p.op = "command" =>
                /\ p \in CmdPdus => Fresh(c) /\ p.len = ImmediateLength /\ GotTo(c) = -1
                /\ \A s : s = Tail(Going) => Leads(s, c, p.len, SentTo(c))
           /\ p \in DataPdus =>
                /\ c \in thash /\ ~Complete(c) /\ GotTo(c) = p.off
                /\ p.off + p.len <= SentTo(c)
                /\ \A s : s = Tail(Going) => Leads(s, c, p.off + p.len, SentTo(c))
           /\ \A d \in Cmds \ {c} : \A x, y, s : s = Tail(Going) /\ Leads(Going, d, x, y)
                                                    => Leads(s, d, x, y)
<1>1. /\ Fields /\ Going \in Seq(Pdus) /\ Leads(Going, c, GotTo(c), SentTo(c)) /\ Target(c)
      /\ TransLen \in Nat \ {0} /\ ImmediateLength \in Nat /\ tcmd[c].bytes \in Nat
      /\ GotTo(c) \in Int
  <2>1. /\ Fields /\ par \in Params /\ Leads(Going, c, GotTo(c), SentTo(c)) /\ Target(c)
        /\ tcmd[c].bytes \in 0..TransLen /\ GotTo(c) \in Int
    BY Command
  <2>2. TransLen \in Nat \ {0} /\ ImmediateLength \in Nat
    BY <2>1, Amounts
  <2>3. tcmd[c].bytes \in Nat
    BY <2>1, <2>2
  <2> QED BY <2>1, <2>2, <2>3, Wires
<1>2. PICK y \in Int : /\ Link(p, c, GotTo(c), y) /\ GotTo(c) <= y /\ y <= SentTo(c)
                       /\ Leads(Tail(Going), c, y, SentTo(c))
  BY <1>1, LeadsTail
<1>3. ASSUME p.op = "command"
      PROVE  /\ p \in CmdPdus => Fresh(c) /\ p.len = ImmediateLength /\ GotTo(c) = -1
             /\ Leads(Tail(Going), c, p.len, SentTo(c))
  <2>1. GotTo(c) = -1 /\ y = p.len
    BY <1>2, <1>3 DEF Link
  <2>2. c \notin thash /\ tcmd[c].bytes = 0
    BY <2>1, <1>1 DEF GotTo
  <2>3. Fresh(c)
    BY <2>2, <1>1 DEF Target, Accepted, Refused, Due, Receiving, Complete
  <2>4. ASSUME p \in CmdPdus PROVE p.len = ImmediateLength
    <3>1. PICK d \in Cmds : p = CmdPdu(d, ImmediateLength)
      BY <2>4 DEF CmdPdus
    <3> QED BY <3>1 DEF CmdPdu
  <2> QED BY <1>2, <2>1, <2>3, <2>4
<1>4. ASSUME p \in DataPdus
      PROVE  /\ c \in thash /\ ~Complete(c) /\ GotTo(c) = p.off
             /\ p.off + p.len <= SentTo(c)
             /\ Leads(Tail(Going), c, p.off + p.len, SentTo(c))
  <2>1. p.op = "data" /\ p.off \in Nat /\ p.len \in Nat \ {0} /\ p.off + p.len <= TransLen
    BY <1>4 DEF DataPdus
  <2>2. GotTo(c) = p.off /\ y = p.off + p.len
    BY <1>2, <2>1 DEF Link
  <2>3. tcmd[c].bytes # TransLen
    BY <2>1, <2>2, <1>1 DEF GotTo
  <2>4. c \in thash
    BY <2>1, <2>2, <2>3, <1>1 DEF GotTo, Target, Fresh, Accepted, Refused, Due, Receiving, Complete
  <2> QED BY <1>2, <2>2, <2>3, <2>4 DEF Complete
<1>5. ASSUME NEW d \in Cmds \ {c}, NEW x, NEW z, Leads(Going, d, x, z) PROVE Leads(Tail(Going), d, x, z)
  <2>1. PICK w \in Int : Link(p, d, x, w) /\ Leads(Tail(Going), d, w, z)
    BY <1>1, <1>5, LeadsTail
  <2>2. w = x
    BY <2>1 DEF Link
  <2> QED BY <2>1, <2>2
<1> QED BY <1>3, <1>4, <1>5

LEMMA TargetCommandStep ==
    ASSUME WriteInv, NEW c \in Cmds, i2t # <<>>, c = Head(i2t).cmd, scsi_command_t
    PROVE  WriteInv'
<1> DEFINE p == Head(i2t)
           t == [NewTCmd EXCEPT !.length = p.len]
<1>1. /\ wk = <<>> /\ p.op = "command"
      /\ tcmd' = [tcmd EXCEPT ![c] = t] /\ thash' = thash \cup {c}
      /\ lunq' = Append(lunq, c) /\ lun' = [lun EXCEPT ![c] = "queued"]
      /\ i2t' = Tail(i2t) /\ par' = par /\ t2i' = t2i /\ UNCHANGED iniVars /\ wk' = <<>>
      /\ tup' = tup /\ placed' = placed
  BY DEF scsi_command_t
<1>2. /\ Fields /\ Asked(c) /\ Responded(c) /\ Prefix(c)
      /\ ImmediateLength \in 0..TransLen /\ TransLen \in Nat \ {0}
  BY Command, Amounts
<1>3. /\ Going # <<>> /\ Head(Going) = p /\ Tail(Going) = Tail(i2t) /\ p \in Pdus
      /\ Tail(i2t) \in Seq(Pdus) /\ Going' = Tail(i2t)
  <2>1. Going' = <<>> \o Tail(i2t) /\ Tail(i2t) \in Seq(Pdus)
    BY <1>1, <1>2, FirstGoing DEF Going
  <2> QED BY <1>1, <1>2, <2>1, FirstGoing, ConcatEmptySeq
<1>4. p \in CmdPdus
  BY <1>1, <1>3 DEF Pdus, DataPdus
<1>5. /\ Fresh(c) /\ p.len = ImmediateLength /\ GotTo(c) = -1
      /\ Leads(Going', c, ImmediateLength, SentTo(c))
      /\ \A d \in Cmds \ {c} : \A x, y : Leads(Going, d, x, y) => Leads(Going', d, x, y)
  BY <1>1, <1>3, <1>4, NextPdu
<1>6. /\ t \in TRecord /\ t.length = ImmediateLength /\ t.bytes = 0 /\ ~t.ready /\ ~t.done
      /\ t.asked = 0 /\ t.status = 0 /\ ~t.r2tFlag
  <2>1. /\ NewTCmd \in TRecord /\ NewTCmd.bytes = 0 /\ ~NewTCmd.ready /\ ~NewTCmd.done
        /\ NewTCmd.asked = 0 /\ NewTCmd.status = 0 /\ ~NewTCmd.r2tFlag
    BY <1>2 DEF TRecord, NewTCmd
  <2>2. p.len \in 0..TransLen
    BY <1>2, <1>5
  <2> HIDE DEF p
  <2> QED BY <1>5, <2>1, <2>2 DEF TRecord
<1>7. /\ tcmd'[c] = t /\ lun'[c] = "queued" /\ (c \in thash)' /\ lun[c] = "none"
      /\ placed' = [placed EXCEPT ![c] = placed[c]] /\ placed[c] \in [Units -> 0..1]
      /\ tcmd[c].bytes = 0 /\ ~tcmd[c].r2tFlag /\ thash' \in {thash, thash \cup {c}, thash \ {c}}
  BY <1>1, <1>5, TargetFields DEF Fresh
<1> HIDE DEF t, p
<1>8. Accepted(c)' /\ ~Complete(c) /\ ~Complete(c)'
  BY <1>1, <1>2, <1>6, <1>7, SameParameters DEF Accepted, Quiet, Complete
<1>9. GotTo(c)' = ImmediateLength
  BY <1>1, <1>6, <1>7, SameParameters DEF GotTo
<1>10. Prefix(c)'
  BY <1>1, <1>2, <1>6, <1>7, SameParameters DEF Prefix
<1>11. Asked(c)' /\ Responded(c)'
  <2>1. \A op : Comes(c, op)' <=> Comes(c, op)
    BY <1>1 DEF Comes, Coming, iniVars
  <2>2. Asked(c)'
    BY <1>1, <1>2, <1>6, <1>7, <2>1, SameParameters DEF Asked, iniVars
  <2>3. Responded(c)'
    BY <1>1, <1>2, <1>8, <2>1 DEF Responded, iniVars
  <2> QED BY <2>2, <2>3
<1>12. tup' = TRUE /\ "queued" \in LunStates /\ Target(c)'
  BY <1>1, <1>2, <1>8 DEF Fields, LunStates, Target
<1>13. Leads(Going', c, GotTo(c)', SentTo(c))
  BY <1>5, <1>9
<1> QED BY <1>1, <1>3, <1>5, <1>6, <1>7, <1>10, <1>11, <1>12, <1>13, FieldStep

LEMMA WorkerDataStep ==
    ASSUME WriteInv, NEW c \in Cmds, i2t # <<>>, c = Head(i2t).cmd, WorkerData
    PROVE  WriteInv'
<1> DEFINE p == Head(i2t)
<1>1. /\ wk = <<>> /\ p.op = "data" /\ wk' = <<p>> /\ i2t' = Tail(i2t)
      /\ tup' = (c \in thash) /\ par' = par /\ t2i' = t2i
      /\ UNCHANGED <<thash, tcmd, lunq, lun, placed>> /\ UNCHANGED iniVars
  BY DEF WorkerData
<1>2. Fields /\ CmdInv(c)
  BY DEF WriteInv
<1>3. /\ Going # <<>> /\ Head(Going) = p /\ p \in Pdus
      /\ Tail(i2t) \in Seq(Pdus) /\ Going' = Going
  BY <1>1, <1>2, FirstGoing DEF Going
<1>4. p \in DataPdus
  BY <1>1, <1>3 DEF Pdus, CmdPdus, CmdPdu
<1>5. c \in thash
  BY <1>3, <1>4, NextPdu
<1>6. tup' = TRUE
  BY <1>1, <1>5
<1>7. \A d : SameTarget(d) /\ SameInitiator(d) /\ SameAnswers(d)
  BY <1>1 DEF SameTarget, SameInitiator, SameAnswers, iniVars, TxAt, Comes, Coming
<1>8. CmdInv(c)'
  BY <1>1, <1>2, <1>3, <1>7, CmdKept DEF CmdInv
<1>9. GotTo(c)' = GotTo(c)
  BY <1>1, <1>7, TargetKept
<1>10. /\ tcmd' = [tcmd EXCEPT ![c] = tcmd[c]] /\ tcmd[c] \in TRecord
       /\ lun' = [lun EXCEPT ![c] = lun[c]] /\ lun[c] \in LunStates
       /\ placed' = [placed EXCEPT ![c] = placed[c]] /\ placed[c] \in [Units -> 0..1]
  BY <1>1, TargetFields
<1>11. Target(c)' /\ Prefix(c)' /\ Leads(Going', c, GotTo(c)', SentTo(c)) /\ Asked(c)' /\ Responded(c)'
  BY <1>2, <1>3, <1>8, <1>9 DEF CmdInv
<1> QED BY <1>1, <1>3, <1>4, <1>6, <1>10, <1>11, FieldStep

\* There are no other answers than R2Ts and responses.
LEMMA OnlyAnswers ==
    ASSUME WriteInv, NEW c \in Cmds, ~Comes(c, "r2t"), ~Comes(c, "response")
    PROVE  \A op : ~Comes(c, op)
<1> SUFFICES ASSUME NEW op, Comes(c, op) PROVE FALSE
  OBVIOUS
<1>1. PICK i \in 1..Len(Coming) : Coming[i].cmd = c /\ Coming[i].op = op
  BY DEF Comes
<1>2. Coming \in Seq(Answers)
  BY Wires DEF WriteInv
<1>3. op \in {"r2t", "response"}
  BY <1>1, <1>2, AnswerTypes
<1> QED BY <1>3

\* The target owes no answer to a command that it did not ask for more of.
LEMMA NotAnswered ==
    ASSUME WriteInv, NEW c \in Cmds, ~tcmd[c].r2tFlag, ~Complete(c) \/ c \in thash
    PROVE  \A op : ~Comes(c, op)
<1>1. Fields /\ Asked(c) /\ Responded(c)
  BY Command
<1>2. ~Comes(c, "r2t") /\ ~Comes(c, "response")
  BY <1>1 DEF Asked, Responded
<1> QED BY <1>2, OnlyAnswers

\* The data PDU that the worker may place continues what is there, and ends within
\* what was asked for.
LEMMA Placeable ==
    ASSUME WriteInv, NEW p, wk # <<>>, p = wk[1], NEW c \in Cmds, c = p.cmd, tcmd[c].ready
    PROVE  /\ Receiving(c) /\ lun[c] = "none" /\ p.off = tcmd[c].bytes /\ p.len \in Nat \ {0}
           /\ tcmd[c].bytes \in Nat /\ p.off + p.len <= TransLen
           /\ par.seg = 0 \/ p.len <= par.seg
           /\ p.off + p.len = TransLen => p.final
           /\ Leads(i2t, c, p.off + p.len, SentTo(c))
           /\ \A d \in Cmds \ {c} : \A x, y : Leads(Going, d, x, y) => Leads(i2t, d, x, y)
           /\ ~tcmd[c].r2tFlag /\ Burst < TransLen => p.off + p.len <= Burst
<1>1. /\ Fields /\ par \in Params /\ Target(c) /\ Asked(c)
      /\ tcmd[c].bytes \in 0..TransLen
  BY Command
<1>2. TransLen \in Nat \ {0} /\ ImmediateLength \in Nat /\ Burst \in Nat
  BY <1>1, Amounts
<1>3. /\ Going # <<>> /\ Head(Going) = p /\ Tail(Going) = i2t /\ p \in DataPdus
  BY <1>1, FirstGoing
<1>4. /\ c \in thash /\ ~Complete(c) /\ GotTo(c) = p.off /\ p.off + p.len <= SentTo(c)
      /\ Leads(i2t, c, p.off + p.len, SentTo(c))
      /\ \A d \in Cmds \ {c} : \A x, y : Leads(Going, d, x, y) => Leads(i2t, d, x, y)
  BY <1>3, NextPdu
<1>5. /\ p.off \in Nat /\ p.len \in Nat \ {0} /\ p.off + p.len <= TransLen
      /\ par.seg = 0 \/ p.len <= par.seg
      /\ p.off + p.len = TransLen => p.final
  BY <1>3 DEF DataPdus
<1>6. Receiving(c)
  BY <1>1, <1>4 DEF Target, Fresh, Accepted, Refused, Due, Quiet
<1>7. lun[c] = "none" /\ ImmediateLength <= tcmd[c].bytes
  BY <1>6 DEF Receiving
<1>8. p.off = tcmd[c].bytes
  BY <1>1, <1>2, <1>4, <1>7 DEF GotTo
<1>9. ASSUME ~tcmd[c].r2tFlag, Burst < TransLen PROVE p.off + p.len <= Burst
  <2>1. icmd[c].sent <= Burst /\ icmd[c].sent \in Nat
    BY <1>1, <1>9, Command DEF Asked
  <2>2. SentTo(c) <= Burst /\ SentTo(c) \in Int
    BY <1>2, <2>1 DEF SentTo
  <2> QED BY <1>2, <1>4, <1>5, <2>2
<1> QED BY <1>1, <1>2, <1>4, <1>5, <1>6, <1>7, <1>8, <1>9

\* Place goes on where the data ends.
LEMMA PlaceNext ==
    ASSUME WriteInv, NEW c \in Cmds, NEW off, off = tcmd[c].bytes, NEW len \in Nat,
           Place(c, off, len)
    PROVE  LET f == [u \in Units |-> IF u < off + len THEN 1 ELSE 0]
           IN  f \in [Units -> 0..1] /\ placed' = [placed EXCEPT ![c] = f]
<1> DEFINE f == [u \in Units |-> IF u < off + len THEN 1 ELSE 0]
           g == [u \in Units |-> IF u \in off..(off + len - 1) /\ placed[c][u] < 2
                                 THEN placed[c][u] + 1 ELSE placed[c][u]]
<1>1. /\ TransLen \in Nat /\ off \in Nat /\ placed \in [Cmds -> [Units -> 0..1]]
      /\ placed[c] = [u \in Units |-> IF u < off THEN 1 ELSE 0]
  <2>1. tcmd[c].bytes \in 0..TransLen /\ Prefix(c) /\ TransLen \in Nat
    BY Command, Amounts
  <2> QED BY <2>1, TargetFields DEF Prefix
<1>2. placed' = [placed EXCEPT ![c] = g]
  BY <1>1 DEF Place
<1>3. \A u \in Units : (IF u \in off..(off + len - 1) /\ placed[c][u] < 2
                        THEN placed[c][u] + 1 ELSE placed[c][u])
                       = IF u < off + len THEN 1 ELSE 0
  <2> TAKE u \in Units
  <2>1. u \in Int /\ placed[c][u] = IF u < off THEN 1 ELSE 0
    BY <1>1 DEF Units
  <2> QED BY <1>1, <2>1
<1>4. f = g
  BY <1>3
<1>5. f \in [Units -> 0..1]
  OBVIOUS
<1> QED BY <1>2, <1>4, <1>5

LEMMA WorkerPlaceStep ==
    ASSUME WriteInv, NEW c \in Cmds, wk # <<>>, c = wk[1].cmd, WorkerPlace
    PROVE  WriteInv'
<1> DEFINE p == wk[1]
           bytes == tcmd[c].bytes + p.len
           t == [tcmd[c] EXCEPT !.bytes = bytes]
           f == [u \in Units |-> IF u < p.off + p.len THEN 1 ELSE 0]
           accepted == /\ par.seg = 0 \/ p.len <= par.seg
                       /\ bytes <= TransLen
                       /\ bytes = TransLen => p.final
           done == [t EXCEPT !.done = TRUE]
           asks == [t EXCEPT !.r2tFlag = TRUE]
<1>1. /\ tcmd[c].ready /\ tup' = accepted /\ wk' = <<>> /\ par' = par /\ i2t' = i2t
      /\ UNCHANGED iniVars /\ thash' = thash
      /\ accepted =>
           /\ Place(c, p.off, p.len)
           /\ bytes = TransLen => /\ tcmd' = [tcmd EXCEPT ![c] = done]
                                  /\ lunq' = Append(lunq, c) /\ lun' = [lun EXCEPT ![c] = "queued"]
                                  /\ t2i' = t2i
           /\ bytes # TransLen /\ FirstBurstR2T(t) =>
                /\ t2i' = Append(t2i, R2TPdu(c, bytes, TransLen - bytes))
                /\ tcmd' = [tcmd EXCEPT ![c] = asks] /\ lunq' = lunq /\ lun' = lun
           /\ bytes # TransLen /\ ~FirstBurstR2T(t) =>
                /\ t2i' = t2i /\ tcmd' = [tcmd EXCEPT ![c] = t] /\ lunq' = lunq /\ lun' = lun
  BY DEF WorkerPlace
<1>2. /\ Fields /\ par \in Params /\ Asked(c) /\ Responded(c) /\ i2t \in Seq(Pdus)
      /\ TransLen \in Nat \ {0} /\ ImmediateLength \in Nat /\ Burst \in Nat /\ Burst <= TransLen
  BY Command, Wires, Amounts
<1>3. /\ Receiving(c) /\ lun[c] = "none" /\ p.off = tcmd[c].bytes /\ p.len \in Nat \ {0}
      /\ tcmd[c].bytes \in Nat /\ bytes <= TransLen /\ accepted
      /\ Leads(i2t, c, bytes, SentTo(c))
      /\ \A d \in Cmds \ {c} : \A x, y : Leads(Going, d, x, y) => Leads(i2t, d, x, y)
      /\ ~tcmd[c].r2tFlag /\ Burst < TransLen => bytes <= Burst
  BY <1>1, Placeable
<1>4. Going' = i2t /\ tup' = TRUE
  BY <1>1, <1>2, <1>3, FirstGoing DEF Going
<1>5. f \in [Units -> 0..1] /\ placed' = [placed EXCEPT ![c] = f] /\ placed'[c] = f
  <2>1. p.off = tcmd[c].bytes /\ p.len \in Nat /\ Place(c, p.off, p.len)
    BY <1>1, <1>3
  <2>2. f \in [Units -> 0..1] /\ placed' = [placed EXCEPT ![c] = f]
    BY <2>1, PlaceNext
  <2>3. placed'[c] = f
    BY <2>2, TargetFields
  <2> QED BY <2>2, <2>3
<1>6. /\ tcmd[c] \in TRecord /\ t \in TRecord /\ t.bytes = bytes /\ t.ready /\ ~t.done /\ t.status = 0
      /\ t.r2tFlag = tcmd[c].r2tFlag /\ done \in TRecord /\ asks \in TRecord
      /\ done.bytes = bytes /\ done.status = 0 /\ done.done /\ done.r2tFlag = tcmd[c].r2tFlag
      /\ asks.bytes = bytes /\ asks.status = 0 /\ ~asks.done /\ asks.ready /\ asks.r2tFlag
  <2>1. /\ tcmd[c] \in TRecord /\ bytes \in 0..TransLen /\ tcmd[c].ready /\ ~tcmd[c].done
        /\ tcmd[c].status = 0
    BY <1>1, <1>2, <1>3, TargetFields DEF Receiving
  <2> HIDE DEF bytes
  <2>2. /\ t \in TRecord /\ t.bytes = bytes /\ t.ready /\ ~t.done /\ t.status = 0
        /\ t.r2tFlag = tcmd[c].r2tFlag
    BY <2>1 DEF TRecord
  <2> HIDE DEF t
  <2> QED BY <2>1, <2>2 DEF TRecord
<1>7. bytes # TransLen => (FirstBurstR2T(t) <=> ~tcmd[c].r2tFlag /\ bytes >= Burst)
  <2> SUFFICES ASSUME bytes # TransLen
               PROVE  FirstBurstR2T(t) <=> ~tcmd[c].r2tFlag /\ bytes >= Burst
    OBVIOUS
  <2>1. ImmediateLength <= tcmd[c].bytes /\ (tcmd[c].r2tFlag <=> tcmd[c].bytes >= Burst)
    BY <1>3 DEF Receiving
  <2>2. par.initialR2T => Burst = ImmediateLength
    BY DEF Burst
  <2>3. ~par.initialR2T \/ t.r2tFlag
    BY <1>2, <1>3, <1>6, <2>1, <2>2
  <2>4. t.bytes \in Nat /\ t.bytes < TransLen /\ ImmediateLength <= t.bytes
    BY <1>2, <1>3, <1>6, <2>1
  <2> HIDE DEF t
  <2> QED BY <1>2, <1>6, <2>3, <2>4, Rest
<1>8. /\ bytes \in Nat /\ bytes > 0 /\ c \in thash /\ ImmediateLength <= bytes
      /\ (tcmd[c].r2tFlag <=> tcmd[c].bytes >= Burst) /\ bytes >= tcmd[c].bytes
      /\ ~Complete(c)
  BY <1>2, <1>3 DEF Receiving, Complete
<1>9. /\ lun = [lun EXCEPT ![c] = lun[c]] /\ lun[c] \in LunStates
      /\ thash' \in {thash, thash \cup {c}, thash \ {c}}
      /\ tcmd \in [Cmds -> TRecord] /\ lun \in [Cmds -> LunStates]
  BY <1>1, TargetFields
<1>10. /\ TransLen' = TransLen /\ Burst' = Burst /\ ImmediateLength' = ImmediateLength
       /\ Units' = Units
  BY <1>1, SameParameters
<1> HIDE DEF t, done, asks, f, accepted
<1>11. ASSUME NEW n, n \in TRecord, n.bytes = bytes, tcmd' = [tcmd EXCEPT ![c] = n]
       PROVE  tcmd'[c] = n /\ GotTo(c)' = bytes /\ Prefix(c)'
  <2>1. tcmd'[c] = n
    BY <1>9, <1>11
  <2>2. GotTo(c)' = bytes
    BY <1>8, <1>11, <2>1 DEF GotTo
  <2>3. Prefix(c)'
    BY <1>3, <1>5, <1>10, <1>11, <2>1 DEF Prefix, f
  <2> QED BY <2>1, <2>2, <2>3
<1>12. CASE bytes = TransLen
  <2>1. /\ tcmd' = [tcmd EXCEPT ![c] = done] /\ lunq' = Append(lunq, c)
        /\ lun' = [lun EXCEPT ![c] = "queued"] /\ t2i' = t2i
    BY <1>1, <1>3, <1>12
  <2>2. tcmd'[c] = done /\ GotTo(c)' = bytes /\ Prefix(c)' /\ lun'[c] = "queued"
    BY <1>6, <1>9, <1>11, <2>1
  <2>3. tcmd[c].r2tFlag <=> Burst < TransLen
    BY <1>2, <1>3, <1>8, <1>12
  <2>4. Complete(c)'
    BY <1>1, <1>6, <1>8, <1>10, <1>12, <2>2, <2>3 DEF Complete
  <2>5. \A op : Comes(c, op)' <=> Comes(c, op)
    BY <1>1, <2>1 DEF Comes, Coming, iniVars
  <2>6. Asked(c)'
    BY <1>1, <1>2, <1>6, <1>10, <2>2, <2>5 DEF Asked, iniVars
  <2>7. Responded(c)'
    BY <1>1, <1>2, <1>8, <2>5 DEF Responded, iniVars
  <2>8. Target(c)' /\ "queued" \in LunStates /\ lun[c] # "queued"
    BY <1>3, <2>4 DEF Target, LunStates
  <2>9. Leads(Going', c, GotTo(c)', SentTo(c))
    BY <1>3, <1>4, <2>2
  <2>10. \A d \in Cmds \ {c} : \A x, y : Leads(Going, d, x, y) => Leads(Going', d, x, y)
    BY <1>3, <1>4
  <2> QED BY <1>1, <1>2, <1>4, <1>5, <1>6, <1>9, <2>1, <2>2, <2>6, <2>7, <2>8, <2>9, <2>10, FieldStep
<1>13. ASSUME bytes # TransLen, NEW n, n \in TRecord, n.bytes = bytes, n.ready, ~n.done, n.status = 0,
              n.r2tFlag <=> bytes >= Burst,
              tcmd' = [tcmd EXCEPT ![c] = n], lunq' = lunq, lun' = lun,
              t2i' = t2i
                \/ ((\A op : ~Comes(c, op)) /\ \E q \in Answers : q.cmd = c /\ t2i' = Append(t2i, q)),
              Asked(c)', Comes(c, "response")' <=> Comes(c, "response")
       PROVE  WriteInv'
  <2>1. tcmd'[c] = n /\ GotTo(c)' = bytes /\ Prefix(c)' /\ lun'[c] = "none"
    BY <1>3, <1>11, <1>13
  <2>2. Receiving(c)' /\ ~Complete(c)'
    BY <1>1, <1>2, <1>3, <1>8, <1>10, <1>13, <2>1 DEF Receiving, Complete
  <2>3. Responded(c)'
    BY <1>1, <1>2, <1>8, <1>13, <2>2 DEF Responded, iniVars
  <2>4. Target(c)' /\ Leads(Going', c, GotTo(c)', SentTo(c))
    BY <1>3, <1>4, <2>1, <2>2 DEF Target
  <2>5. \A d \in Cmds \ {c} : \A x, y : Leads(Going, d, x, y) => Leads(Going', d, x, y)
    BY <1>3, <1>4
  <2> QED BY <1>1, <1>2, <1>4, <1>5, <1>9, <1>13, <2>1, <2>3, <2>4, <2>5, FieldStep
<1>14. CASE bytes # TransLen /\ FirstBurstR2T(t)
  <2> DEFINE q == R2TPdu(c, bytes, TransLen - bytes)
  <2>1. /\ t2i' = Append(t2i, q) /\ tcmd' = [tcmd EXCEPT ![c] = asks]
        /\ lunq' = lunq /\ lun' = lun
    BY <1>1, <1>3, <1>14
  <2>2. ~tcmd[c].r2tFlag /\ bytes = Burst /\ Burst < TransLen
    BY <1>2, <1>3, <1>7, <1>8, <1>14
  <2>3. \A op : ~Comes(c, op)
    BY <1>8, <2>2, NotAnswered
  <2>4. q \in Answers /\ q.cmd = c /\ q.op = "r2t"
    BY <2>2 DEF Answers, R2TPdus, R2TPdu
  <2>5. \A op : Comes(c, op)' <=> op = "r2t"
    BY <1>1, <1>2, <2>1, <2>3, <2>4, AnswerSent DEF iniVars
  <2>6. icmd[c].r2treq = 0 /\ icmd[c].sent <= Burst /\ icmd[c].sent \in Nat
    BY <1>2, <2>2, Command DEF Asked
  <2>7. tcmd'[c] = asks
    BY <1>6, <1>11, <2>1
  <2>8. Asked(c)'
    BY <1>1, <1>2, <1>6, <1>10, <2>2, <2>5, <2>6, <2>7 DEF Asked, iniVars
  <2>9. asks.r2tFlag <=> bytes >= Burst
    BY <1>2, <1>6, <2>2
  <2>10. Comes(c, "response")' <=> Comes(c, "response")
    BY <2>3, <2>5
  <2>11. (\A op : ~Comes(c, op)) /\ \E r \in Answers : r.cmd = c /\ t2i' = Append(t2i, r)
    BY <2>1, <2>3, <2>4
  <2> QED BY <1>6, <1>13, <1>14, <2>1, <2>8, <2>9, <2>10, <2>11
<1>15. CASE bytes # TransLen /\ ~FirstBurstR2T(t)
  <2>1. t2i' = t2i /\ tcmd' = [tcmd EXCEPT ![c] = t] /\ lunq' = lunq /\ lun' = lun
    BY <1>1, <1>3, <1>15
  <2>2. \A op : Comes(c, op)' <=> Comes(c, op)
    BY <1>1, <2>1 DEF Comes, Coming, iniVars
  <2>3. tcmd'[c] = t
    BY <1>6, <1>11, <2>1
  <2>4. Asked(c)'
    BY <1>1, <1>2, <1>6, <1>10, <2>2, <2>3 DEF Asked, iniVars
  <2>5. t.r2tFlag <=> bytes >= Burst
    BY <1>2, <1>3, <1>6, <1>7, <1>8, <1>15
  <2> QED BY <1>6, <1>13, <1>15, <2>1, <2>2, <2>4, <2>5
<1> QED BY <1>12, <1>14, <1>15

-----------------------------------------------------------------------------
(***************************************************************************)
(* The LUN workers                                                           *)
(***************************************************************************)

\* A step of a LUN worker on command c that answers nothing, or the first answer
LEMMA LunStep ==
    ASSUME WriteInv, par' = par, UNCHANGED iniVars, NEW c \in Cmds, UNCHANGED <<i2t, wk, tup>>,
           t2i' = t2i
             \/ ((\A op : ~Comes(c, op)) /\ \E p \in Answers : p.cmd = c /\ t2i' = Append(t2i, p)),
           NEW t \in TRecord, tcmd' = [tcmd EXCEPT ![c] = t],
           NEW l \in LunStates, lun' = [lun EXCEPT ![c] = l],
           NEW f \in [Units -> 0..1], placed' = [placed EXCEPT ![c] = f],
           thash' \in {thash, thash \cup {c}, thash \ {c}},
           \/ lunq' = lunq /\ (l = "queued" <=> lun[c] = "queued")
           \/ lunq # <<>> /\ lunq' = Tail(lunq) /\ c = Head(lunq) /\ l # "queued",
           Target(c)', Prefix(c)', GotTo(c)' = GotTo(c),
           Asked(c)', Responded(c)'
    PROVE  WriteInv'
<1>1. Fields /\ i2t \in Seq(Pdus) /\ Leads(Going, c, GotTo(c), SentTo(c))
  BY Command, Wires
<1>2. Going' = Going
  BY DEF Going
<1>3. tup' = TRUE /\ (wk' = <<>> \/ (\E p \in DataPdus : wk' = <<p>>))
  BY <1>1 DEF Fields, WireFields
<1>4. Leads(Going', c, GotTo(c)', SentTo(c))
  BY <1>1, <1>2
<1>5. \A d \in Cmds \ {c} : \A x, y : Leads(Going, d, x, y) => Leads(Going', d, x, y)
  BY <1>2
<1> QED BY <1>1, <1>3, <1>4, <1>5, FieldStep

\* The same when it answers nothing and the command stays in the hash, and neither
\* it nor what the target asked for is complete or changed.
LEMMA QuietStep ==
    ASSUME WriteInv, par' = par, UNCHANGED iniVars, NEW c \in Cmds, UNCHANGED <<i2t, wk, tup>>,
           t2i' = t2i, thash' = thash, c \in thash,
           NEW t \in TRecord, tcmd' = [tcmd EXCEPT ![c] = t], t.r2tFlag = tcmd[c].r2tFlag,
           NEW l \in LunStates, lun' = [lun EXCEPT ![c] = l],
           NEW f \in [Units -> 0..1], placed' = [placed EXCEPT ![c] = f],
           \/ lunq' = lunq /\ (l = "queued" <=> lun[c] = "queued")
           \/ lunq # <<>> /\ lunq' = Tail(lunq) /\ c = Head(lunq) /\ l # "queued",
           Target(c)', Prefix(c)', GotTo(c)' = GotTo(c)
    PROVE  WriteInv'
<1>1. Asked(c) /\ Responded(c) /\ tcmd'[c] = t
  BY Command, TargetFields
<1>2. \A op : Comes(c, op)' <=> Comes(c, op)
  BY DEF Comes, Coming, iniVars
<1>3. Asked(c)'
  BY <1>1, <1>2, SameParameters DEF Asked, iniVars
<1>4. Responded(c)'
  BY <1>1, <1>2 DEF Responded, iniVars
<1> QED BY <1>3, <1>4, LunStep

LEMMA LunTakeStep ==
    ASSUME WriteInv, NEW c \in Cmds, lunq # <<>>, c = Head(lunq), LunTake
    PROVE  WriteInv'
<1> DEFINE l == IF tcmd[c].done THEN "report" ELSE "prepare"
<1>1. /\ lun' = [lun EXCEPT ![c] = l] /\ lunq' = Tail(lunq)
      /\ par' = par /\ UNCHANGED iniVars /\ UNCHANGED <<i2t, wk, tup>> /\ t2i' = t2i
      /\ thash' = thash /\ tcmd' = tcmd /\ placed' = placed
  BY DEF LunTake, chanVars
<1>2. lun[c] = "queued"
  BY TargetFields, HasTail
<1>3. Accepted(c) \/ (Complete(c) /\ tcmd[c].done)
  BY <1>2, Command DEF Target, Fresh, Refused, Due, Receiving, Complete
<1>4. c \in thash
  BY <1>2, <1>3 DEF Accepted, Complete
<1>5. /\ tcmd[c] \in TRecord /\ tcmd' = [tcmd EXCEPT ![c] = tcmd[c]] /\ l \in LunStates /\ l # "queued"
      /\ placed[c] \in [Units -> 0..1] /\ placed' = [placed EXCEPT ![c] = placed[c]]
      /\ lun'[c] = l
  BY <1>1, TargetFields DEF LunStates
<1>6. Target(c)'
  <2>1. CASE Accepted(c)
    <3>1. lun'[c] = "prepare"
      BY <1>5, <2>1 DEF Accepted, Quiet
    <3>2. Accepted(c)'
      BY <1>1, <2>1, <3>1, SameParameters DEF Accepted, Quiet
    <3> QED BY <3>2 DEF Target
  <2>2. CASE Complete(c) /\ tcmd[c].done
    <3>1. lun'[c] = "report"
      BY <1>5, <2>2
    <3>2. Complete(c)'
      BY <1>1, <1>4, <2>2, <3>1, SameParameters DEF Complete
    <3> QED BY <3>2 DEF Target
  <2> QED BY <1>3, <2>1, <2>2
<1>7. Prefix(c)' /\ GotTo(c)' = GotTo(c)
  <2>1. Prefix(c)
    BY Command
  <2>2. Prefix(c)'
    BY <1>1, <2>1, SameParameters DEF Prefix
  <2>3. GotTo(c)' = GotTo(c)
    BY <1>1, SameParameters DEF GotTo
  <2> QED BY <2>2, <2>3
<1> HIDE DEF l
<1> QED BY <1>1, <1>4, <1>5, <1>6, <1>7, QuietStep

LEMMA RefuseStep ==
    ASSUME WriteInv, NEW c \in Cmds, PrepareFails(c)
    PROVE  WriteInv'
<1> DEFINE t == [tcmd[c] EXCEPT !.status = 2, !.length = 0]
<1>1. /\ lun[c] = "prepare" /\ tcmd' = [tcmd EXCEPT ![c].status = 2, ![c].length = 0]
      /\ lun' = [lun EXCEPT ![c] = "none"] /\ lunq' = lunq
      /\ par' = par /\ UNCHANGED iniVars /\ UNCHANGED <<i2t, wk, tup>> /\ t2i' = t2i
      /\ thash' = thash /\ placed' = placed
  BY DEF PrepareFails, chanVars
<1>2. Accepted(c) /\ Prefix(c) /\ TransLen \in Nat
  BY <1>1, Command, Amounts DEF Target, Fresh, Refused, Due, Receiving, Complete
<1>3. /\ t \in TRecord /\ t.status = 2 /\ t.bytes = tcmd[c].bytes /\ t.ready = tcmd[c].ready
      /\ t.done = tcmd[c].done /\ t.asked = tcmd[c].asked /\ t.r2tFlag = tcmd[c].r2tFlag
      /\ tcmd' = [tcmd EXCEPT ![c] = t] /\ tcmd'[c] = t
  <2>1. tcmd[c] \in TRecord /\ tcmd \in [Cmds -> TRecord] /\ 0 \in 0..TransLen
    BY <1>2, TargetFields
  <2> QED BY <1>1, <2>1 DEF TRecord
<1> HIDE DEF t
<1>4. /\ placed[c] \in [Units -> 0..1] /\ placed' = [placed EXCEPT ![c] = placed[c]]
      /\ "none" \in LunStates /\ lun'[c] = "none"
  BY <1>1, TargetFields DEF LunStates
<1>5. Refused(c)' /\ c \in thash
  BY <1>1, <1>2, <1>3, <1>4 DEF Accepted, Refused, Quiet
<1>6. Prefix(c)' /\ GotTo(c)' = GotTo(c)
  <2>1. Prefix(c)'
    BY <1>1, <1>2, <1>3, SameParameters DEF Prefix
  <2>2. GotTo(c)' = GotTo(c)
    BY <1>1, <1>3, SameParameters DEF GotTo
  <2> QED BY <2>1, <2>2
<1>7. Target(c)'
  BY <1>5 DEF Target
<1> QED BY <1>1, <1>3, <1>4, <1>5, <1>6, <1>7, QuietStep

LEMMA PrepareStep ==
    ASSUME WriteInv, NEW c \in Cmds, Prepare(c)
    PROVE  WriteInv'
<1> DEFINE n == ImmediateLength
           t == [tcmd[c] EXCEPT !.bytes = n]
           l == IF n = TransLen THEN "report" ELSE IF AsksAtOnce(n) THEN "ask" ELSE "wake"
           f == [u \in Units |-> IF u < 0 + n THEN 1 ELSE 0]
<1>1. lun[c] = "prepare"
  BY DEF Prepare
<1>2. Accepted(c) /\ par \in Params /\ tcmd[c].length = n /\ tcmd[c].bytes = 0 /\ c \in thash
  BY <1>1, Command DEF Target, Fresh, Accepted, Refused, Due, Receiving, Complete
<1>3. /\ Place(c, 0, n) /\ tcmd' = [tcmd EXCEPT ![c] = t]
      /\ lun' = [lun EXCEPT ![c] = l] /\ lunq' = lunq
      /\ par' = par /\ UNCHANGED iniVars /\ UNCHANGED <<i2t, wk, tup>> /\ t2i' = t2i
      /\ thash' = thash
  <2>1. tcmd' = [tcmd EXCEPT ![c].bytes = n]
    BY <1>2 DEF Prepare
  <2>2. tcmd' = [tcmd EXCEPT ![c] = t]
    BY <2>1, TargetFields
  <2> QED BY <1>2, <2>2 DEF Prepare, chanVars
<1>4. /\ n \in Nat /\ Burst \in Nat /\ TransLen \in Nat \ {0} /\ n <= Burst /\ Burst <= TransLen
      /\ n < TransLen => (AsksAtOnce(n) <=> n = Burst)
  BY <1>2, Amounts
<1>5. f \in [Units -> 0..1] /\ placed' = [placed EXCEPT ![c] = f] /\ placed'[c] = f
  <2>1. f \in [Units -> 0..1] /\ placed' = [placed EXCEPT ![c] = f]
    BY <1>2, <1>3, <1>4, PlaceNext
  <2> QED BY <2>1, TargetFields
<1>6. /\ t \in TRecord /\ t.bytes = n /\ ~t.ready /\ ~t.done /\ t.asked = 0 /\ t.status = 0
      /\ ~t.r2tFlag /\ ~tcmd[c].r2tFlag /\ t.r2tFlag = tcmd[c].r2tFlag
  <2>1. tcmd[c] \in TRecord /\ n \in 0..TransLen
    BY <1>4, TargetFields
  <2> HIDE DEF n
  <2> QED BY <1>2, <2>1 DEF TRecord, Accepted, Quiet
<1>7. /\ tcmd'[c] = t /\ lun'[c] = l /\ l \in LunStates /\ l # "queued"
  BY <1>3, TargetFields DEF LunStates
<1>8. TransLen' = TransLen /\ Burst' = Burst /\ ImmediateLength' = n
      /\ (AsksAtOnce(ImmediateLength)' <=> AsksAtOnce(n)) /\ Units' = Units
  BY <1>3, SameParameters
<1> HIDE DEF t, f
<1>9. Target(c)'
  <2>1. CASE n = TransLen
    <3>1. Complete(c)'
      BY <1>2, <1>3, <1>4, <1>6, <1>7, <1>8, <2>1 DEF Complete
    <3> QED BY <3>1 DEF Target
  <2>2. CASE n # TransLen /\ AsksAtOnce(n)
    <3>1. Due(c)'
      BY <1>2, <1>3, <1>4, <1>6, <1>7, <1>8, <2>2 DEF Due, Quiet
    <3> QED BY <3>1 DEF Target
  <2>3. CASE n # TransLen /\ ~AsksAtOnce(n)
    <3>1. n < TransLen /\ ~(n >= Burst)
      BY <1>4, <2>3
    <3>2. Receiving(c)'
      BY <1>2, <1>3, <1>4, <1>6, <1>7, <1>8, <2>3, <3>1 DEF Receiving
    <3> QED BY <3>2 DEF Target
  <2> QED BY <2>1, <2>2, <2>3
<1>10. Prefix(c)' /\ GotTo(c)' = GotTo(c)
  <2>1. Prefix(c)'
    BY <1>4, <1>5, <1>6, <1>7, <1>8 DEF Prefix, f
  <2>2. GotTo(c)' = GotTo(c)
    BY <1>2, <1>3, <1>4, <1>6, <1>7, <1>8 DEF GotTo
  <2> QED BY <2>1, <2>2
<1> HIDE DEF l
<1> QED BY <1>1, <1>2, <1>3, <1>5, <1>6, <1>7, <1>9, <1>10, QuietStep

LEMMA AskStep ==
    ASSUME WriteInv, Fits, NEW c \in Cmds, AskR2T(c)
    PROVE  WriteInv'
<1> DEFINE n == TransLen - Burst
           t == [tcmd[c] EXCEPT !.r2tFlag = TRUE, !.asked = n]
           p == R2TPdu(c, Burst, n)
<1>1. lun[c] = "ask"
  BY DEF AskR2T
<1>2. /\ Due(c) /\ Prefix(c) /\ Asked(c) /\ Responded(c) /\ par \in Params /\ Fields
  BY <1>1, Command DEF Target, Fresh, Accepted, Refused, Receiving, Complete
<1>3. /\ ImmediateLength \in Nat /\ TransLen \in Nat \ {0} /\ par.max \in Nat
      /\ ImmediateLength = Burst /\ Burst < TransLen /\ n <= par.max /\ n \in 0..TransLen
  <2>1. /\ ImmediateLength \in Nat /\ TransLen \in Nat \ {0} /\ par.max \in Nat
        /\ (ImmediateLength < TransLen => (AsksAtOnce(ImmediateLength) <=> ImmediateLength = Burst))
    BY <1>2, Amounts
  <2> QED BY <1>2, <2>1 DEF Due, Fits
<1>4. /\ tcmd[c].bytes = Burst /\ tcmd[c].asked = 0 /\ ~tcmd[c].r2tFlag /\ ~tcmd[c].ready
      /\ ~tcmd[c].done /\ tcmd[c].status = 0 /\ c \in thash
  BY <1>2, <1>3 DEF Due, Quiet
<1>5. /\ t2i' = Append(t2i, p) /\ lun' = [lun EXCEPT ![c] = "wake"]
      /\ tcmd' = [tcmd EXCEPT ![c].r2tFlag = TRUE, ![c].asked = n] /\ lunq' = lunq
      /\ par' = par /\ UNCHANGED iniVars /\ UNCHANGED <<i2t, wk, tup>>
      /\ thash' = thash /\ placed' = placed
  <2>1. tcmd[c].bytes + tcmd[c].asked = Burst /\ Min2(TransLen - Burst, par.max) = n /\ 0 + n = n
        /\ ~(Burst + n < TransLen)
    BY <1>3, <1>4 DEF Min2
  <2>2. tcmd' = [tcmd EXCEPT ![c].r2tFlag = TRUE, ![c].asked = @ + n]
    BY <2>1 DEF AskR2T
  <2>3. tcmd' = [tcmd EXCEPT ![c].r2tFlag = TRUE, ![c].asked = n]
    BY <1>4, <2>1, <2>2
  <2> QED BY <2>1, <2>3 DEF AskR2T
<1>6. /\ t \in TRecord /\ t.bytes = Burst /\ ~t.ready /\ ~t.done /\ t.status = 0 /\ t.r2tFlag
      /\ tcmd' = [tcmd EXCEPT ![c] = t] /\ tcmd'[c] = t
  <2>1. tcmd[c] \in TRecord /\ tcmd \in [Cmds -> TRecord]
    BY TargetFields
  <2> HIDE DEF n
  <2> QED BY <1>3, <1>4, <1>5, <2>1 DEF TRecord
<1>7. /\ placed[c] \in [Units -> 0..1] /\ placed' = [placed EXCEPT ![c] = placed[c]]
      /\ "wake" \in LunStates /\ lun'[c] = "wake"
  BY <1>5, TargetFields DEF LunStates
<1>8. TransLen' = TransLen /\ Burst' = Burst /\ ImmediateLength' = ImmediateLength /\ Units' = Units
  BY <1>5, SameParameters
<1>9. /\ p \in Answers /\ p.cmd = c /\ p.op = "r2t" /\ \A op : ~Comes(c, op)
  <2>1. \A op : ~Comes(c, op)
    BY <1>4, NotAnswered
  <2> QED BY <2>1 DEF Answers, R2TPdus, R2TPdu
<1>10. \A op : Comes(c, op)' <=> op = "r2t"
  BY <1>2, <1>5, <1>9, AnswerSent DEF iniVars
<1> HIDE DEF t, p, n
<1>11. Receiving(c)' /\ ~Complete(c)'
  BY <1>3, <1>4, <1>5, <1>6, <1>7, <1>8 DEF Receiving, Complete
<1>12. Prefix(c)' /\ GotTo(c)' = GotTo(c)
  <2>1. Prefix(c)'
    BY <1>2, <1>4, <1>5, <1>6, <1>8 DEF Prefix
  <2>2. GotTo(c)' = GotTo(c)
    BY <1>4, <1>5, <1>6, <1>8 DEF GotTo
  <2> QED BY <2>1, <2>2
<1>13. Asked(c)'
  <2>1. icmd[c].r2treq = 0 /\ icmd[c].sent <= Burst /\ icmd[c].sent \in Nat
    BY <1>2, <1>3, <1>4, Command DEF Asked
  <2> QED BY <1>3, <1>5, <1>6, <1>8, <1>10, <2>1 DEF Asked, iniVars
<1>14. Responded(c)'
  BY <1>2, <1>4, <1>5, <1>9, <1>10, <1>11 DEF Responded, iniVars
<1>15. Target(c)' /\ lun[c] # "queued"
  BY <1>1, <1>11 DEF Target
<1>16. (\A op : ~Comes(c, op)) /\ \E r \in Answers : r.cmd = c /\ t2i' = Append(t2i, r)
  BY <1>5, <1>9
<1> QED BY <1>5, <1>6, <1>7, <1>12, <1>13, <1>14, <1>15, <1>16, LunStep

LEMMA WakeStep ==
    ASSUME WriteInv, NEW c \in Cmds, WakeWorker(c)
    PROVE  WriteInv'
<1> DEFINE t == [tcmd[c] EXCEPT !.ready = TRUE]
<1>1. /\ lun[c] = "wake" /\ tcmd' = [tcmd EXCEPT ![c].ready = TRUE]
      /\ lun' = [lun EXCEPT ![c] = "none"] /\ lunq' = lunq
      /\ par' = par /\ UNCHANGED iniVars /\ UNCHANGED <<i2t, wk, tup>> /\ t2i' = t2i
      /\ thash' = thash /\ placed' = placed
  BY DEF WakeWorker, chanVars
<1>2. Receiving(c) /\ Prefix(c)
  BY <1>1, Command DEF Target, Fresh, Accepted, Refused, Due, Complete
<1>3. /\ t \in TRecord /\ t.status = tcmd[c].status /\ t.bytes = tcmd[c].bytes /\ t.ready
      /\ t.done = tcmd[c].done /\ t.r2tFlag = tcmd[c].r2tFlag
      /\ tcmd' = [tcmd EXCEPT ![c] = t] /\ tcmd'[c] = t
  <2>1. tcmd[c] \in TRecord /\ tcmd \in [Cmds -> TRecord]
    BY TargetFields
  <2> QED BY <1>1, <2>1 DEF TRecord
<1> HIDE DEF t
<1>4. /\ placed[c] \in [Units -> 0..1] /\ placed' = [placed EXCEPT ![c] = placed[c]]
      /\ "none" \in LunStates /\ lun'[c] = "none"
  BY <1>1, TargetFields DEF LunStates
<1>5. Receiving(c)' /\ c \in thash
  BY <1>1, <1>2, <1>3, <1>4, SameParameters DEF Receiving
<1>6. Prefix(c)' /\ GotTo(c)' = GotTo(c)
  <2>1. Prefix(c)'
    BY <1>1, <1>2, <1>3, SameParameters DEF Prefix
  <2>2. GotTo(c)' = GotTo(c)
    BY <1>1, <1>3, SameParameters DEF GotTo
  <2> QED BY <2>1, <2>2
<1>7. Target(c)'
  BY <1>5 DEF Target
<1> QED BY <1>1, <1>3, <1>4, <1>5, <1>6, <1>7, QuietStep

LEMMA ReportStep ==
    ASSUME WriteInv, NEW c \in Cmds, Report(c)
    PROVE  WriteInv'
<1> DEFINE p == RspPdu(c, tcmd[c].status)
<1>1. /\ lun[c] = "report" /\ t2i' = Append(t2i, p) /\ thash' = thash \ {c}
      /\ lun' = [lun EXCEPT ![c] = "none"] /\ lunq' = lunq
      /\ par' = par /\ UNCHANGED iniVars /\ UNCHANGED <<i2t, wk, tup>>
      /\ tcmd' = tcmd /\ placed' = placed
  BY DEF Report
<1>2. Complete(c) /\ c \in thash /\ Fields /\ Prefix(c) /\ Asked(c) /\ Responded(c)
  BY <1>1, Command DEF Target, Fresh, Accepted, Refused, Due, Receiving, Complete
<1>3. /\ p \in Answers /\ p.cmd = c /\ p.op = "response"
  <2>1. p = RspPdu(c, 0)
    BY <1>2 DEF Complete
  <2> QED BY <2>1 DEF Answers, RspPdus, RspPdu
<1> HIDE DEF p
<1>4. icmd[c].status = "pending" /\ ~(icmd[c].sent < TransLen) /\ GotTo(c) = TransLen
  <2>1. /\ GotTo(c) <= SentTo(c) /\ Initiator(c) /\ TransLen \in Nat \ {0} /\ icmd[c].sent \in Nat
    BY Command, Amounts
  <2>2. ~NotYet(c) /\ ~ToSend(c)
    BY <1>2, Unsent
  <2>3. GotTo(c) = TransLen /\ SentTo(c) = icmd[c].sent
    BY <1>2, <2>1, <2>2 DEF GotTo, SentTo, Complete
  <2>4. icmd[c].status # "good"
    BY <1>2 DEF Responded
  <2> QED BY <2>1, <2>2, <2>3, <2>4 DEF Initiator, Bursting, Answering, AllSent, Good
<1>5. \A op : ~Comes(c, op)
  <2>1. ~Comes(c, "r2t") /\ ~Comes(c, "response")
    BY <1>2, <1>4 DEF Asked, Responded
  <2> QED BY <2>1, OnlyAnswers
<1>6. \A op : Comes(c, op)' <=> op = "response"
  BY <1>1, <1>2, <1>3, <1>5, AnswerSent DEF iniVars
<1>7. /\ tcmd[c] \in TRecord /\ tcmd' = [tcmd EXCEPT ![c] = tcmd[c]]
      /\ placed[c] \in [Units -> 0..1] /\ placed' = [placed EXCEPT ![c] = placed[c]]
      /\ "none" \in LunStates /\ lun'[c] = "none" /\ ~(c \in thash)'
      /\ thash' \in {thash, thash \cup {c}, thash \ {c}}
  BY <1>1, TargetFields DEF LunStates
<1>8. TransLen' = TransLen /\ Burst' = Burst /\ ImmediateLength' = ImmediateLength /\ Units' = Units
  BY <1>1, SameParameters
<1>9. Complete(c)'
  BY <1>1, <1>2, <1>7, <1>8 DEF Complete
<1>10. Prefix(c)' /\ GotTo(c)' = GotTo(c)
  <2>1. TransLen \in Nat \ {0} /\ tcmd[c].bytes = TransLen
    BY <1>2, Command, Amounts DEF Complete
  <2>2. Prefix(c)'
    BY <1>1, <1>2, <1>8 DEF Prefix
  <2>3. GotTo(c)' = TransLen
    BY <1>1, <1>8, <2>1 DEF GotTo
  <2> QED BY <1>4, <2>2, <2>3
<1>11. Asked(c)'
  BY <1>1, <1>2, <1>4, <1>6, <1>8 DEF Asked, iniVars
<1>12. Responded(c)'
  BY <1>1, <1>4, <1>6, <1>7, <1>9 DEF Responded, iniVars
<1>13. (\A op : ~Comes(c, op)) /\ \E r \in Answers : r.cmd = c /\ t2i' = Append(t2i, r)
  BY <1>1, <1>3, <1>5
<1>14. Target(c)' /\ lun[c] # "queued"
  BY <1>1, <1>9 DEF Target
<1> QED BY <1>1, <1>7, <1>10, <1>11, <1>12, <1>13, <1>14, LunStep

-----------------------------------------------------------------------------
(***************************************************************************)
(* Writes                                                                    *)
(***************************************************************************)
LEMMA InitWrite ==
    ASSUME Init
    PROVE  WriteInv
<1>1. /\ par \in Params /\ i2t = <<>> /\ t2i = <<>> /\ txq = <<>> /\ tx = <<>> /\ ihash = {}
      /\ rx = <<>> /\ iup = TRUE /\ thash = {} /\ wk = <<>> /\ lunq = <<>> /\ tup = TRUE
      /\ icmd = [c \in Cmds |-> NewICmd] /\ tcmd = [c \in Cmds |-> NewTCmd]
      /\ lun = [c \in Cmds |-> "none"] /\ placed = [c \in Cmds |-> [u \in Units |-> 0]]
  BY DEF Init
<1>2. TransLen \in Nat \ {0} /\ Burst \in Nat /\ ImmediateLength \in Nat
  BY <1>1, Amounts
<1>3. \A S : <<>> \in Seq(S)
  OBVIOUS
<1>4. \A x : ~Has(<<>>, x)
  BY DEF Has
<1>5. Going = <<>> /\ Coming = <<>>
  BY <1>1 DEF Going, Coming
<1>6. NewICmd \in [sent : Nat, r2treq : 0..1, off : 0..TransLen, len : 0..TransLen,
                   txDone : BOOLEAN, status : {"none", "pending", "good"}]
  BY <1>2 DEF NewICmd
<1>7. NewTCmd \in [length : 0..TransLen, bytes : 0..TransLen, ready : BOOLEAN,
                   r2tFlag : BOOLEAN, done : BOOLEAN, status : Nat, asked : 0..TransLen]
  BY <1>2 DEF NewTCmd
<1>8. Fields
  <2>1. IniFields
    BY <1>1, <1>3, <1>6 DEF IniFields
  <2>2. TgtFields
    BY <1>1, <1>3, <1>7 DEF TgtFields
  <2>3. WireFields
    BY <1>1, <1>3 DEF WireFields
  <2> QED BY <1>1, <2>1, <2>2, <2>3 DEF Fields
<1>9. Queues
  BY <1>1, <1>4, <1>5 DEF Queues, NoRepeat
<1>10. ASSUME NEW c \in Cmds PROVE CmdInv(c)
  <2>1. /\ icmd[c].status = "none" /\ icmd[c].sent = 0 /\ icmd[c].r2treq = 0
        /\ ~tcmd[c].ready /\ ~tcmd[c].done /\ tcmd[c].asked = 0 /\ ~tcmd[c].r2tFlag
        /\ tcmd[c].bytes = 0 /\ tcmd[c].status = 0 /\ lun[c] = "none"
        /\ placed[c] = [u \in Units |-> 0]
    BY <1>1 DEF NewICmd, NewTCmd
  <2>2. NotYet(c)
    BY <1>1, <1>4, <2>1 DEF NotYet, Away, TxAt
  <2>3. Fresh(c) /\ ~Complete(c)
    BY <1>1, <1>2, <2>1 DEF Fresh, Quiet, Complete
  <2>4. Prefix(c)
    BY <1>2, <2>1 DEF Prefix, Units
  <2>5. GotTo(c) = -1 /\ SentTo(c) = -1
    BY <1>1, <2>1, <2>2 DEF GotTo, SentTo
  <2>6. Leads(Going, c, GotTo(c), SentTo(c))
    BY <1>5, <2>5, LeadsEmpty
  <2>7. \A op : ~Comes(c, op)
    BY <1>5 DEF Comes
  <2>8. Asked(c) /\ Responded(c)
    BY <1>2, <2>1, <2>3, <2>7 DEF Asked, Responded
  <2> QED BY <2>2, <2>3, <2>4, <2>6, <2>8 DEF CmdInv, Initiator, Target
<1> QED BY <1>8, <1>9, <1>10 DEF WriteInv

LEMMA UnchangedWrite ==
    ASSUME WriteInv, UNCHANGED vars
    PROVE  WriteInv'
<1>1. Fields /\ Queues /\ UNCHANGED <<par, chanVars, iniVars, tgtVars>>
  BY DEF WriteInv, vars
<1>2. Fields'
  BY <1>1, FieldsKept DEF Fields, chanVars, iniVars, tgtVars
<1>3. Queues'
  BY <1>1 DEF Queues, Has, NoRepeat, Coming, chanVars, iniVars, tgtVars
<1>4. ASSUME NEW c \in Cmds PROVE CmdInv(c)'
  <2>1. SameInitiator(c) /\ SameTarget(c) /\ SameAnswers(c) /\ Going' = Going
    BY <1>1 DEF SameInitiator, SameTarget, SameAnswers, TxAt, Comes, Coming, Going,
                chanVars, iniVars, tgtVars
  <2>2. CmdInv(c) /\ Leads(Going', c, GotTo(c), SentTo(c))
    BY <2>1 DEF WriteInv, CmdInv
  <2> QED BY <1>1, <2>1, <2>2, CmdKept
<1> QED BY <1>2, <1>3, <1>4 DEF WriteInv

LEMMA NextWrite ==
    ASSUME WriteInv, Fits, Next
    PROVE  WriteInv'
<1>1. Fields /\ par.cmds \subseteq Cmds
  BY Amounts DEF WriteInv, Fields
<1>2. ASSUME tx # <<>> PROVE tx[1].cmd \in Cmds
  BY <1>1, <1>2 DEF Fields, IniFields
<1>3. ASSUME rx # <<>> PROVE rx[1].cmd \in Cmds
  <2>1. rx[1] \in Answers
    BY <1>1, <1>3, Wires
  <2> QED BY <2>1, AnswerTypes
<1>4. ASSUME i2t # <<>> PROVE Head(i2t).cmd \in Cmds
  <2>1. Head(i2t) \in Pdus
    BY <1>1, <1>4, Wires, TailFacts
  <2> QED BY <2>1 DEF Pdus, CmdPdus, CmdPdu, DataPdus
<1>5. ASSUME wk # <<>> PROVE wk[1].cmd \in Cmds
  BY <1>1, <1>5, FirstGoing DEF DataPdus
<1>6. CASE \E c \in par.cmds : initiator_enqueue(c)
  BY <1>1, <1>6, EnqueueStep
<1>7. CASE TxTake
  <2>1. txq # <<>> /\ txq \in Seq(Cmds)
    BY <1>1, <1>7 DEF TxTake, Fields, IniFields
  <2>2. Head(txq) \in Cmds
    BY <2>1, TailFacts
  <2> QED BY <1>7, <2>2, TakeStep
<1>8. CASE TxCommand \/ TxUnsolicited \/ TxR2TData \/ TxDone
  <2>1. tx # <<>>
    BY <1>8 DEF TxCommand, TxUnsolicited, TxR2TData, TxDone
  <2> QED BY <1>2, <1>8, <2>1, SendCommandStep, UnsolicitedStep, AnswerStep, DoneStep
<1>9. CASE RxHeader
  BY <1>9, HeaderStep
<1>10. CASE RxR2T \/ RxResponse
  <2>1. rx # <<>>
    BY <1>10 DEF RxR2T, RxResponse, RxReady
  <2> QED BY <1>3, <1>10, <2>1, R2TStep, ResponseStep
<1>11. CASE scsi_command_t \/ WorkerData
  <2>1. i2t # <<>>
    BY <1>11 DEF scsi_command_t, WorkerData
  <2> QED BY <1>4, <1>11, <2>1, TargetCommandStep, WorkerDataStep
<1>12. CASE WorkerPlace
  <2>1. wk # <<>>
    BY <1>12 DEF WorkerPlace
  <2> QED BY <1>5, <1>12, <2>1, WorkerPlaceStep
<1>13. CASE LunTake
  <2>1. lunq # <<>> /\ lunq \in Seq(Cmds)
    BY <1>1, <1>13 DEF LunTake, Fields, TgtFields
  <2>2. Head(lunq) \in Cmds
    BY <2>1, TailFacts
  <2> QED BY <1>13, <2>1, <2>2, LunTakeStep
<1>14. CASE \E c \in Cmds : LunWorker(c)
  BY <1>14, RefuseStep, PrepareStep, AskStep, WakeStep, ReportStep DEF LunWorker
<1> QED BY <1>6, <1>7, <1>8, <1>9, <1>10, <1>11, <1>12, <1>13, <1>14
        DEF Next, TxThread, RxThread, TargetWorker

LEMMA ParametersStay ==
    ASSUME [Next]_vars
    PROVE  par' = par
BY DEF Next, TxThread, RxThread, TargetWorker, LunWorker, initiator_enqueue, TxTake, TxCommand,
       TxUnsolicited, TxR2TData, TxDone, RxHeader, RxR2T, RxResponse, scsi_command_t, WorkerData,
       WorkerPlace, LunTake, PrepareFails, Prepare, AskR2T, WakeWorker, Report, vars

\* With parameters for which one R2T is enough, what is on the way of every write goes
\* from what the target has to what the initiator has sent, at every moment.
THEOREM OnTheWayAlways == Spec => [](Fits => WriteInv)
<1>1. Init => (Fits => WriteInv)
  BY InitWrite
<1>2. (Fits => WriteInv) /\ [Next]_vars => (Fits => WriteInv)'
  <2> SUFFICES ASSUME Fits => WriteInv, [Next]_vars, Fits' PROVE WriteInv'
    OBVIOUS
  <2>1. Fits
    BY ParametersStay, SameParameters
  <2> QED BY <2>1, NextWrite, UnchangedWrite
<1> QED BY <1>1, <1>2, PTL DEF Spec

\* The offsets and amounts that one side computes are those that the other side expects, and
\* the command of a PDU is in the receiver's hash: none of these checks ends a session
\* (scsi_r2t_rx_i, scsi_r2t_tx_i, scsi_response_i, execute_t).  With parameters for which
\* one R2T is enough, for any number of writes of any length.  Tags, sequence numbers and
\* queues that are full are not in the model.
THEOREM WritesMeetNoError == Spec => [](Fits => NoSessionError)
<1>1. ASSUME WriteInv PROVE NoSessionError
  <2>1. Fields /\ Queues /\ IniFields /\ TgtFields /\ TransLen \in Nat
    BY <1>1, Amounts DEF WriteInv, Fields
  <2>2. IsInjective([i \in 1..Len(lunq) |-> lunq[i]])
    BY <2>1 DEF IsInjective, Queues, NoRepeat
  <2>3. Range(txq) \cup ihash \cup thash \cup Range(lunq) \subseteq Cmds
    BY <2>1 DEF Range, IniFields, TgtFields
  <2>4. ASSUME NEW c \in Cmds
        PROVE  /\ icmd[c].sent \in Nat /\ icmd[c].r2treq \in 0..3
               /\ icmd[c].off \in 0..TransLen /\ icmd[c].len \in 0..TransLen
               /\ icmd[c].status \in {"none", "pending", "good", "failed", "check"}
               /\ tcmd[c].bytes \in 0..TransLen /\ tcmd[c].asked \in 0..TransLen
               /\ lun[c] \in {"none", "queued", "prepare", "ask", "wake", "report"}
               /\ placed[c] \in [Units -> 0..2]
    <3>1. icmd[c] \in [sent : Nat, r2treq : 0..1, off : 0..TransLen, len : 0..TransLen,
                       txDone : BOOLEAN, status : {"none", "pending", "good"}]
      BY <2>1 DEF IniFields
    <3>2. placed[c] \in [Units -> 0..1] /\ \A S : [S -> 0..1] \subseteq [S -> 0..2]
      BY <2>1 DEF TgtFields
    <3>3. tcmd[c] \in TRecord /\ lun[c] \in LunStates
      BY <1>1, TargetFields
    <3> QED BY <3>1, <3>2, <3>3 DEF TRecord, LunStates
  <2>5. tx = <<>> \/ (tx[1].cmd \in Cmds /\ tx[1].mode \in Modes)
    BY <2>1 DEF IniFields
  <2> QED BY <2>1, <2>2, <2>3, <2>4, <2>5 DEF NoSessionError, TypeOK, Fields
<1> QED BY <1>1, OnTheWayAlways, PTL

\* A write that the initiator completes as GOOD has each unit of its data placed in
\* the target's buffer once (execute_t, prepare_write): with parameters for which one
\* R2T is enough, for any number of writes of any length.
THEOREM GoodWritesPlaced == Spec => [](Fits => GoodMeansPlaced)
<1>1. ASSUME WriteInv PROVE GoodMeansPlaced
  <2> SUFFICES ASSUME NEW c \in Cmds, icmd[c].status = "good", NEW u \in Units
               PROVE  placed[c][u] = 1
    BY DEF GoodMeansPlaced
  <2>1. Prefix(c) /\ Complete(c) /\ TransLen \in Nat
    BY <1>1, Command, Amounts DEF Responded
  <2>2. u < tcmd[c].bytes
    BY <2>1 DEF Complete, Units
  <2> QED BY <2>1, <2>2 DEF Prefix
<1> QED BY <1>1, OnTheWayAlways, PTL

\* The tx thread is not at a write that the rx thread has completed, and will not come to it:
\* it is not on the tx queue, either (scsi_response_i, iscsi_done_i).
THEOREM CompletedWritesFree == Spec => [](Fits => FreeWhenDone)
<1>1. ASSUME WriteInv PROVE FreeWhenDone
  <2> SUFFICES ASSUME NEW c \in Cmds, icmd[c].status \in {"good", "failed", "check"}
               PROVE  c \notin Range(txq) /\ (tx = <<>> \/ tx[1].cmd # c)
    BY DEF FreeWhenDone
  <2>1. Good(c)
    BY <1>1, Command DEF Initiator, NotYet, ToSend, Bursting, Answering, AllSent, Good
  <2>2. txq \in Seq(Cmds)
    BY <1>1 DEF WriteInv, Fields, IniFields
  <2>3. c \notin Range(txq)
    BY <2>1, <2>2 DEF Good, Away, Has, Range
  <2> QED BY <2>1, <2>3 DEF Good, Away, TxAt
<1> QED BY <1>1, OnTheWayAlways, PTL
=============================================================================
