----------------------------- MODULE PduFormats -----------------------------
(***************************************************************************)
(* The 48-byte headers of iscsi.c: what each encap function stores, in the   *)
(* order of its stores, what the decap function of the same PDU reads and    *)
(* which octets it refuses, and the macros of iscsi.h with which a receiver  *)
(* looks at a header before it knows the PDU.                                *)
(*                                                                           *)
(* A value is the sequence of its octets, most significant first.  A header  *)
(* is one as well, on the wire (the conversions HTONL and NTOHL cancel).     *)
(***************************************************************************)
EXTENDS Integers, Sequences, SequencesExt

CONSTANT Bases      \* octets of which the values of the fields are made

ASSUME BasesAssumption == Bases \subseteq 0..239 \cup {255}

VARIABLES
    pdu,        \* the encap function that is called
    val,        \* the structure it is given
    header,     \* what it makes of it
    itt,        \* ISCSI_ITT(header), by which the receiver finds the command
    got,        \* the structure that the decap function fills in
    rc          \* what it returns; "none" before

vars == <<pdu, val, header, itt, got, rc>>

-----------------------------------------------------------------------------
(***************************************************************************)
(* Fields                                                                    *)
(***************************************************************************)

\* n octets of field f at octet "at"; stored only when field "when" is not zero
WordIf(when, f, at, n) == [f |-> f, at |-> at, n |-> n, w |-> 0, r |-> 0, when |-> when]
Word(f, at, n) == WordIf("", f, at, n)

\* f modulo r in the bits of octet "at" from weight w on
BitsIf(when, f, at, w, r) == [f |-> f, at |-> at, n |-> 1, w |-> w, r |-> r, when |-> when]
Bits(f, at, w, r) == BitsIf("", f, at, w, r)
Flag(f, at, w) == Bits(f, at, w, 2)

\* Octet k from the end of v
Octet(v, k) == IF k <= Len(v) THEN v[Len(v) + 1 - k] ELSE 0
SameValue(v, w) == \A k \in 1..8 : Octet(v, k) = Octet(w, k)
IsZero(v) == \A k \in DOMAIN v : v[k] = 0

\* v + 1 and v - 1, as the uint64_t isid has them
Plus1(v) == [i \in DOMAIN v |-> IF \A j \in i+1..Len(v) : v[j] = 255 THEN (v[i] + 1) % 256 ELSE v[i]]
Minus1(v) == [i \in DOMAIN v |-> IF \A j \in i+1..Len(v) : v[j] = 0 THEN (v[i] - 1) % 256 ELSE v[i]]

\* One store; a header's octet h[i+1] is header[i] of the code.
Put(h, p, v) ==
    IF p.when # "" /\ IsZero(v[p.when]) THEN h
    ELSE IF p.w > 0
         THEN [h EXCEPT ![p.at + 1] = @ + (Octet(v[p.f], 1) % p.r) * p.w]
         ELSE [i \in 1..48 |-> IF i \in p.at + 1 .. p.at + p.n
                               THEN Octet(v[p.f], p.at + p.n + 1 - i) ELSE h[i]]

Get(h, p) == IF p.w > 0 THEN <<(h[p.at + 1] \div p.w) % p.r>> ELSE SubSeq(h, p.at + 1, p.at + p.n)

\* what several PDUs have in common
CmdSNs == <<Word("CmdSN", 24, 4), Word("ExpStatSN", 28, 4)>>
StatSNs == <<Word("StatSN", 24, 4), Word("ExpCmdSN", 28, 4), Word("MaxCmdSN", 32, 4)>>
TagInOctet20 == <<Word("tag", 20, 4)>>   \* mutated form: in the place of the other tag
Tag == <<Word("tag", 16, 4)>>
Tags == Tag \o <<Word("transfer_tag", 20, 4)>>
Lun == <<Word("lun", 9, 1)>>
Length24 == <<Word("zero", 4, 1), Word("length", 5, 3)>>     \* HTONL(length & 0x00ffffff)
Length32 == <<Word("length", 4, 4)>>

\* A PDU: opcode, what octet 1 has from the start, the stores, the loads, the octets and
\* the groups of bits <<at, weight, range>> that the decap function wants to be zero
Format(op, one, puts, gets, zero, zbits) ==
    [op |-> op, one |-> one, puts |-> puts, gets |-> gets, zero |-> zero, zbits |-> zbits]
Low7 == <<1, 1, 128>>
Low6 == <<1, 1, 64>>

-----------------------------------------------------------------------------
(***************************************************************************)
(* From the initiator to the target                                          *)
(***************************************************************************)

nop_out == Format(0, 128,
    <<Flag("immediate", 0, 64)>> \o Length24 \o Lun \o Tags \o CmdSNs,
    <<Flag("immediate", 0, 64)>> \o Length32 \o Lun \o Tags \o CmdSNs,
    {2, 3, 4, 8} \cup 32..47, {Low7})

text_cmd == Format(4, 0,
    <<Flag("immediate", 0, 64), Flag("final", 1, 128), Flag("cont", 1, 64)>>
        \o Length24 \o Lun \o Tags \o CmdSNs,
    <<Flag("immediate", 0, 64), Flag("final", 1, 128), Flag("cont", 1, 64)>>
        \o Length32 \o Lun \o Tags \o CmdSNs,
    {2, 3, 4} \cup 8..15 \cup 32..47, {})

Stages == <<Flag("transit", 1, 128), Flag("cont", 1, 64), Bits("csg", 1, 4, 4)>>

\* Mutated form: the ISID, eight octets of which are stored, comes after the length.
login_cmd_puts_late ==
    Stages \o <<Bits("nsg", 1, 1, 4), Word("version_max", 2, 1), Word("version_min", 3, 1)>>
    \o Length24 \o <<Word("AHSlength", 4, 1), Word("isid", 6, 8), Word("tsih", 14, 2)>>
    \o Tag \o <<Word("cid", 20, 2)>> \o CmdSNs

\* The ISID is stored as eight octets, of which the length overwrites two.
login_cmd_puts ==
    Stages \o <<Bits("nsg", 1, 1, 4), Word("version_max", 2, 1), Word("version_min", 3, 1)>>
    \o <<Word("isid", 6, 8)>> \o Length24 \o <<Word("AHSlength", 4, 1), Word("tsih", 14, 2)>>
    \o Tag \o <<Word("cid", 20, 2)>> \o CmdSNs

login_cmd == Format(3, 0, login_cmd_puts,
    Stages \o <<Bits("nsg", 1, 1, 4), Word("version_max", 2, 1), Word("version_min", 3, 1)>>
        \o <<Word("AHSlength", 4, 1)>> \o Length32 \o <<Word("isid", 8, 6), Word("tsih", 14, 2)>>
        \o Tag \o <<Word("cid", 20, 2)>> \o CmdSNs,
    {22, 23} \cup 32..47, {<<1, 16, 4>>})

logout_cmd == Format(6, 128,
    <<Flag("immediate", 0, 64), Bits("reason", 1, 1, 128)>> \o Tag \o <<Word("cid", 20, 2)>>
        \o CmdSNs,
    <<Flag("immediate", 0, 64), Bits("reason", 1, 1, 128)>> \o Tag \o <<Word("cid", 20, 2)>>
        \o CmdSNs,
    2..15 \cup 32..47, {<<0, 128, 2>>})

ScsiFlags == <<Flag("immediate", 0, 64), Flag("final", 1, 128), Flag("fromdev", 1, 64),
               Flag("todev", 1, 32), Bits("attr", 1, 1, 8)>>

scsi_cmd == Format(1, 0,
    ScsiFlags \o Length32 \o <<Word("ahs_len", 4, 1)>> \o Lun \o Tag \o <<Word("trans_len", 20, 4)>>
        \o CmdSNs \o <<Word("cdb", 32, 16)>>,
    ScsiFlags \o <<Word("ahs_len", 4, 1), Word("length", 5, 3)>> \o Lun \o Tag
        \o <<Word("trans_len", 20, 4)>> \o CmdSNs \o <<Word("cdb", 32, 16)>>,
    {2, 3, 8}, {<<1, 8, 4>>})

write_data == Format(5, 0,
    <<Flag("final", 1, 128)>> \o Length32 \o Lun \o Tags
        \o <<Word("ExpStatSN", 28, 4), Word("DataSN", 36, 4), Word("offset", 40, 4)>>,
    <<Flag("final", 1, 128)>> \o Length32 \o Lun \o Tags
        \o <<Word("ExpStatSN", 28, 4), Word("DataSN", 36, 4), Word("offset", 40, 4)>>,
    {2, 3, 4, 8} \cup 24..27 \cup 32..35 \cup 44..47, {Low7})

-----------------------------------------------------------------------------
(***************************************************************************)
(* From the target to the initiator                                          *)
(***************************************************************************)

nop_in == Format(32, 128,
    Length24 \o Lun \o Tags \o StatSNs,
    Length32 \o Lun \o Tags \o StatSNs,
    {2, 3, 4, 8} \cup 36..47, {Low7, <<0, 64, 4>>})

text_rsp == Format(36, 0,
    <<Flag("final", 1, 128), Flag("cont", 1, 64)>> \o Length24 \o Lun \o Tags \o StatSNs,
    <<Flag("final", 1, 128), Flag("cont", 1, 64)>> \o Length32 \o Lun \o Tags \o StatSNs,
    {2, 3, 4} \cup 8..15 \cup 36..47, {Low6})

login_rsp == Format(35, 0,
    Stages \o <<BitsIf("transit", "nsg", 1, 1, 4), Word("version_max", 2, 1)>>
        \o <<Word("version_active", 3, 1), Word("zero", 6, 2), Word("isid", 8, 6)>>
        \o Length24 \o <<Word("AHSlength", 4, 1), Word("tsih", 14, 2)>> \o Tag \o StatSNs
        \o <<Word("status_class", 36, 1), Word("status_detail", 37, 1)>>,
    Stages \o <<Bits("nsg", 1, 1, 4), Word("version_max", 2, 1), Word("version_active", 3, 1)>>
        \o <<Word("AHSlength", 4, 1)>> \o Length32 \o <<Word("isid", 8, 6), Word("tsih", 14, 2)>>
        \o Tag \o StatSNs \o <<Word("status_class", 36, 1), Word("status_detail", 37, 1)>>,
    20..23 \cup {38, 39} \cup 40..47, {<<1, 16, 4>>})

\* Each is stored as four octets of which the last two are zero.
Times == <<Word("Time2Wait", 40, 2), Word("zero", 42, 2),
           Word("Time2Retain", 42, 2), Word("zero", 44, 2)>>

logout_rsp == Format(38, 128,
    <<Word("response", 2, 1)>> \o Length32 \o Tag \o StatSNs \o Times,
    <<Word("response", 2, 1)>> \o Length32 \o Tag \o StatSNs
        \o <<Word("Time2Wait", 40, 2), Word("Time2Retain", 42, 2)>>,
    {3} \cup 4..15 \cup 20..23 \cup 36..39 \cup 44..47, {})

RspFlags == <<Flag("bidi_overflow", 1, 16), Flag("bidi_underflow", 1, 8),
              Flag("overflow", 1, 4), Flag("underflow", 1, 2)>>
RspCounts == <<Word("ExpDataSN", 36, 4), Word("bidi_res_cnt", 40, 4), Word("basic_res_cnt", 44, 4)>>

scsi_rsp == Format(33, 128,
    RspFlags \o <<Word("response", 2, 1), Word("status", 3, 1)>> \o Length32
        \o <<Word("ahs_len", 4, 1)>> \o Tag \o StatSNs \o RspCounts,
    RspFlags \o <<Word("response", 2, 1), Word("status", 3, 1)>> \o Length32
        \o <<Word("ahs_len", 4, 1)>> \o Tag \o StatSNs \o RspCounts,
    40..43, {<<1, 4, 8>>})

r2t == Format(49, 128,
    <<Word("zero", 4, 1), Word("AHSlength", 5, 3)>> \o Lun \o Tags \o StatSNs
        \o <<Word("R2TSN", 36, 4), Word("offset", 40, 4), Word("length", 44, 4)>>,
    <<Word("AHSlength", 4, 4)>> \o Lun \o Tags \o StatSNs
        \o <<Word("R2TSN", 36, 4), Word("offset", 40, 4), Word("length", 44, 4)>>,
    2..15, {Low7})

ReadFlags == <<Flag("final", 1, 128), Flag("ack", 1, 64), Flag("overflow", 1, 4),
               Flag("underflow", 1, 2), Flag("S_bit", 1, 1)>>

\* Status, StatSN and residual are there only in the PDU that ends a read.
read_data == Format(37, 0,
    ReadFlags \o <<WordIf("S_bit", "status", 3, 1)>> \o Length32 \o Lun \o Tags
        \o <<WordIf("S_bit", "StatSN", 24, 4)>> \o Tail(StatSNs)
        \o <<Word("DataSN", 36, 4), Word("offset", 40, 4), WordIf("S_bit", "res_count", 44, 4)>>,
    ReadFlags \o <<Word("status", 3, 1)>> \o Length32 \o Lun \o Tags \o StatSNs
        \o <<Word("DataSN", 36, 4), Word("offset", 40, 4), Word("res_count", 44, 4)>>,
    {2, 4} \cup 8..15, {<<0, 64, 4>>, <<1, 8, 8>>})

reject == Format(63, 128,
    <<Word("reason", 2, 1)>> \o Length32 \o StatSNs \o <<Word("DataSN", 36, 4)>>,
    <<Word("reason", 2, 1)>> \o Length32 \o StatSNs \o <<Word("DataSN", 36, 4)>>,
    {3, 4} \cup 8..15 \cup 20..23 \cup 40..47, {<<0, 64, 4>>, Low7})

-----------------------------------------------------------------------------
(***************************************************************************)
(* The exchange of one PDU                                                   *)
(***************************************************************************)

FormatOf == [nop_out |-> nop_out, text_cmd |-> text_cmd, login_cmd |-> login_cmd,
             logout_cmd |-> logout_cmd, scsi_cmd |-> scsi_cmd, write_data |-> write_data,
             nop_in |-> nop_in, text_rsp |-> text_rsp, login_rsp |-> login_rsp,
             logout_rsp |-> logout_rsp, scsi_rsp |-> scsi_rsp, r2t |-> r2t,
             read_data |-> read_data, reject |-> reject]
Pdus == DOMAIN FormatOf
Loads(p) == ToSet(FormatOf[p].gets)
Fields(p) == {g.f : g \in Loads(p)}
LoadOf(p, f) == CHOOSE g \in Loads(p) : g.f = f

\* What no sender of the program sets, and decap functions mostly refuse
LeftZero == [text_cmd |-> {"lun"}, text_rsp |-> {"lun"}, read_data |-> {"lun"},
             r2t |-> {"lun", "AHSlength"}, login_cmd |-> {"AHSlength"}, logout_rsp |-> {"length"},
             login_rsp |-> {"AHSlength"},
             scsi_rsp |-> {"ahs_len", "bidi_overflow", "bidi_underflow", "overflow", "bidi_res_cnt"}]
Unset(p, f) == p \in DOMAIN LeftZero /\ f \in LeftZero[p]

\* A value of field f made of the octet b: bits are cut to their range, a length is less
\* than 2^24, a LUN one octet, an ISID the index of a target
Value(p, f, b) ==
    LET g == LoadOf(p, f)
        zeros == IF f = "length" /\ p # "r2t" /\ g.n = 4 THEN 1 ELSE 0
    IN IF Unset(p, f) THEN <<0>>
       ELSE IF g.r > 0 THEN <<b % g.r>>
       ELSE IF f = "isid" THEN <<0, 0, 0, 0, 0, b>>
       ELSE [i \in 1..g.n |-> IF i <= zeros THEN 0 ELSE IF b \in {0, 255} THEN b ELSE b + i]

\* "Byte 1" of a login: the stages that login_phase_i and login_response_i send
LoginStages(v) == ~IsZero(v.transit) => v.csg[1] < v.nsg[1] /\ v.nsg[1] \in {1, 3}

\* All fields have base values but one, which takes another.
Structures(p) ==
    {[f \in Fields(p) \cup {"zero"} |->
        IF f = "zero" THEN <<0>> ELSE Value(p, f, IF f = centre THEN b ELSE a)] :
     a \in Bases, b \in Bases, centre \in Fields(p)}

Init ==
    /\ pdu \in Pdus
    /\ val \in {v \in Structures(pdu) : pdu \in {"login_cmd", "login_rsp"} => LoginStages(v)}
    /\ header = [i \in 1..48 |-> 0]
    /\ itt = <<>> /\ got = <<>> /\ rc = "none"

\* Mutated form: the ISID goes out as it is.
PreparedNot(p, v) == v

\* The structure with which the stores begin: login_cmd_encap counts the ISID up.
Prepared(p, v) == IF p = "login_cmd" THEN [v EXCEPT !.isid = Plus1(@)] ELSE v

\* memset, opcode and octet 1, and then the stores one after the other
Blank(p) ==
    [i \in 1..48 |-> IF i = 1 THEN FormatOf[p].op + (IF p = "login_cmd" THEN 64 ELSE 0)
                     ELSE IF i = 2 THEN FormatOf[p].one ELSE 0]
Stored(p, v) ==
    LET puts == FormatOf[p].puts
        after[k \in 0..Len(puts)] == IF k = 0 THEN Blank(p) ELSE Put(after[k - 1], puts[k], v)
    IN  after[Len(puts)]

\* The encap function
Encap ==
    /\ rc = "none" /\ itt = <<>>
    /\ header' = Stored(pdu, Prepared(pdu, val))
    /\ itt' = SubSeq(header', 17, 20)
    /\ UNCHANGED <<pdu, val, got, rc>>

\* RETURN_NOT_EQUAL of the decap functions
Refused(fmt, h) ==
    \/ \E k \in fmt.zero : h[k + 1] # 0
    \/ \E b \in fmt.zbits : (h[b[1] + 1] \div b[2]) % b[3] # 0

Filled(p, h) ==
    LET g == [f \in Fields(p) |-> Get(h, LoadOf(p, f))]
    IN IF p = "login_rsp" THEN [g EXCEPT !.isid = Minus1(@)] ELSE g

\* The decap function that the opcode calls for
Decap ==
    /\ rc = "none" /\ itt # <<>>
    /\ \E p \in Pdus :
         /\ header[1] % 64 = FormatOf[p].op
         /\ got' = Filled(p, header)
         /\ rc' = IF \/ Refused(FormatOf[p], header)
                     \/ p = "login_cmd" /\ ~LoginStages(got')
                  THEN "refused" ELSE "ok"
    /\ UNCHANGED <<pdu, val, header, itt>>

\* A login is answered by one with the same ISID, tag and stage (login_command_t).
Answer ==
    /\ rc = "ok" /\ pdu = "login_cmd"
    /\ pdu' = "login_rsp"
    /\ val' = [f \in Fields("login_rsp") \cup {"zero"} |->
                 CASE f \in {"isid", "tag", "csg", "nsg", "transit", "cid"} -> got[f]
                   [] OTHER -> <<0>>]
    /\ header' = [i \in 1..48 |-> 0]
    /\ itt' = <<>> /\ rc' = "none"
    /\ UNCHANGED got

Next == Encap \/ Decap \/ Answer

Spec == Init /\ [][Next]_vars

-----------------------------------------------------------------------------

\* A header has 48 octets.
TypeOK == /\ header \in [1..48 -> 0..255]
          /\ rc \in {"none", "ok", "refused"} /\ pdu \in Pdus

\* What there is of field f on the wire: nothing when all its stores are left out
Sent(p, v, f) ==
    LET when == {q.when : q \in {r \in ToSet(FormatOf[p].puts) : r.f = f}}
    IN IF \E w \in when \ {""} : IsZero(v[w]) THEN <<0>> ELSE v[f]

\* A structure that a sender of the program fills in passes the checks on reserved
\* octets of the receiver's decap function, so that no field reaches into another's octets
\* (iscsi.c, RETURN_NOT_EQUAL), and every field arrives with the value it was given,
\* whatever the others hold; a field of the last read PDU only with the S bit, a next
\* stage only with the transit bit.
FieldsArrive ==
    /\ TypeOK
    /\ rc # "refused"
    /\ rc = "ok" => \A f \in Fields(pdu) :
         LET sent == Sent(pdu, Prepared(pdu, val), f)
         IN SameValue(got[f], IF pdu = "login_rsp" /\ f = "isid" THEN Minus1(sent) ELSE sent)

\* The tag by which rx_worker_proc_i finds the command before it knows the PDU is the tag
\* that the sender has put there (initiator.c:1782).
TagFound == itt # <<>> /\ "tag" \in Fields(pdu) => SameValue(itt, val.tag)

\* A login response brings back the ISID of the command, although the command goes out
\* with ISID + 1 and the response comes in with ISID - 1 (initiator.c:2299 checks it).
IsidComesBack == [][Answer => SameValue(Minus1(val'.isid), val.isid)]_vars
=============================================================================
