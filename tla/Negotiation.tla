----------------------------- MODULE Negotiation -----------------------------
(***************************************************************************)
(* The login of an initiator session: the parameter lists of both sides, the *)
(* negotiation of one parameter (parameters.c), CHAP in one or both          *)
(* directions, the login stages, and the discovery session that comes first  *)
(* when no TargetName is configured.                                         *)
(*                                                                           *)
(* A text is the sequence of its key and value pairs.  Numbers are numbers,  *)
(* a response to a challenge is the sequence <<id, password>> in front of    *)
(* what it was computed from (MD5 is taken to be injective), and the random  *)
(* id and challenge of a side are the side's name.  Connections do not break *)
(* here: InitiatorSession has that.                                          *)
(***************************************************************************)
EXTENDS Integers, Sequences, SequencesExt

CONSTANTS
    Numbers,    \* the numbers that a configuration file may hold
    Limit,      \* "valid" of a numerical key at the target
    Default,    \* its default value at both sides
    Others      \* what SendTargets names besides the target logged in to

ASSUME NumbersAssumption == Numbers \subseteq Nat /\ Limit \in Nat /\ Default \in Nat
ASSUME OthersAssumption == "disk" \notin Others

VARIABLES
    conf,   \* the configuration of the initiator: g_target[tid]
    ini,    \* INITIATOR_SESSION_T and the command of the phase it is in
    tgt,    \* TARGET_SESSION_T
    wire    \* the PDU on the connection; NoPdu when there is none

vars == <<conf, ini, tgt, wire>>

Absent == -1
NumKeys == {"MaxRecvDataSegmentLength", "FirstBurstLength", "MaxBurstLength"}
BinKeys == {"InitialR2T", "ImmediateData"}
ChapKeys == {"CHAP_A", "CHAP_I", "CHAP_C", "CHAP_N", "CHAP_R"}
Keys == NumKeys \cup BinKeys \cup ChapKeys \cup
        {"AuthMethod", "InitiatorName", "SessionType", "SendTargets", "TargetName",
         "TargetAddress", "TargetPortalGroupTag"}

Type(k) == CASE k \in NumKeys -> "numerical_z"
             [] k = "InitialR2T" -> "or"
             [] k = "ImmediateData" -> "and"
             [] k \in {"AuthMethod", "CHAP_A"} -> "list"
             [] OTHER -> "declarative"

\* The value lists are as long as the commit makes them: one value.  (DECLARE_MULTI was to
\* append to the list, but the loop that looks for its end stops at the last item, which
\* the next value overwrites.)

Valid(k) == IF k = "CHAP_A" THEN {"5"} ELSE {"CHAP", "None"}
Empty(k) == IF k \in NumKeys THEN 0 ELSE IF k \in {"CHAP_C", "CHAP_R"} THEN <<>> ELSE ""
Dflt(side, k) ==
    CASE k \in NumKeys -> Default
      [] k \in BinKeys -> "Yes"
      [] k = "SessionType" -> "Normal"
      [] k = "TargetPortalGroupTag" -> "1"
      [] k = "AuthMethod" -> IF side = "I" THEN "None" ELSE "CHAP"
      [] k = "CHAP_A" -> IF side = "I" THEN "None" ELSE "5"
      [] k = "InitiatorName" -> IF side = "I" THEN "host" ELSE ""
      [] OTHER -> Empty(k)

param_list_add(side) ==
    [k \in Keys |->
        [tx_offer |-> FALSE, rx_offer |-> FALSE, tx_answer |-> FALSE, rx_answer |-> FALSE,
         offer_tx |-> Empty(k), offer_rx |-> Empty(k), answer_tx |-> Empty(k),
         answer_rx |-> Empty(k), value |-> Dflt(side, k)]]

-----------------------------------------------------------------------------
(***************************************************************************)
(* One parameter                                                             *)
(***************************************************************************)

\* Mutated form: zero is not "no limit".
LowerAlways(a, b) == IF a > b THEN b ELSE a

\* the lower of two numbers, of which zero is none
Lower(a, b) == IF a = 0 THEN b ELSE IF b = 0 \/ a <= b THEN a ELSE b

\* The answer to offer v
AnswerTo(k, v) ==
    CASE Type(k) = "numerical_z" -> Lower(v, Limit)
      [] Type(k) \in {"or", "and"} -> IF v \in {"Yes", "No"} THEN v ELSE "Reject"
      [] Type(k) = "list" -> IF v \in Valid(k) THEN v ELSE "Reject"

\* What an offer and its answer come to
Outcome(k, offer, answer) ==
    CASE Type(k) = "numerical_z" -> Lower(answer, offer)
      [] Type(k) = "or" -> IF "Yes" \in {offer, answer} THEN "Yes" ELSE "No"
      [] Type(k) = "and" -> IF {offer, answer} = {"Yes"} THEN "Yes" ELSE "No"
      [] Type(k) = "list" -> answer

\* The state of a call of param_text_parse: the list, the security cookie (id and chap),
\* AuthResult, the text that is made (out), and the return code; st.ret is what
\* param_parse_security returned last.
Fails(st, rc) == [st EXCEPT !.rc = rc]
Commit(st, k, v) == [st EXCEPT !.p[k].value = v]

\* Mutated form: the one that made the offer takes it for the answer.
AnswerOfOffer(q, outgoing) == IF outgoing THEN q.answer_tx ELSE q.offer_tx

AnswerOf(q, outgoing) == IF outgoing THEN q.answer_tx ELSE q.answer_rx

\* label negotiate of param_text_parse
Negotiate(st, k, outgoing) ==
    LET q == st.p[k]
        offer == IF outgoing THEN q.offer_rx ELSE q.offer_tx
        answer == AnswerOf(q, outgoing)
    IN  CASE Type(k) = "declarative" ->
                 Commit(st, k, IF outgoing THEN q.offer_tx
                               ELSE IF q.rx_offer THEN q.offer_rx ELSE q.answer_rx)
          [] Type(k) \in {"or", "and"} /\ ~outgoing /\ answer \notin {"Yes", "No", "Irrelevant"} ->
                 Fails(st, "warn")
          [] Type(k) = "list" /\ (\/ outgoing /\ (q.tx_offer \/ ~q.tx_answer)
                                  \/ ~outgoing /\ (q.rx_offer \/ ~q.rx_answer)
                                  \/ answer \notin Valid(k) \cup {"None", "Reject"}) ->
                 Fails(st, "failed")
          [] OTHER -> Commit(st, k, Outcome(k, offer, answer))

\* label answer
Answer(st, k) ==
    LET a == AnswerTo(k, st.p[k].offer_rx)
    IN  [st EXCEPT !.p[k].answer_tx = a, !.out = Append(@, <<k, a>>)]

\* An offer (on = TRUE), or a mere text, with the offers of the key forgotten
Add(st, k, v, on) ==
    [st EXCEPT !.p[k].tx_offer = on, !.p[k].rx_offer = FALSE, !.p[k].offer_tx = v,
               !.out = Append(@, <<k, v>>)]

-----------------------------------------------------------------------------
(***************************************************************************)
(* Security                                                                  *)
(***************************************************************************)

\* The names and passwords that a side hands to param_text_parse
Creds(side) ==
    IF side = "I" THEN conf
    ELSE [InitiatorUser |-> "foo", InitiatorPass |-> "bar",
          TargetUser |-> "foo", TargetPass |-> "bar"]

Response(st, password) == <<st.id, password>> \o st.chap

\* A new id and challenge, sent as they are: the other side's answer is an offer of its own
Challenge(st, side) ==
    LET s == Add(Add(st, "CHAP_I", side, FALSE), "CHAP_C", <<side>>, FALSE)
    IN  [s EXCEPT !.id = side, !.chap = <<side>>]

\* Mutated form: a side does not look at the response to its challenge.
ResponseAnyway(st, q, creds) == [st EXCEPT !.ret = 0]

\* CHAP_R: what is expected is computed in the place of the challenge.
CheckResponse(st, q, creds) ==
    LET due == Response(st, IF q.rx_offer THEN creds.InitiatorPass ELSE creds.TargetPass)
        is == IF q.rx_offer THEN q.offer_rx ELSE q.answer_rx
    IN  [st EXCEPT !.chap = due, !.ret = IF is = due THEN 0 ELSE -1]

\* CHAP_C: name and response; the initiator may challenge the target in turn.
RespondToChallenge(st, side, q, creds) ==
    LET asked == [st EXCEPT !.chap = IF q.rx_offer THEN q.offer_rx ELSE q.answer_rx]
        user == IF q.rx_offer THEN creds.InitiatorUser ELSE creds.TargetUser
        resp == Response(asked, IF q.rx_offer THEN creds.InitiatorPass ELSE creds.TargetPass)
        said == Add(Add([asked EXCEPT !.chap = resp, !.ret = 2], "CHAP_N", user, TRUE),
                    "CHAP_R", resp, TRUE)
    IN  IF q.rx_offer /\ creds.TargetUser # "" THEN Challenge(said, side) ELSE said

param_parse_security(st, side, k) ==
    LET q == st.p[k]
        creds == Creds(side)
        Ret(n) == [st EXCEPT !.ret = n]
    IN  CASE k = "AuthMethod" ->
                 IF \/ q.rx_answer /\ q.answer_rx = "None"
                    \/ q.rx_offer /\ q.offer_rx = "None" THEN Ret(0)
                 ELSE IF q.rx_offer THEN Ret(1)
                 ELSE Add(Ret(2), "CHAP_A", "5", TRUE)
          [] k = "CHAP_A" /\ q.rx_offer ->
                 Challenge([Ret(2) EXCEPT !.out = Append(@, <<"CHAP_A", q.offer_rx>>)], side)
          [] k = "CHAP_I" -> [Ret(2) EXCEPT !.id = IF q.rx_offer THEN q.offer_rx ELSE q.answer_rx]
          [] k = "CHAP_C" -> RespondToChallenge(st, side, q, creds)
          [] k = "CHAP_N" ->
                 Ret(IF IF q.rx_answer THEN q.answer_rx = creds.TargetUser
                                       ELSE q.offer_rx = creds.InitiatorUser THEN 2 ELSE -1)
          [] k = "CHAP_R" -> CheckResponse(st, q, creds)
          [] OTHER -> Ret(1)

-----------------------------------------------------------------------------
(***************************************************************************)
(* A text                                                                    *)
(***************************************************************************)
ParseIn(st, side, k, v) ==
    IF st.p[k].tx_offer
    THEN LET s == param_parse_security(
                      [st EXCEPT !.p[k].rx_answer = TRUE, !.p[k].tx_offer = FALSE,
                                 !.p[k].answer_rx = v], side, k)
         IN  IF s.ret < 0 THEN Fails(s, "auth_failed") ELSE Negotiate(s, k, FALSE)
    ELSE LET s == param_parse_security(
                      [st EXCEPT !.p[k].rx_offer = TRUE, !.p[k].offer_rx = v], side, k)
             r == [s EXCEPT !.AuthResult = IF side = "I" \/ s.ret > 0 THEN @
                                           ELSE IF s.ret = 0 THEN "Yes" ELSE "Fail"]
         IN  CASE s.ret > 1 -> r
               [] s.ret < 0 -> Fails(r, "auth_failed")
               [] Type(k) = "declarative" -> Negotiate(r, k, FALSE)
               [] OTHER -> Answer(r, k)

ParseOut(st, k, v) ==
    IF st.p[k].rx_offer
    THEN Negotiate([st EXCEPT !.p[k].tx_answer = TRUE, !.p[k].answer_tx = v], k, TRUE)
    ELSE LET s == [st EXCEPT !.p[k].tx_offer = TRUE, !.p[k].offer_tx = v]
         IN  IF Type(k) = "declarative" THEN Negotiate(s, k, TRUE) ELSE s

Start(x) == [p |-> x.p, id |-> x.id, chap |-> x.chap, AuthResult |-> x.AuthResult,
             out |-> <<>>, rc |-> "ok", ret |-> 1]

\* param_text_parse of what side x (ini or tgt) receives, and of what it sends
Incoming(x, side, text) ==
    FoldLeft(LAMBDA s, t : IF s.rc = "ok" THEN ParseIn(s, side, t[1], t[2]) ELSE s, Start(x), text)
Outgoing(st, text) ==
    FoldLeft(LAMBDA s, t : IF s.rc = "ok" THEN ParseOut(s, t[1], t[2]) ELSE s,
             [st EXCEPT !.rc = "ok"], text)

Parsed(st) == st.rc \in {"ok", "warn"}
Keep(x, st) == [x EXCEPT !.p = st.p, !.id = st.id, !.chap = st.chap, !.AuthResult = st.AuthResult]

set_session_parameters(p) ==
    [max_burst_length |-> p["MaxBurstLength"].value,
     first_burst_length |-> p["FirstBurstLength"].value,
     max_data_seg_length |-> p["MaxRecvDataSegmentLength"].value,
     initial_r2t |-> p["InitialR2T"].value = "Yes",
     immediate_data |-> p["ImmediateData"].value = "Yes"]

NoSess == [max_burst_length |-> 0, first_burst_length |-> 0, max_data_seg_length |-> 0,
           initial_r2t |-> FALSE, immediate_data |-> FALSE]

\* What params_out adds for the operational parameters: those that are configured
OpParams ==
    LET num == SelectSeq(<<"MaxRecvDataSegmentLength", "FirstBurstLength", "MaxBurstLength">>,
                         LAMBDA k : conf.num[k] # Absent)
        bin == SelectSeq(<<"InitialR2T", "ImmediateData">>, LAMBDA k : conf.bin[k] # "")
    IN  [i \in DOMAIN bin |-> <<bin[i], conf.bin[bin[i]]>>] \o
        [i \in DOMAIN num |-> <<num[i], conf.num[num[i]]>>]

\* params_out: names, security mode, session type or operational parameters
ParamsOut(kind) ==
    <<<<"InitiatorName", "host">>>> \o
    CASE kind = "none" -> OpParams
      [] OTHER -> <<<<"AuthMethod", IF conf.InitiatorUser = "" THEN "None" ELSE "CHAP">>,
                    <<"SessionType", kind>>>> \o
                  (IF kind = "Normal" THEN <<<<"TargetName", ini.TargetName>>>> ELSE <<>>)

NoPdu == [op |-> "none"]

-----------------------------------------------------------------------------
(***************************************************************************)
(* The initiator: session worker and rx thread                               *)
(***************************************************************************)
Fail(i) == [i EXCEPT !.phase = "failed"]

\* get_full_feature: a session of either kind begins on a new connection with new lists
\* (session_init_i; at the target worker_proc_t makes its own).
NewSession ==
    LET kind == IF ini.TargetName = "" THEN "Discovery" ELSE "Normal"
        new == [ini EXCEPT !.p = param_list_add("I"), !.id = "", !.chap = <<>>]
    IN  [Keep(new, Outgoing(Start(new), ParamsOut(kind))) EXCEPT
             !.phase = "login", !.discovery = (kind = "Discovery"), !.csg = "security",
             !.nsg = "negotiate", !.transit = TRUE, !.text = ParamsOut(kind), !.CmdSN = 1,
             !.ExpStatSN = 0, !.rounds = 0]

NewTarget(up) ==
    [p |-> param_list_add("T"), id |-> "", chap |-> <<>>, AuthResult |-> "No",
     LoginStarted |-> FALSE, Authenticated |-> FALSE, IsFullFeature |-> FALSE,
     IsLoggedIn |-> FALSE, StatSN |-> 0, ExpCmdSN |-> 0, sess |-> NoSess, up |-> up]

get_full_feature ==
    /\ ini.phase = "begin"
    /\ ini' \in {NewSession}
    /\ tgt' = NewTarget(TRUE)
    /\ UNCHANGED <<conf, wire>>

\* What the tx thread sends
login_command_i ==
    [op |-> "login", csg |-> ini.csg, nsg |-> ini.nsg, transit |-> ini.transit,
     text |-> ini.text, CmdSN |-> ini.CmdSN, ExpStatSN |-> ini.ExpStatSN]
text_command_i(text) ==
    [op |-> "text", text |-> text, CmdSN |-> ini.CmdSN, ExpStatSN |-> ini.ExpStatSN,
     final |-> TRUE]
logout_command_i ==
    [op |-> "logout", CmdSN |-> ini.CmdSN, ExpStatSN |-> ini.ExpStatSN]

\* login_phase_i, one round
login_phase_i ==
    /\ ini.phase = "login" /\ wire = NoPdu
    /\ wire' = login_command_i
    /\ ini' = [ini EXCEPT !.rounds = @ + 1]
    /\ UNCHANGED <<conf, tgt>>

\* The target goes on to the stage after security: now the operational parameters, behind
\* whatever was answered to the text that came with the response
NextStage(i, st) ==
    LET text == st.out \o ParamsOut("none")
        sent == Outgoing(st, text)
    IN  IF ~Parsed(sent) THEN Fail(i)
        ELSE [Keep(i, sent) EXCEPT !.csg = i.nsg, !.nsg = "full", !.text = text]

\* The target stays: the answers to its text, or nothing, in the next round
SameStage(i, st) ==
    LET sent == Outgoing(st, st.out)
    IN  IF st.out = <<>> THEN [i EXCEPT !.text = <<>>]
        ELSE IF ~Parsed(sent) THEN Fail(i)
        ELSE [Keep(i, sent) EXCEPT !.text = st.out,
                  !.nsg = IF st.out[1][1] = "CHAP_N" THEN "negotiate" ELSE @,
                  !.transit = (st.out[1][1] = "CHAP_N" \/ @)]

LoggedIn(i) ==
    IF wire.ExpCmdSN > wire.MaxCmdSN \/ i.p["SessionType"].value \notin {"Normal", "Discovery"}
    THEN Fail(i)
    ELSE [i EXCEPT !.CmdSN = wire.ExpCmdSN, !.phase = "logged_in"]

AfterLoginRsp ==
    LET st == Incoming(ini, "I", wire.text)
        i == [Keep(ini, st) EXCEPT !.ExpStatSN = wire.StatSN + 1]
    IN  IF ~Parsed(st) \/ wire.class # 0 \/ (wire.transit /\ ~ini.transit) THEN Fail(ini)
        ELSE IF ~wire.transit THEN SameStage(i, st)
        ELSE IF wire.nsg = "negotiate" THEN NextStage(i, st)
        ELSE LoggedIn(i)

login_response_i ==
    /\ ini.phase = "login" /\ wire.op = "login_rsp"
    /\ ini' \in {AfterLoginRsp}
    /\ wire' = NoPdu
    /\ UNCHANGED <<conf, tgt>>

full_feature_phase ==
    /\ ini.phase = "logged_in" /\ ~ini.discovery
    /\ ini' = [ini EXCEPT !.phase = "full", !.sess = set_session_parameters(ini.p)]
    /\ UNCHANGED <<conf, tgt, wire>>

\* discovery_phase asks for the targets: one round of full_feature_negotiation_phase_i,
\* since the target's response is final.
AskTargets ==
    /\ ini.phase = "logged_in" /\ ini.discovery
    /\ LET text == <<<<"SendTargets", "All">>>>
       IN  /\ wire' = text_command_i(text)
           /\ ini' = [Keep(ini, Outgoing(Start(ini), text)) EXCEPT !.CmdSN = @ + 1, !.phase = "text"]
    /\ UNCHANGED <<conf, tgt>>

\* Any answer would have to go out in another text command, which the target's final
\* response does not allow.
text_response_i ==
    /\ ini.phase = "text" /\ wire.op = "text_rsp"
    /\ LET st == Incoming(ini, "I", wire.text)
       IN  ini' = IF \/ wire.StatSN # ini.ExpStatSN \/ wire.ExpCmdSN # ini.CmdSN
                     \/ ~Parsed(st) \/ (st.out # <<>> /\ wire.final) THEN Fail(ini)
                  ELSE [Keep(ini, st) EXCEPT !.ExpStatSN = @ + 1, !.phase = "targets"]
    /\ wire' = NoPdu
    /\ UNCHANGED <<conf, tgt>>

\* strstr(TargetName, which), for these names
Matches(name) == conf.which \in {"", name}


\* The place of the name that is taken has an address, unless that is fixed: behind the
\* last name, where the search ends without a match, there is none.
AddressKnown ==
    /\ ini.p["TargetAddress"].value # ""
    /\ conf.fix_address \/ Matches(ini.p["TargetName"].value)

\* discovery_phase takes the first name that has "which" in it, or else the first (there is
\* but one in the list), and the address in the same place, and logs out (logout_phase_i).
ChooseTarget ==
    /\ ini.phase = "targets"
    /\ IF ~AddressKnown THEN ini' = Fail(ini) /\ wire' = wire
       ELSE /\ ini' = [ini EXCEPT !.TargetName = ini.p["TargetName"].value,
                                  !.CmdSN = @ + 1, !.phase = "logout"]
            /\ wire' = logout_command_i
    /\ UNCHANGED <<conf, tgt>>

\* get_full_feature has the session destroyed and made anew, with the name found.
logout_response_i ==
    /\ ini.phase = "logout" /\ wire.op = "logout_rsp"
    /\ ini' = IF wire.StatSN # ini.ExpStatSN \/ wire.ExpCmdSN # ini.CmdSN THEN Fail(ini)
              ELSE [ini EXCEPT !.phase = "begin"]
    /\ wire' = NoPdu
    /\ UNCHANGED <<conf, tgt>>

-----------------------------------------------------------------------------
(***************************************************************************)
(* The target: session worker                                                *)
(***************************************************************************)

\* A response, and the session behind it: one with a class ends it.
LoginRsp(t, class, detail, transit, text, StatSN) ==
    [t |-> [t EXCEPT !.ExpCmdSN = wire.CmdSN, !.up = (class = 0)],
     rsp |-> [op |-> "login_rsp", class |-> class, detail |-> detail, nsg |-> wire.nsg,
              transit |-> transit, text |-> text, StatSN |-> StatSN,
              ExpCmdSN |-> wire.CmdSN, MaxCmdSN |-> wire.CmdSN]]

\* the post conditions of full feature phase
MayEnter(p) ==
    /\ p["InitiatorName"].value # "" /\ p["SessionType"].value # ""
    /\ p["SessionType"].value = "Normal" => p["TargetName"].value = "disk"

\* The text was good; in is its parse.
LoginAnswered(in) ==
    LET text == in.out \o (IF tgt.LoginStarted \/ wire.text = <<>> THEN <<>>
                           ELSE <<<<"TargetPortalGroupTag", "1">>>>)
        sent == Outgoing(in, text)
        security == wire.csg = "security"
        t == [Keep(tgt, sent) EXCEPT !.LoginStarted = TRUE,
                  !.Authenticated = @ \/ (security /\ sent.AuthResult = "Yes")]
        transit == wire.transit /\ ~(security /\ sent.AuthResult = "No")
    IN  IF ~Parsed(sent) THEN [t |-> [tgt EXCEPT !.up = FALSE], rsp |-> [op |-> "closed"]]
        ELSE IF ~(wire.transit /\ wire.nsg = "full")
        THEN LoginRsp(t, 0, 0, transit, text, wire.ExpStatSN)
        ELSE IF ~MayEnter(t.p) THEN LoginRsp(t, 2, 0, transit, <<>>, wire.ExpStatSN)
        ELSE LoginRsp([t EXCEPT !.IsFullFeature = TRUE, !.IsLoggedIn = TRUE, !.StatSN = @ + 2,
                                !.sess = set_session_parameters(t.p)],
                      0, 0, transit, text, t.StatSN + 1)

\* A text that cannot be parsed leaves what was parsed of it in the list.
LoginReply ==
    LET in == Incoming(tgt, "T", wire.text)
    IN  IF Parsed(in) THEN LoginAnswered(in)
        ELSE LoginRsp(Keep(tgt, in), 2, IF in.rc = "auth_failed" THEN 1 ELSE 0, FALSE, <<>>,
                      wire.ExpStatSN)

login_command_t ==
    /\ tgt.up /\ wire.op = "login"
    /\ \E r \in {LoginReply} : tgt' = r.t /\ wire' = r.rsp
    /\ UNCHANGED <<conf, ini>>

Listed == <<"disk">> \o SetToSeq(Others)
SendTargets(p) ==
    IF ~p["SendTargets"].rx_offer THEN <<>>
    ELSE IF p["SessionType"].value # "Discovery" THEN <<<<"SendTargets", "Reject">>>>
    ELSE FlattenSeq([n \in DOMAIN Listed |->
             <<<<"TargetName", Listed[n]>>, <<"TargetAddress", "here">>>>])

TextReply ==
    LET in == Incoming(tgt, "T", wire.text)
        text == in.out \o SendTargets(in.p)
        sent == Outgoing([in EXCEPT !.p["SendTargets"].rx_offer = FALSE], text)
    IN  IF ~Parsed(in) \/ ~Parsed(sent) \/ wire.CmdSN # tgt.ExpCmdSN
        THEN [t |-> [tgt EXCEPT !.up = FALSE], rsp |-> [op |-> "closed"]]
        ELSE [t |-> [Keep(tgt, sent) EXCEPT !.ExpCmdSN = @ + 1, !.StatSN = @ + 1,
                        !.sess = IF tgt.IsFullFeature THEN set_session_parameters(sent.p) ELSE @],
              rsp |-> [op |-> "text_rsp", text |-> text, StatSN |-> tgt.StatSN,
                       ExpCmdSN |-> tgt.ExpCmdSN + 1, final |-> wire.final]]

text_command_t ==
    /\ tgt.up /\ wire.op = "text"
    /\ \E r \in {TextReply} : tgt' = r.t /\ wire' = r.rsp
    /\ UNCHANGED <<conf, ini>>

logout_command_t ==
    /\ tgt.up /\ wire.op = "logout"
    /\ tgt' = [tgt EXCEPT !.StatSN = wire.ExpStatSN, !.ExpCmdSN = @ + 1,
                          !.IsLoggedIn = FALSE, !.up = FALSE]
    /\ wire' = [op |-> "logout_rsp", StatSN |-> wire.ExpStatSN, ExpCmdSN |-> tgt.ExpCmdSN + 1]
    /\ UNCHANGED <<conf, ini>>

-----------------------------------------------------------------------------
Configurations ==
    [InitiatorUser : {"", "foo", "joe"}, InitiatorPass : {"bar", "baz"},
     TargetUser : {"", "foo", "joe"}, TargetPass : {"bar", "baz"},
     TargetName : {"", "disk", "tape"}, which : {"", "disk", "tape"}, fix_address : BOOLEAN,
     num : [NumKeys -> Numbers \cup {Absent}], bin : [BinKeys -> {"", "Yes", "No"}]]

\* Every configuration of the operational parameters for a plain login, and every other
\* configuration with none: the two meet only in the texts.
Plain(c) == /\ c.InitiatorUser = "" /\ c.InitiatorPass = "bar"
            /\ c.TargetUser = "" /\ c.TargetPass = "bar"
NoneConfigured(c) ==
    c.num = [k \in NumKeys |-> Absent] /\ c.bin = [k \in BinKeys |-> ""]

Init ==
    /\ conf \in {c \in Configurations : Plain(c) \/ NoneConfigured(c)}
    /\ ini = [p |-> param_list_add("I"), id |-> "", chap |-> <<>>, AuthResult |-> "",
              phase |-> "begin", discovery |-> FALSE, csg |-> "security", nsg |-> "negotiate",
              transit |-> TRUE, text |-> <<>>, CmdSN |-> 0, ExpStatSN |-> 0, sess |-> NoSess,
              TargetName |-> conf.TargetName, rounds |-> 0]
    /\ tgt = NewTarget(FALSE)
    /\ wire = NoPdu

Next ==
    \/ get_full_feature \/ login_phase_i \/ login_response_i \/ full_feature_phase
    \/ AskTargets \/ text_response_i \/ ChooseTarget \/ logout_response_i
    \/ login_command_t \/ text_command_t \/ logout_command_t

Finished == ini.phase \in {"full", "failed"} /\ UNCHANGED vars

Spec == Init /\ [][Next \/ Finished]_vars

-----------------------------------------------------------------------------
(***************************************************************************)
(* Properties                                                                *)
(***************************************************************************)

\* Both sides keep values of the key's kind, and a number that is left is one of those there
\* are (parameters.c).
TypeOK ==
    /\ ini.phase \in {"begin", "login", "logged_in", "full", "text", "targets", "logout", "failed"}
    /\ \A k \in NumKeys, x \in {ini, tgt} : x.p[k].value \in Numbers \cup {Limit, Default}
    /\ \A k \in BinKeys, x \in {ini, tgt} : x.p[k].value \in {"Yes", "No"}
    /\ ini.p["AuthMethod"].value \in {"None", "CHAP"} /\ tgt.AuthResult \in {"No", "Yes", "Fail"}
    /\ ini.ExpStatSN \in 0..9 /\ tgt.StatSN \in 0..9 /\ ini.CmdSN \in 0..9

\* The types hold, and when the initiator is in full feature phase, the two sides go by the same parameters,
\* though each computed them from its own offers, answers and defaults
\* (set_session_parameters of both).
SameParameters ==
    /\ TypeOK
    /\ ini.phase = "full" => ini.sess = tgt.sess /\ tgt.IsFullFeature /\ tgt.IsLoggedIn

\* They are within what both sides can do: no number is above the target's limit, or the
\* initiator's unless that is zero for none; immediate data only if the initiator does
\* not refuse it, no R2T only if it agreed (label answer, label negotiate).
WithinLimits ==
    ini.phase = "full" =>
        /\ \A k \in NumKeys : conf.num[k] # Absent =>
               /\ tgt.p[k].value <= Limit
               /\ conf.num[k] # 0 => tgt.p[k].value <= conf.num[k]
               /\ conf.num[k] = 0 => tgt.p[k].value = Limit
        /\ conf.bin["ImmediateData"] = "No" => ~tgt.sess.immediate_data
        /\ conf.bin["InitialR2T"] = "Yes" => tgt.sess.initial_r2t

\* A target that has let an initiator with a user name into full feature phase has verified
\* its password, and an initiator that has a name for the target as well, and is in full
\* feature phase, the target's (param_parse_security; "currently we ignore initiator
\* authentication status", parameters.c).
BothProved ==
    conf.InitiatorUser # "" =>
        /\ tgt.IsFullFeature => tgt.Authenticated /\ conf.InitiatorPass = "bar"
        /\ ini.phase = "full" /\ conf.TargetUser # "" =>
               conf.TargetUser = "foo" /\ conf.TargetPass = "bar"

Rightful ==
    /\ conf.InitiatorUser # "" => /\ conf.InitiatorUser = "foo" /\ conf.InitiatorPass = "bar"
                                  /\ conf.TargetUser \in {"", "foo"}
                                  /\ conf.TargetUser # "" => conf.TargetPass = "bar"
    /\ conf.TargetName \in {"", "disk"}
    /\ conf.TargetName = "" => conf.which \in {"", "disk"} \/ conf.fix_address


\* "If <which> is set, then we search through the TargetNames returned by SendTargets until
\* we find a match." (initiator.c, discovery_phase)
WhichIsChosen ==
    ini.phase = "logout" /\ conf.which \in ToSet(Listed) => ini.TargetName = conf.which
=============================================================================
