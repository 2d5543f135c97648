-------------------------- MODULE InitiatorSession --------------------------
(***************************************************************************)
(* One session of the initiator (initiator.c) from the first login through   *)
(* broken connections to the next one: the session manager, the session      *)
(* worker that it starts and stops, the tx and rx threads of a connection,   *)
(* the callers that enqueue commands, and the target as the connection       *)
(* shows it.                                                                 *)
(*                                                                           *)
(* A step of state |= flag is atomic here.  The login is one round.          *)
(* Transfers are not split: a write is a command, one R2T for all its data,  *)
(* the data and the response (WriteTransfer has the rest).                   *)
(***************************************************************************)
EXTENDS Naturals, Sequences, FiniteSets, SequencesExt

CONSTANTS
    Cmds,           \* SCSI commands
    Login,          \* the INITIATOR_CMD_T of login_phase_i
    NoCmd,          \* NULL
    Callers,        \* bound: commands that were accepted and are not completed
    MaxDrops,       \* bound: connections that break or are refused
    Scenes          \* what the callers and the network do, and the size of the queues

ASSUME CmdsAssumption == Login \notin Cmds /\ NoCmd \notin Cmds \cup {Login}
ASSUME BoundsAssumption ==
    /\ Callers \in Nat /\ MaxDrops \in Nat
    /\ Scenes \subseteq [writes : SUBSET Cmds, earlyDrops : BOOLEAN, earlyCalls : BOOLEAN,
                         depth : Nat \ {0}]

Flags == {"started", "initialized", "connected", "logged_in", "full_feature", "error",
          "destroying"}

VARIABLES
    scene,      \* one of Scenes: does not change
    state,      \* g_target[tid].state
    sess,       \* g_target[tid].sess is not NULL
    mgr,        \* session_manager_proc
    sw,         \* session_worker_proc, and whether it is told to stop
    tx,         \* tx_worker_proc_i, its command, and whether it is told to stop
    rx,         \* rx_worker_proc_i, its PDU, and whether it is told to stop
    txq,        \* g_tx_queue[tid]
    tmpq,       \* tmp_queue of session_destroy_i
    hash,       \* commands in g_cmd_hash[tid]
    cmd,        \* INITIATOR_CMD_T; calls counts its callbacks
    conn,       \* the connection: "down", "up", or "shut" for sending
    c2t, t2c,   \* what is on the wire
    thash,      \* writes of which the target's session awaits the data
    tgtUp,      \* the target's process has not exited
    drops       \* connections broken or refused so far

threadVars == <<mgr, sw, tx, rx>>
netVars == <<conn, c2t, t2c, thash, tgtUp, drops>>
cmdVars == <<txq, tmpq, hash, cmd>>
vars == <<scene, state, sess, threadVars, cmdVars, netVars>>

\* The commands that move data to the target; whether connections may break before the
\* session is full feature, and callers do not wait until it is
Writes == scene.writes
EarlyDrops == scene.earlyDrops
EarlyCalls == scene.earlyCalls

\* CONFIG_INITIATOR_QUEUE_DEPTH: iscsi_queue_insert fails on a queue that has so many.
QueueDepth == scene.depth
Full(q) == Len(q) = QueueDepth

NewCmd == [status |-> "none", r2treq |-> 0, sent |-> FALSE, txDone |-> FALSE, calls |-> 0]
Pdu(op, c) == [op |-> op, cmd |-> c]
NoPdu == Pdu("none", NoCmd)

Init ==
    /\ scene \in Scenes
    /\ state = {} /\ sess = FALSE /\ mgr = "loop"
    /\ sw = [pc |-> "exited", stop |-> FALSE]
    /\ tx = [pc |-> "exited", cmd |-> NoCmd, stop |-> FALSE]
    /\ rx = [pc |-> "exited", pdu |-> NoPdu, stop |-> FALSE]
    /\ txq = <<>> /\ tmpq = <<>> /\ hash = {}
    /\ cmd = [c \in Cmds \cup {Login} |-> NewCmd]
    /\ conn = "down" /\ c2t = <<>> /\ t2c = <<>> /\ thash = {} /\ tgtUp = TRUE /\ drops = 0

\* ISCSI_WAKE_ELSE on the tx worker: it goes on without a look at its condition.
Woken(t) == IF t.pc = "blocked" THEN [t EXCEPT !.pc = "take"] ELSE t

\* iscsi_done_i: out of the hash, and the callback
Done(h, c) == h \ {c}
Called(c, status) == [cmd EXCEPT ![c].status = status, ![c].calls = @ + 1]

-----------------------------------------------------------------------------
(***************************************************************************)
(* Callers                                                                   *)
(***************************************************************************)

Ready == "full_feature" \in state /\ state \cap {"error", "destroying"} = {}

\* The commands that their callers wait for
Outstanding == {c \in Cmds : cmd[c].status = "pending"}

\* initiator_enqueue: the tx worker is woken only when the session is ready.  With the
\* queue full the call returns -1 and has done nothing.
initiator_enqueue(c) ==
    /\ cmd[c].status = "none" /\ Cardinality(Outstanding) < Callers
    /\ EarlyCalls \/ Ready
    /\ ~Full(txq)
    /\ cmd' = [cmd EXCEPT ![c] = [NewCmd EXCEPT !.status = "pending"]]
    /\ txq' = Append(txq, c)
    /\ tx' = IF Ready THEN Woken(tx) ELSE tx
    /\ UNCHANGED <<state, sess, mgr, sw, rx, tmpq, hash, netVars>>

-----------------------------------------------------------------------------
(***************************************************************************)
(* The session worker                                                        *)
(***************************************************************************)

SwGoto(pc) == sw' = [sw EXCEPT !.pc = pc]

\* session_init_i: a session, and a tx worker that connects and starts the rx worker
session_init_i ==
    /\ sw.pc = "init"
    /\ sess' = TRUE
    /\ \/ /\ tgtUp
          /\ state' = state \cup {"initialized", "connected"}
          /\ conn' = "up" /\ tx' = [tx EXCEPT !.pc = "check", !.stop = FALSE]
          /\ rx' = [rx EXCEPT !.pc = "read", !.stop = FALSE]
          /\ SwGoto("login")
          /\ UNCHANGED drops
       \/ /\ ~tgtUp \/ (EarlyDrops /\ drops < MaxDrops)
          /\ drops' = IF tgtUp THEN drops + 1 ELSE drops
          /\ state' = state \cup {"initialized", "error"}
          /\ SwGoto("fail")
          /\ UNCHANGED <<conn, tx, rx>>
    /\ UNCHANGED <<mgr, cmdVars, c2t, t2c, thash, tgtUp>>

\* login_phase_i: give up when the session is being destroyed ...
LoginCheck ==
    /\ sw.pc = "login"
    /\ SwGoto(IF "destroying" \in state THEN "fail" ELSE "insert")
    /\ UNCHANGED <<state, sess, mgr, tx, rx, cmdVars, netVars>>

\* ... else give the login command to the tx worker, which is woken all the same when
\* the queue is full and the login is given up
LoginInsert ==
    /\ sw.pc = "insert"
    /\ tx' = Woken(tx)
    /\ IF Full(txq) THEN SwGoto("fail") /\ UNCHANGED <<txq, cmd>>
       ELSE /\ cmd' = [cmd EXCEPT ![Login] = [NewCmd EXCEPT !.status = "pending"]]
            /\ txq' = Append(txq, Login)
            /\ SwGoto("await")
    /\ UNCHANGED <<state, sess, mgr, rx, tmpq, hash, netVars>>

\* ISCSI_WAIT(&wait, cmd->done)
LoginAwait ==
    /\ sw.pc = "await" /\ cmd[Login].status # "pending"
    /\ SwGoto(IF cmd[Login].status = "good" /\ "destroying" \notin state THEN "ready"
              ELSE "fail")
    /\ UNCHANGED <<state, sess, mgr, tx, rx, cmdVars, netVars>>

\* get_full_feature: "session is now ready to accept scsi commands"
get_full_feature ==
    /\ sw.pc = "ready"
    /\ state' = state \cup {"full_feature"}
    /\ SwGoto("wait")
    /\ UNCHANGED <<sess, mgr, tx, rx, cmdVars, netVars>>

\* session_worker_proc: get_full_feature failed
SwFail ==
    /\ sw.pc = "fail"
    /\ state' = state \cup {"error"}
    /\ SwGoto("wait")
    /\ UNCHANGED <<sess, mgr, tx, rx, cmdVars, netVars>>

\* "wait for shutdown signal from manager", who keeps the worker's mutex until
\* session_destroy_i returns
SwExit ==
    /\ sw.pc = "wait" /\ sw.stop /\ mgr \in {"join", "exited"}
    /\ SwGoto("exited")
    /\ UNCHANGED <<state, sess, mgr, tx, rx, cmdVars, netVars>>

-----------------------------------------------------------------------------
(***************************************************************************)
(* The tx worker                                                             *)
(***************************************************************************)

TxGoto(pc) == tx' = [tx EXCEPT !.pc = pc]

TxCheck ==
    /\ tx.pc = "check"
    /\ TxGoto(IF tx.stop \/ txq # <<>> THEN "take" ELSE "blocked")
    /\ UNCHANGED <<state, sess, mgr, sw, rx, cmdVars, netVars>>

TxNothing ==
    /\ tx.pc = "take" /\ (tx.stop \/ txq = <<>>)
    /\ TxGoto(IF tx.stop THEN "stopRx" ELSE "check")
    /\ UNCHANGED <<state, sess, mgr, sw, rx, cmdVars, netVars>>

\* QUEUE_REMOVE_ELSE: the tx worker has the command, and no queue does.
TxRemove ==
    /\ tx.pc = "take" /\ ~tx.stop /\ txq # <<>>
    /\ txq' = Tail(txq)
    /\ tx' = [tx EXCEPT !.pc = "hold", !.cmd = Head(txq)]
    /\ UNCHANGED <<state, sess, mgr, sw, rx, tmpq, hash, cmd, netVars>>

TooEarly == tx.cmd # Login /\ "full_feature" \notin state

\* Mutated form: the command is dropped until the session is full feature.
TxPutBackForgets ==
    /\ tx.pc = "hold" /\ TooEarly
    /\ tx' = [tx EXCEPT !.pc = "check", !.cmd = NoCmd]
    /\ UNCHANGED <<state, sess, mgr, sw, rx, cmdVars, netVars>>

\* "only process certain commands until we go full feature": the command goes back,
\* unless the queue has become full.  Then the thread fails and nothing knows it.
TxPutBack ==
    /\ tx.pc = "hold" /\ TooEarly
    /\ \/ /\ ~Full(txq)
          /\ txq' = Append(txq, tx.cmd)
          /\ tx' = [tx EXCEPT !.pc = "check", !.cmd = NoCmd]
          /\ UNCHANGED state
       \/ /\ Full(txq)
          /\ state' = state \cup {"error"}
          /\ tx' = [tx EXCEPT !.pc = "stopRx", !.cmd = NoCmd]
          /\ UNCHANGED txq
    /\ UNCHANGED <<sess, mgr, sw, rx, tmpq, hash, cmd, netVars>>

\* Into the hash unless there, then executed; a command that is sent for the first
\* time must not have moved data.
TxTake ==
    /\ tx.pc = "hold" /\ ~TooEarly
    /\ LET c == tx.cmd
           fails == cmd[c].r2treq = 0 /\ cmd[c].sent
       IN /\ hash' = hash \cup {c}
          /\ cmd' = [cmd EXCEPT ![c].txDone = FALSE]
          /\ TxGoto(IF fails THEN "stopRx" ELSE "send")
          /\ state' = IF fails THEN state \cup {"error"} ELSE state
    /\ UNCHANGED <<sess, mgr, sw, rx, txq, tmpq, netVars>>

\* Send a login, a command, or the data that an R2T asks for.
TxSend ==
    /\ tx.pc = "send"
    /\ LET c == tx.cmd
           op == IF c = Login THEN "login" ELSE IF cmd[c].r2treq > 0 THEN "data" ELSE "command"
       IN IF conn = "up"
          THEN /\ c2t' = Append(c2t, Pdu(op, c))
               /\ cmd' = [cmd EXCEPT ![c].sent = (op = "data")]
               /\ TxGoto("done")
               /\ UNCHANGED state
          ELSE /\ state' = state \cup {"error"}
               /\ TxGoto("stopRx")
               /\ UNCHANGED <<c2t, cmd>>
    /\ UNCHANGED <<sess, mgr, sw, rx, txq, tmpq, hash, conn, t2c, thash, tgtUp, drops>>

\* Mutated form: r2t_request-- after a command, too.
TxDoneCounts ==
    /\ tx.pc = "done"
    /\ cmd' = [cmd EXCEPT ![tx.cmd].txDone = TRUE, ![tx.cmd].r2treq = @ - 1]
    /\ tx' = [tx EXCEPT !.pc = "check", !.cmd = NoCmd]
    /\ UNCHANGED <<state, sess, mgr, sw, rx, txq, tmpq, hash, netVars>>

\* r2t_request-- after data; then tx_done = 1 lets the rx worker go on.
TxDone ==
    /\ tx.pc = "done"
    /\ cmd' = [cmd EXCEPT ![tx.cmd].txDone = TRUE,
                          ![tx.cmd].r2treq = IF cmd[tx.cmd].sent THEN @ - 1 ELSE @]
    /\ tx' = [tx EXCEPT !.pc = "check", !.cmd = NoCmd]
    /\ UNCHANGED <<state, sess, mgr, sw, rx, txq, tmpq, hash, netVars>>

\* STOP_WORKER_ELSE(sess->rx_worker, shutdown of the receiving side)
TxStopRx ==
    /\ tx.pc = "stopRx"
    /\ rx' = [rx EXCEPT !.stop = TRUE]
    /\ tx' = [tx EXCEPT !.pc = "joinRx", !.cmd = NoCmd]
    /\ UNCHANGED <<state, sess, mgr, sw, cmdVars, netVars>>

\* Mutated form: the rx worker is told to stop and not waited for.
TxExitAtOnce ==
    /\ tx.pc = "joinRx"
    /\ TxGoto("exited")
    /\ UNCHANGED <<state, sess, mgr, sw, rx, cmdVars, netVars>>

TxExit ==
    /\ tx.pc = "joinRx" /\ rx.pc = "exited"
    /\ TxGoto("exited")
    /\ UNCHANGED <<state, sess, mgr, sw, rx, cmdVars, netVars>>

-----------------------------------------------------------------------------
(***************************************************************************)
(* The rx worker                                                             *)
(***************************************************************************)

\* Read a header and find its command; the end of the connection, a command that is
\* not in the hash, and the signal to stop all end the thread.
RxRead ==
    /\ rx.pc = "read"
    /\ t2c # <<>> \/ conn = "down" \/ rx.stop
    /\ LET known == t2c # <<>> /\ Head(t2c).cmd \in hash IN
         /\ t2c' = IF t2c # <<>> THEN Tail(t2c) ELSE t2c
         /\ rx' = IF known /\ ~rx.stop THEN [rx EXCEPT !.pc = "wait", !.pdu = Head(t2c)]
                  ELSE [rx EXCEPT !.pc = "exited"]
         /\ state' = IF known THEN state ELSE state \cup {"error"}
    /\ UNCHANGED <<sess, mgr, sw, tx, cmdVars, conn, c2t, thash, tgtUp, drops>>

\* ISCSI_WAIT(&sess->rx_worker.wq, cmd->tx_done): the signal to stop ends it, too.
RxAnswers(op, pc) ==
    /\ rx.pc = "wait" /\ rx.pdu.op = op
    /\ cmd[rx.pdu.cmd].txDone \/ rx.stop
    /\ rx' = [rx EXCEPT !.pc = pc, !.pdu = NoPdu]

\* login_response_i of the last round
login_response_i ==
    /\ RxAnswers("login_response", "read")
    /\ state' = state \cup {"logged_in"}
    /\ cmd' = Called(Login, "good")
    /\ hash' = Done(hash, Login)
    /\ UNCHANGED <<sess, mgr, sw, tx, txq, tmpq, netVars>>

\* Mutated form: the command is completed and stays in the hash.
scsi_response_stays ==
    /\ RxAnswers("response", "read")
    /\ cmd' = Called(rx.pdu.cmd, "good")
    /\ UNCHANGED <<state, sess, mgr, sw, tx, txq, tmpq, hash, netVars>>

\* scsi_response_i
scsi_response_i ==
    /\ RxAnswers("response", "read")
    /\ cmd' = Called(rx.pdu.cmd, "good")
    /\ hash' = Done(hash, rx.pdu.cmd)
    /\ UNCHANGED <<state, sess, mgr, sw, tx, txq, tmpq, netVars>>

\* scsi_r2t_rx_i, for the R2T that reaches the end of the data: out of the hash, then
\* into the tx queue, or the thread fails and nothing knows the command.  The tx worker
\* is woken all the same.
scsi_r2t_rx_i ==
    /\ RxAnswers("r2t", IF Full(txq) THEN "exited" ELSE "read")
    /\ LET c == rx.pdu.cmd IN
         /\ cmd' = [cmd EXCEPT ![c].r2treq = @ + 1]
         /\ hash' = hash \ {c}
         /\ IF Full(txq) THEN state' = state \cup {"error"} /\ UNCHANGED txq
            ELSE txq' = Append(txq, c) /\ UNCHANGED state
    /\ tx' = Woken(tx)
    /\ UNCHANGED <<sess, mgr, sw, tmpq, netVars>>

-----------------------------------------------------------------------------
(***************************************************************************)
(* The session manager, and session_destroy_i that it calls                  *)
(***************************************************************************)

\* One look at the session: start a session worker, or stop the one of a session in
\* error, which starts with session_destroy_i.
MgrStart ==
    /\ mgr = "loop" /\ "error" \notin state /\ "started" \notin state
    /\ state' = state \cup {"started"}
    /\ sw' = [pc |-> "init", stop |-> FALSE]
    /\ UNCHANGED <<sess, mgr, tx, rx, cmdVars, netVars>>

MgrDestroy ==
    /\ mgr = "loop" /\ "error" \in state
    /\ sw' = [sw EXCEPT !.stop = TRUE]
    /\ IF sess THEN mgr' = "stopTx" /\ state' = state \cup {"destroying"}
       ELSE mgr' = "join" /\ UNCHANGED state
    /\ UNCHANGED <<sess, tx, rx, cmdVars, netVars>>

\* Mutated form: the tx worker is told to stop and not woken.
MgrStopTxAsleep ==
    /\ mgr = "stopTx"
    /\ mgr' = "joinTx"
    /\ tx' = [tx EXCEPT !.stop = TRUE]
    /\ conn' = IF conn = "up" THEN "shut" ELSE conn
    /\ UNCHANGED <<state, sess, sw, rx, cmdVars, c2t, t2c, thash, tgtUp, drops>>

\* STOP_WORKER_ELSE(sess->tx_worker, shutdown of the sending side)
MgrStopTx ==
    /\ mgr = "stopTx"
    /\ mgr' = "joinTx"
    /\ tx' = [Woken(tx) EXCEPT !.stop = TRUE]
    /\ conn' = IF conn = "up" THEN "shut" ELSE conn
    /\ UNCHANGED <<state, sess, sw, rx, cmdVars, c2t, t2c, thash, tgtUp, drops>>

MgrJoinTx ==
    /\ mgr = "joinTx" /\ tx.pc = "exited"
    /\ mgr' = "drain"
    /\ UNCHANGED <<state, sess, sw, tx, rx, cmdVars, netVars>>

\* "look through the tx queue for commands to abort": a login is; the rest goes to the
\* temporary queue, or the manager's thread ends with the command in hand.
MgrDrain ==
    /\ mgr = "drain" /\ txq # <<>>
    /\ txq' = Tail(txq)
    /\ IF Head(txq) = Login
       THEN /\ cmd' = Called(Login, "aborted")
            /\ hash' = Done(hash, Login)
            /\ UNCHANGED <<mgr, tmpq>>
       ELSE /\ IF Full(tmpq) THEN mgr' = "exited" /\ UNCHANGED tmpq
               ELSE tmpq' = Append(tmpq, Head(txq)) /\ UNCHANGED mgr
            /\ UNCHANGED <<hash, cmd>>
    /\ UNCHANGED <<state, sess, sw, tx, rx, netVars>>

MgrDrained ==
    /\ mgr = "drain" /\ txq = <<>>
    /\ mgr' = "refill"
    /\ UNCHANGED <<state, sess, sw, tx, rx, cmdVars, netVars>>

\* From the temporary queue back, behind what callers have inserted meanwhile
MgrRefill ==
    /\ mgr = "refill" /\ tmpq # <<>>
    /\ tmpq' = Tail(tmpq)
    /\ IF Full(txq) THEN mgr' = "exited" /\ UNCHANGED txq
       ELSE txq' = Append(txq, Head(tmpq)) /\ UNCHANGED mgr
    /\ UNCHANGED <<state, sess, sw, tx, rx, hash, cmd, netVars>>

MgrRefilled ==
    /\ mgr = "refill" /\ tmpq = <<>>
    /\ mgr' = "requeue"
    /\ UNCHANGED <<state, sess, sw, tx, rx, cmdVars, netVars>>

Reset(c) == [cmd EXCEPT ![c] = [NewCmd EXCEPT !.status = "pending", !.calls = cmd[c].calls]]

\* Mutated form: the command of the hash is not put on the tx queue.
MgrRequeueForgets(c) ==
    /\ mgr = "requeue" /\ c \in hash
    /\ hash' = hash \ {c}
    /\ cmd' = IF c = Login THEN Called(Login, "aborted") ELSE Reset(c)
    /\ UNCHANGED <<state, sess, mgr, sw, tx, rx, txq, tmpq, netVars>>

\* "requeue any SCSI commands": the fields of a command in the hash are reset.  With the
\* tx queue full the manager's thread ends with the command in hand.
MgrRequeue(c) ==
    /\ mgr = "requeue" /\ c \in hash
    /\ hash' = hash \ {c}
    /\ IF c = Login
       THEN cmd' = Called(Login, "aborted") /\ UNCHANGED <<mgr, txq>>
       ELSE /\ cmd' = Reset(c)
            /\ IF Full(txq) THEN mgr' = "exited" /\ UNCHANGED txq
               ELSE txq' = Append(txq, c) /\ UNCHANGED mgr
    /\ UNCHANGED <<state, sess, sw, tx, rx, tmpq, netVars>>

\* Close the socket; the session goes back to g_session_q; "clear state".
MgrClose ==
    /\ mgr = "requeue" /\ hash = {}
    /\ conn' = "down" /\ c2t' = <<>> /\ t2c' = <<>> /\ thash' = {}
    /\ state' = {} /\ sess' = FALSE
    /\ mgr' = "join"
    /\ UNCHANGED <<sw, tx, rx, cmdVars, tgtUp, drops>>

\* The session worker has exited; g_target[i].state = 0
MgrJoin ==
    /\ mgr = "join" /\ sw.pc = "exited"
    /\ state' = {}
    /\ mgr' = "loop"
    /\ UNCHANGED <<sess, sw, tx, rx, cmdVars, netVars>>

-----------------------------------------------------------------------------
(***************************************************************************)
(* The connection and the target's session (execute_t in target.c)           *)
(***************************************************************************)

Answer(op, c) == t2c' = Append(t2c, Pdu(op, c))

\* A login, or a command: a write is answered with an R2T, anything else executed.
TargetCommand ==
    /\ tgtUp /\ c2t # <<>> /\ Head(c2t).op \in {"login", "command"}
    /\ c2t' = Tail(c2t)
    /\ LET c == Head(c2t).cmd IN
         IF Head(c2t).op = "login" THEN Answer("login_response", c) /\ UNCHANGED thash
         ELSE IF c \in Writes THEN Answer("r2t", c) /\ thash' = thash \cup {c}
         ELSE Answer("response", c) /\ UNCHANGED thash
    /\ UNCHANGED <<state, sess, threadVars, cmdVars, conn, tgtUp, drops>>

\* Data for a command that this session has, or exit(1)
TargetData ==
    /\ tgtUp /\ c2t # <<>> /\ Head(c2t).op = "data"
    /\ LET c == Head(c2t).cmd IN
         IF c \in thash
         THEN /\ c2t' = Tail(c2t)
              /\ thash' = thash \ {c}
              /\ Answer("response", c)
              /\ UNCHANGED <<conn, tgtUp>>
         ELSE /\ tgtUp' = FALSE /\ conn' = "down"
              /\ c2t' = <<>> /\ t2c' = <<>> /\ thash' = {}
    /\ UNCHANGED <<state, sess, threadVars, cmdVars, drops>>

\* The connection breaks, with what is on the wire.
Drop ==
    /\ conn = "up" /\ drops < MaxDrops
    /\ EarlyDrops \/ "full_feature" \in state
    /\ drops' = drops + 1
    /\ conn' = "down" /\ c2t' = <<>> /\ t2c' = <<>> /\ thash' = {}
    /\ UNCHANGED <<state, sess, threadVars, cmdVars, tgtUp>>

-----------------------------------------------------------------------------

Manager ==
    \/ MgrStart \/ MgrDestroy \/ MgrStopTx \/ MgrJoinTx
    \/ MgrDrain \/ MgrDrained \/ MgrRefill \/ MgrRefilled
    \/ \E c \in Cmds \cup {Login} : MgrRequeue(c)
    \/ MgrClose \/ MgrJoin
SessionWorker ==
    session_init_i \/ LoginCheck \/ LoginInsert \/ LoginAwait \/ get_full_feature
    \/ SwFail \/ SwExit
TxWorker ==
    \/ TxCheck \/ TxNothing \/ TxRemove \/ TxPutBack \/ TxTake \/ TxSend \/ TxDone
    \/ TxStopRx \/ TxExit
RxWorker == RxRead \/ login_response_i \/ scsi_response_i \/ scsi_r2t_rx_i
Target == TargetCommand \/ TargetData

Step(action) == action /\ UNCHANGED scene

Next ==
    Step(\/ \E c \in Cmds : initiator_enqueue(c)
         \/ Manager \/ SessionWorker \/ TxWorker \/ RxWorker \/ Target \/ Drop)

\* The threads run and the target answers; callers need not call, and connections
\* need not break.
Fairness ==
    /\ WF_vars(Step(Manager)) /\ WF_vars(Step(SessionWorker))
    /\ WF_vars(Step(TxWorker)) /\ WF_vars(Step(RxWorker)) /\ WF_vars(Step(Target))

Spec == Init /\ [][Next]_vars /\ Fairness

-----------------------------------------------------------------------------

TypeOK ==
    /\ scene \in Scenes
    /\ state \subseteq Flags /\ sess \in BOOLEAN
    /\ mgr \in {"loop", "stopTx", "joinTx", "drain", "refill", "requeue", "join", "exited"}
    /\ sw.pc \in {"init", "login", "insert", "await", "ready", "fail", "wait", "exited"}
    /\ tx.pc \in {"check", "blocked", "take", "hold", "send", "done", "stopRx", "joinRx",
                  "exited"}
    /\ tx.cmd \in Cmds \cup {Login, NoCmd}
    /\ rx.pc \in {"read", "wait", "exited"}
    /\ Range(txq) \cup Range(tmpq) \cup hash \subseteq Cmds \cup {Login}
    /\ \A c \in Cmds \cup {Login} :
         /\ cmd[c].status \in {"none", "pending", "good", "aborted"}
         /\ cmd[c].r2treq \in 0..1
    /\ conn \in {"down", "up", "shut"} /\ drops \in 0..MaxDrops

\* The queues hold more than callers have outstanding: there is room for the login, too.
\* (They hold 64.  A caller of initiator_command has one outstanding; the kernel's driver
\* lets 64, its can_queue, and then a command can be lost.)
Room == Callers < QueueDepth

\* Where a command is that a thread or the next session finds
InHand == IF tx.pc = "hold" THEN {tx.cmd} ELSE {}
Known == Range(txq) \cup Range(tmpq) \cup hash \cup InHand

\* With room in the queues, an accepted command that is not completed is on the tx queue,
\* in the hash, or in a thread's hands on the way there, whatever connections break in
\* between, and the manager that requeues it has not ended: the session that comes next
\* finds the command.
NothingLost == Room => Outstanding \subseteq Known /\ mgr # "exited"

\* A command is completed once, and then neither a queue nor the hash nor the tx
\* worker knows it any more: its owner may free it, also when sessions or insertions
\* fail.
DoneIsForgotten ==
    \A c \in Cmds :
        /\ cmd[c].calls <= 1
        /\ cmd[c].status = "good" => c \notin Known /\ tx.cmd # c

\* While the manager drains and requeues, after it freed the session, and after it gave
\* up, neither thread of the connection is alive.
ThreadsStopped ==
    mgr \in {"drain", "refill", "requeue", "join", "exited"} =>
        tx.pc = "exited" /\ rx.pc = "exited"

\* The initiator never sends data to a session of the target that does not have the
\* command: that makes the target's process exit.
TargetSurvives == tgtUp

\* Connections break in full feature phase only, callers wait for it and read, and there
\* is room.  (Of the other scenes the two properties that follow do not hold.)
Calm == Writes = {} /\ ~EarlyDrops /\ ~EarlyCalls /\ Room

\* "The session manager ... creates a session worker to keep each on alive": a session
\* in error is followed by one that is full feature.
SessionKeptAlive == Calm /\ "error" \in state ~> sess /\ Ready

\* An accepted command is completed in the end.
CommandsComplete == \A c \in Cmds : Calm /\ cmd[c].status = "pending" ~> cmd[c].status = "good"
=============================================================================
