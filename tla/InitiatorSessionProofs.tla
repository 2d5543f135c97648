----------------------- MODULE InitiatorSessionProofs -----------------------
(***************************************************************************)
(* Proofs about InitiatorSession for any number of commands, any bound on    *)
(* those outstanding and on broken connections, any size of the queues and   *)
(* any scene.                                                                *)
(***************************************************************************)
EXTENDS InitiatorSession, Integers, SequenceTheorems, FiniteSetTheorems, TLAPS

\* The threads' records have their fields.
Threads ==
    /\ sw = [pc |-> sw.pc, stop |-> sw.stop]
    /\ tx = [pc |-> tx.pc, cmd |-> tx.cmd, stop |-> tx.stop]
    /\ rx = [pc |-> rx.pc, pdu |-> rx.pdu, stop |-> rx.stop]

\* Who may be running: the rx worker only under a tx worker, the tx worker only in a
\* session, and a session only from the start of a session worker to the end of
\* session_destroy_i.
Life ==
    /\ tx.pc = "exited" => rx.pc = "exited"
    /\ sess = FALSE => tx.pc = "exited"
    /\ mgr \in {"drain", "refill", "requeue", "join", "exited"} => tx.pc = "exited"
    /\ mgr = "join" => sess = FALSE
    /\ mgr = "loop" /\ "started" \notin state => sw.pc = "exited" /\ sess = FALSE
    /\ sw.pc = "init" => mgr = "loop" /\ "error" \notin state /\ sess = FALSE

ThreadInv == sess \in BOOLEAN /\ Threads /\ Life

-----------------------------------------------------------------------------

\* Nothing runs before the manager starts the first session worker.
LEMMA ThreadInit == Init => ThreadInv
<1> SUFFICES ASSUME Init PROVE ThreadInv
  OBVIOUS
<1>1. sess = FALSE /\ mgr = "loop" /\ state = {}
  BY DEF Init
<1>2. Threads /\ sw.pc = "exited" /\ tx.pc = "exited" /\ rx.pc = "exited"
  BY DEF Init, Threads
<1> QED BY <1>1, <1>2 DEF ThreadInv, Life

\* Each step of the manager keeps the order of life of the threads.
LEMMA ManagerKeepsThreads == ThreadInv /\ Manager => ThreadInv'
<1> SUFFICES ASSUME ThreadInv, Manager PROVE ThreadInv'
  OBVIOUS
<1> USE DEF ThreadInv, Threads, Life, cmdVars, netVars
<1>1. CASE MgrStart
  BY <1>1 DEF MgrStart
<1>2. CASE MgrDestroy
  BY <1>2 DEF MgrDestroy
<1>3. CASE MgrStopTx
  BY <1>3 DEF MgrStopTx, Woken
<1>4. CASE MgrJoinTx
  BY <1>4 DEF MgrJoinTx
<1>5. CASE MgrDrain \/ MgrDrained \/ MgrRefill \/ MgrRefilled
  BY <1>5 DEF MgrDrain, MgrDrained, MgrRefill, MgrRefilled, Done
<1>6. CASE \E c \in Cmds \cup {Login} : MgrRequeue(c)
  BY <1>6 DEF MgrRequeue
<1>7. CASE MgrClose
  BY <1>7 DEF MgrClose
<1>8. CASE MgrJoin
  BY <1>8 DEF MgrJoin
<1> QED BY <1>1, <1>2, <1>3, <1>4, <1>5, <1>6, <1>7, <1>8 DEF Manager

\* The session worker starts the threads of a connection when there are none.
LEMMA SessionWorkerKeepsThreads == ThreadInv /\ SessionWorker => ThreadInv'
<1> SUFFICES ASSUME ThreadInv, SessionWorker PROVE ThreadInv'
  OBVIOUS
<1> USE DEF ThreadInv, Threads, Life, cmdVars, netVars, SwGoto
<1>1. CASE session_init_i
  BY <1>1 DEF session_init_i
<1>2. CASE LoginCheck
  BY <1>2 DEF LoginCheck
<1>3. CASE LoginInsert
  BY <1>3 DEF LoginInsert, Woken
<1>4. CASE LoginAwait
  BY <1>4 DEF LoginAwait
<1>5. CASE get_full_feature
  BY <1>5 DEF get_full_feature
<1>6. CASE SwFail
  BY <1>6 DEF SwFail
<1>7. CASE SwExit
  BY <1>7 DEF SwExit
<1> QED BY <1>1, <1>2, <1>3, <1>4, <1>5, <1>6, <1>7 DEF SessionWorker

\* The tx worker exits after the rx worker.
LEMMA TxWorkerKeepsThreads == ThreadInv /\ TxWorker => ThreadInv'
<1> SUFFICES ASSUME ThreadInv, TxWorker PROVE ThreadInv'
  OBVIOUS
<1> USE DEF ThreadInv, Threads, Life, cmdVars, netVars, TxGoto
<1>1. CASE TxCheck
  BY <1>1 DEF TxCheck
<1>2. CASE TxNothing
  BY <1>2 DEF TxNothing
<1>3. CASE TxRemove \/ TxPutBack
  BY <1>3 DEF TxRemove, TxPutBack
<1>4. CASE TxTake
  BY <1>4 DEF TxTake
<1>5. CASE TxSend
  BY <1>5 DEF TxSend
<1>6. CASE TxDone
  BY <1>6 DEF TxDone
<1>7. CASE TxStopRx
  BY <1>7 DEF TxStopRx
<1>8. CASE TxExit
  BY <1>8 DEF TxExit
<1> QED BY <1>1, <1>2, <1>3, <1>4, <1>5, <1>6, <1>7, <1>8 DEF TxWorker

\* The rx worker only ends itself.
LEMMA RxWorkerKeepsThreads == ThreadInv /\ RxWorker => ThreadInv'
<1> SUFFICES ASSUME ThreadInv, RxWorker PROVE ThreadInv'
  OBVIOUS
<1> USE DEF ThreadInv, Threads, Life, cmdVars, netVars, RxAnswers
<1>1. CASE RxRead
  BY <1>1 DEF RxRead
<1>2. CASE login_response_i
  BY <1>2 DEF login_response_i
<1>3. CASE scsi_response_i
  BY <1>3 DEF scsi_response_i
<1>4. CASE scsi_r2t_rx_i
  BY <1>4 DEF scsi_r2t_rx_i, Woken
<1> QED BY <1>1, <1>2, <1>3, <1>4 DEF RxWorker

\* Callers wake the tx worker at most; the network and the target touch no thread.
LEMMA OthersKeepThreads ==
    ThreadInv /\ ((\E c \in Cmds : initiator_enqueue(c)) \/ Target \/ Drop) => ThreadInv'
<1> SUFFICES ASSUME ThreadInv, (\E c \in Cmds : initiator_enqueue(c)) \/ Target \/ Drop
             PROVE ThreadInv'
  OBVIOUS
<1> USE DEF ThreadInv, Threads, Life
<1>1. CASE \E c \in Cmds : initiator_enqueue(c)
  BY <1>1 DEF initiator_enqueue, Woken
<1>2. CASE TargetCommand \/ TargetData \/ Drop
  BY <1>2 DEF TargetCommand, TargetData, Drop, threadVars
<1> QED BY <1>1, <1>2 DEF Target

\* The manager drains the tx queue and requeues the hash, and the session worker is
\* told so, only when both threads of the connection have exited, and neither runs after
\* a failed insertion ended the manager (session_destroy_i, initiator.c 536-582).
THEOREM ThreadsStop == Spec => []ThreadsStopped
<1>1. Init => ThreadInv
  BY ThreadInit
<1>2. ThreadInv /\ [Next]_vars => ThreadInv'
  <2>1. ThreadInv /\ UNCHANGED vars => ThreadInv'
    BY DEF ThreadInv, Threads, Life, vars, threadVars
  <2> QED BY <2>1, ManagerKeepsThreads, SessionWorkerKeepsThreads, TxWorkerKeepsThreads,
             RxWorkerKeepsThreads, OthersKeepThreads DEF Next, Step
<1>3. ThreadInv => ThreadsStopped
  BY DEF ThreadInv, Life, ThreadsStopped
<1> QED BY <1>1, <1>2, <1>3, PTL DEF Spec

-----------------------------------------------------------------------------
(***************************************************************************)
(* What the queues and the threads hold are commands.                        *)
(***************************************************************************)

AllCmds == Cmds \cup {Login}

Fields == {"status", "r2treq", "sent", "txDone", "calls"}

\* f is a function from commands to records with these fields.
CmdTable(f) == DOMAIN f = AllCmds /\ \A c \in AllCmds : DOMAIN f[c] = Fields

Held ==
    /\ txq \in Seq(AllCmds) /\ tmpq \in Seq(AllCmds)
    /\ hash \subseteq AllCmds
    /\ CmdTable(cmd)
    /\ tx.pc = "hold" => tx.cmd \in AllCmds
    /\ rx.pc = "wait" => rx.pdu.cmd \in AllCmds

\* Calling a command's callback changes this command only.
LEMMA CalledProperties ==
    ASSUME CmdTable(cmd), NEW c \in AllCmds, NEW status
    PROVE  /\ CmdTable(Called(c, status))
           /\ Called(c, status)[c].status = status
           /\ Called(c, status)[c].calls = cmd[c].calls + 1
           /\ \A d \in AllCmds \ {c} : Called(c, status)[d] = cmd[d]
  BY DEF Called, CmdTable, Fields

\* A new command, one that is accepted and one that is reset have the fields of one.
LEMMA NewCmdProperties ==
    /\ DOMAIN NewCmd = Fields /\ NewCmd.status = "none" /\ NewCmd.calls = 0
    /\ LET p == [NewCmd EXCEPT !.status = "pending"]
       IN DOMAIN p = Fields /\ p.status = "pending" /\ p.calls = 0
    /\ \A n : LET p == [NewCmd EXCEPT !.status = "pending", !.calls = n]
              IN DOMAIN p = Fields /\ p.status = "pending" /\ p.calls = n
  BY DEF NewCmd, Fields

\* A command that is accepted is new.
LEMMA AcceptProperties ==
    ASSUME CmdTable(cmd), NEW c \in AllCmds,
           cmd' = [cmd EXCEPT ![c] = [NewCmd EXCEPT !.status = "pending"]]
    PROVE  /\ CmdTable(cmd') /\ cmd'[c].status = "pending" /\ cmd'[c].calls = 0
           /\ \A d \in AllCmds \ {c} : cmd'[d] = cmd[d]
<1> DEFINE p == [NewCmd EXCEPT !.status = "pending"]
<1>1. DOMAIN p = Fields /\ p.status = "pending" /\ p.calls = 0
  BY NewCmdProperties
<1>2. cmd' = [cmd EXCEPT ![c] = p]
  OBVIOUS
<1> HIDE DEF p
<1> QED BY <1>1, <1>2 DEF CmdTable

\* A command that is requeued forgets all but the number of its calls.
LEMMA ResetProperties ==
    ASSUME CmdTable(cmd), NEW c \in AllCmds
    PROVE  /\ CmdTable(Reset(c)) /\ Reset(c)[c].status = "pending"
           /\ Reset(c)[c].calls = cmd[c].calls
           /\ \A d \in AllCmds \ {c} : Reset(c)[d] = cmd[d]
<1> DEFINE p == [NewCmd EXCEPT !.status = "pending", !.calls = cmd[c].calls]
<1>1. DOMAIN p = Fields /\ p.status = "pending" /\ p.calls = cmd[c].calls
  BY NewCmdProperties
<1>2. Reset(c) = [cmd EXCEPT ![c] = p]
  BY DEF Reset
<1> HIDE DEF p
<1> QED BY <1>1, <1>2 DEF CmdTable

\* ISCSI_WAKE changes neither the command of the tx worker nor whether it is to stop.
LEMMA WokenProperties ==
    ASSUME Threads
    PROVE  /\ Woken(tx).cmd = tx.cmd /\ Woken(tx).stop = tx.stop
           /\ Woken(tx).pc = IF tx.pc = "blocked" THEN "take" ELSE tx.pc
  BY DEF Threads, Woken

\* There are no commands yet.
LEMMA HeldInit == Init => Held
<1> SUFFICES ASSUME Init PROVE Held
  OBVIOUS
<1>1. CmdTable(cmd)
  BY NewCmdProperties DEF Init, AllCmds, CmdTable
<1>2. /\ txq \in Seq(AllCmds) /\ tmpq \in Seq(AllCmds) /\ hash \subseteq AllCmds
      /\ tx.pc = "exited" /\ rx.pc = "exited"
  BY DEF Init
<1> QED BY <1>1, <1>2 DEF Held

\* Callers and the session worker insert commands into the tx queue.
LEMMA InsertersHold ==
    ASSUME ThreadInv, Held, (\E c \in Cmds : initiator_enqueue(c)) \/ SessionWorker
    PROVE  Held'
<1>1. ASSUME NEW c \in AllCmds, txq' = Append(txq, c), UNCHANGED <<rx, tmpq, hash>>,
             tx' \in {tx, Woken(tx)},
             cmd' = [cmd EXCEPT ![c] = [NewCmd EXCEPT !.status = "pending"]]
      PROVE  Held'
  <2>1. CmdTable(cmd')
    BY <1>1, AcceptProperties DEF Held
  <2>2. txq' \in Seq(AllCmds)
    BY <1>1, AppendProperties DEF Held
  <2>3. tx'.pc = "hold" => tx'.cmd \in AllCmds
    BY <1>1, WokenProperties DEF Held, ThreadInv
  <2> QED BY <1>1, <2>1, <2>2, <2>3 DEF Held
<1>2. ASSUME NEW c \in Cmds, initiator_enqueue(c) PROVE Held'
  BY <1>1, <1>2 DEF initiator_enqueue, AllCmds
<1>3. CASE LoginInsert
  <2>1. CASE Full(txq)
    <3>1. UNCHANGED <<txq, tmpq, hash, cmd, rx>> /\ tx' = Woken(tx)
      BY <1>3, <2>1 DEF LoginInsert
    <3> QED BY <3>1, WokenProperties DEF Held, ThreadInv
  <2>2. CASE ~Full(txq)
    BY <1>1, <1>3, <2>2 DEF LoginInsert, AllCmds
  <2> QED BY <2>1, <2>2
<1>4. CASE session_init_i
  BY <1>4 DEF Held, session_init_i, ThreadInv, Threads, cmdVars
<1>5. CASE LoginCheck \/ LoginAwait \/ get_full_feature \/ SwFail \/ SwExit
  BY <1>5 DEF Held, LoginCheck, LoginAwait, get_full_feature, SwFail, SwExit, cmdVars
<1> QED BY <1>2, <1>3, <1>4, <1>5 DEF SessionWorker

\* The tx worker takes a command out of the tx queue, and puts it back or into the hash.
LEMMA TxWorkerHolds == ASSUME ThreadInv, Held, TxWorker PROVE Held'
<1>1. CASE TxRemove
  <2>1. Tail(txq) \in Seq(AllCmds) /\ Head(txq) \in AllCmds
    BY <1>1, HeadTailProperties DEF TxRemove, Held
  <2>2. txq' = Tail(txq) /\ UNCHANGED <<rx, tmpq, hash, cmd>> /\ tx'.cmd = Head(txq)
    BY <1>1 DEF TxRemove, ThreadInv, Threads
  <2> QED BY <2>1, <2>2 DEF Held
<1>2. CASE TxPutBack
  <2>1. UNCHANGED <<rx, tmpq, hash, cmd>> /\ tx'.pc \in {"check", "stopRx"}
    BY <1>2 DEF TxPutBack, ThreadInv, Threads
  <2>2. txq' = txq \/ txq' = Append(txq, tx.cmd)
    BY <1>2 DEF TxPutBack
  <2>3. txq' \in Seq(AllCmds)
    BY <1>2, <2>2, AppendProperties DEF TxPutBack, Held
  <2> QED BY <2>1, <2>3 DEF Held
<1>3. CASE TxTake
  <2>1. PICK c \in AllCmds : c = tx.cmd
    BY <1>3 DEF TxTake, Held
  <2>2. /\ hash' = hash \cup {c} /\ cmd' = [cmd EXCEPT ![c].txDone = FALSE]
        /\ UNCHANGED <<rx, txq, tmpq>> /\ tx'.pc \in {"send", "stopRx"}
    BY <1>3, <2>1 DEF TxTake, TxGoto, ThreadInv, Threads
  <2>3. CmdTable(cmd')
    BY <2>2 DEF Held, CmdTable, Fields
  <2> QED BY <2>2, <2>3 DEF Held
<1>4. CASE TxSend
  <2>1. UNCHANGED <<rx, txq, tmpq, hash>> /\ tx'.pc \in {"done", "stopRx"}
    BY <1>4 DEF TxSend, TxGoto, ThreadInv, Threads
  <2>2. UNCHANGED cmd \/ \E sent \in BOOLEAN : cmd' = [cmd EXCEPT ![tx.cmd].sent = sent]
    BY <1>4 DEF TxSend
  <2>3. ASSUME NEW sent \in BOOLEAN, cmd' = [cmd EXCEPT ![tx.cmd].sent = sent]
        PROVE  CmdTable(cmd')
    BY <2>3 DEF Held, AllCmds, CmdTable, Fields
  <2> QED BY <2>1, <2>2, <2>3 DEF Held
<1>5. CASE TxDone
  <2>1. UNCHANGED <<rx, txq, tmpq, hash>> /\ tx'.pc = "check"
    BY <1>5 DEF TxDone, ThreadInv, Threads
  <2>2. cmd' = [cmd EXCEPT ![tx.cmd].txDone = TRUE,
                           ![tx.cmd].r2treq = IF cmd[tx.cmd].sent THEN @ - 1 ELSE @]
    BY <1>5 DEF TxDone
  <2>3. CmdTable(cmd')
    BY <2>2 DEF Held, AllCmds, CmdTable, Fields
  <2> QED BY <2>1, <2>3 DEF Held
<1>6. CASE TxCheck \/ TxNothing \/ TxStopRx \/ TxExit
  <2>1. UNCHANGED <<txq, tmpq, hash, cmd>> /\ rx'.pc = rx.pc /\ rx'.pdu = rx.pdu
        /\ tx'.pc # "hold"
    BY <1>6 DEF TxCheck, TxNothing, TxStopRx, TxExit, TxGoto, cmdVars, ThreadInv, Threads
  <2> QED BY <2>1 DEF Held
<1> QED BY <1>1, <1>2, <1>3, <1>4, <1>5, <1>6 DEF TxWorker

\* The rx worker takes commands out of the hash.
LEMMA RxWorkerHolds == ASSUME ThreadInv, Held, RxWorker PROVE Held'
<1>1. CASE RxRead
  <2>1. UNCHANGED <<tx, txq, tmpq, hash, cmd>>
    BY <1>1 DEF RxRead, cmdVars
  <2>2. rx'.pc = "wait" => rx'.pdu.cmd \in AllCmds
    BY <1>1 DEF RxRead, Held, ThreadInv, Threads
  <2> QED BY <2>1, <2>2 DEF Held
<1>2. CASE login_response_i \/ scsi_response_i
  <2>1. PICK c \in AllCmds : /\ UNCHANGED <<tx, txq, tmpq>> /\ rx'.pc = "read"
                             /\ hash' = hash \ {c} /\ cmd' = Called(c, "good")
    BY <1>2 DEF login_response_i, scsi_response_i, RxAnswers, Done, ThreadInv, Threads,
                Held, AllCmds
  <2>2. CmdTable(cmd')
    BY <2>1, CalledProperties DEF Held
  <2> QED BY <2>1, <2>2 DEF Held
<1>3. CASE scsi_r2t_rx_i
  <2>1. PICK c \in AllCmds : c = rx.pdu.cmd
    BY <1>3 DEF scsi_r2t_rx_i, RxAnswers, Held
  <2>2. /\ rx'.pc # "wait" /\ hash' = hash \ {c} /\ UNCHANGED tmpq /\ tx' = Woken(tx)
        /\ txq' = txq \/ txq' = Append(txq, c)
        /\ cmd' = [cmd EXCEPT ![c].r2treq = @ + 1]
    BY <1>3, <2>1 DEF scsi_r2t_rx_i, RxAnswers, ThreadInv, Threads
  <2>3. txq' \in Seq(AllCmds)
    BY <2>2, AppendProperties DEF Held
  <2>4. CmdTable(cmd')
    BY <2>2 DEF Held, CmdTable, Fields
  <2>5. tx'.pc = "hold" => tx'.cmd \in AllCmds
    BY <2>2, WokenProperties DEF Held, ThreadInv
  <2> QED BY <2>2, <2>3, <2>4, <2>5 DEF Held
<1> QED BY <1>1, <1>2, <1>3 DEF RxWorker

\* The manager moves commands between the queues.
LEMMA ManagerHolds == ASSUME ThreadInv, Held, Manager PROVE Held'
<1>1. CASE MgrDrain
  <2>1. Tail(txq) \in Seq(AllCmds) /\ Head(txq) \in AllCmds
    BY <1>1, HeadTailProperties DEF MgrDrain, Held
  <2>2. txq' = Tail(txq) /\ UNCHANGED <<tx, rx>>
    BY <1>1 DEF MgrDrain
  <2>3. CASE Head(txq) = Login
    <3>1. cmd' = Called(Login, "aborted") /\ hash' = hash \ {Login} /\ UNCHANGED tmpq
      BY <1>1, <2>3 DEF MgrDrain, Done
    <3>2. CmdTable(cmd')
      BY <3>1, CalledProperties DEF Held, AllCmds
    <3> QED BY <2>1, <2>2, <3>1, <3>2 DEF Held
  <2>4. CASE Head(txq) # Login
    <3>1. UNCHANGED <<hash, cmd>> /\ (tmpq' = tmpq \/ tmpq' = Append(tmpq, Head(txq)))
      BY <1>1, <2>4 DEF MgrDrain
    <3>2. tmpq' \in Seq(AllCmds)
      BY <2>1, <3>1, AppendProperties DEF Held
    <3> QED BY <2>1, <2>2, <3>1, <3>2 DEF Held
  <2> QED BY <2>3, <2>4
<1>2. CASE MgrRefill
  <2>1. Tail(tmpq) \in Seq(AllCmds) /\ Head(tmpq) \in AllCmds
    BY <1>2, HeadTailProperties DEF MgrRefill, Held
  <2>2. PICK c \in AllCmds : c = Head(tmpq)
    BY <2>1
  <2>3. /\ tmpq' = Tail(tmpq) /\ UNCHANGED <<tx, rx, hash, cmd>>
        /\ txq' = txq \/ txq' = Append(txq, c)
    BY <1>2, <2>2 DEF MgrRefill
  <2>4. txq' \in Seq(AllCmds)
    BY <2>3, AppendProperties DEF Held
  <2> QED BY <2>1, <2>3, <2>4 DEF Held
<1>3. ASSUME NEW c \in AllCmds, MgrRequeue(c) PROVE Held'
  <2>1. hash' = hash \ {c} /\ UNCHANGED <<tx, rx, tmpq>> /\ (txq' = txq \/ txq' = Append(txq, c))
    BY <1>3 DEF MgrRequeue
  <2>2. txq' \in Seq(AllCmds)
    BY <2>1, AppendProperties DEF Held
  <2>3. cmd' = Called(c, "aborted") \/ cmd' = Reset(c)
    BY <1>3 DEF MgrRequeue
  <2>4. CmdTable(cmd')
    BY <2>3, CalledProperties, ResetProperties DEF Held
  <2> QED BY <2>1, <2>2, <2>4 DEF Held
<1>4. CASE MgrStopTx
  <2>1. UNCHANGED <<txq, tmpq, hash, cmd, rx>>
    BY <1>4 DEF MgrStopTx, cmdVars
  <2>2. tx'.pc = "hold" => tx'.cmd \in AllCmds
    <3> DEFINE w == Woken(tx)
    <3>1. tx' = [w EXCEPT !.stop = TRUE]
      BY <1>4 DEF MgrStopTx
    <3>2. w = [pc |-> w.pc, cmd |-> tx.cmd, stop |-> tx.stop] /\
          w.pc = IF tx.pc = "blocked" THEN "take" ELSE tx.pc
      BY DEF ThreadInv, Threads, Woken
    <3> HIDE DEF w
    <3> QED BY <3>1, <3>2 DEF Held
  <2> QED BY <2>1, <2>2 DEF Held
<1>5. CASE \/ MgrStart \/ MgrDestroy \/ MgrJoinTx \/ MgrDrained \/ MgrRefilled
           \/ MgrClose \/ MgrJoin
  BY <1>5 DEF Held, MgrStart, MgrDestroy, MgrJoinTx, MgrDrained, MgrRefilled, MgrClose,
              MgrJoin, cmdVars
<1> QED BY <1>1, <1>2, <1>3, <1>4, <1>5 DEF Manager, AllCmds

\* Both parts of the invariant survive every step.
LEMMA ThreadsAndHeld == (ThreadInv /\ Held) /\ [Next]_vars => (ThreadInv /\ Held)'
<1> SUFFICES ASSUME ThreadInv, Held, [Next]_vars PROVE ThreadInv' /\ Held'
  OBVIOUS
<1>1. ThreadInv'
  <2>1. UNCHANGED vars => ThreadInv'
    BY DEF ThreadInv, Threads, Life, vars, threadVars
  <2> QED BY <2>1, ManagerKeepsThreads, SessionWorkerKeepsThreads, TxWorkerKeepsThreads,
             RxWorkerKeepsThreads, OthersKeepThreads DEF Next, Step
<1>2. CASE Target \/ Drop \/ UNCHANGED vars
  <2>1. UNCHANGED <<tx, rx, txq, tmpq, hash, cmd>>
    BY <1>2 DEF Target, TargetCommand, TargetData, Drop, vars, threadVars, cmdVars
  <2> QED BY <1>1, <2>1 DEF Held
<1> QED BY <1>1, <1>2, InsertersHold, TxWorkerHolds, RxWorkerHolds, ManagerHolds
           DEF Next, Step

-----------------------------------------------------------------------------
(***************************************************************************)
(* A command is completed once.                                              *)
(*                                                                           *)
(* A command is on one queue, in the hash or in the tx worker's hands, once, *)
(* or nowhere, and at most one thing speaks of it on the way from the tx     *)
(* worker over the connection to the rx worker: so one response of it can be *)
(* read, and after that nothing leads to it any more.  The login keeps to    *)
(* this, too: a session worker inserts one only when the last one is over.   *)
(***************************************************************************)

\* No command is twice on a queue, or on one direction of the wire.
Distinct(q) == \A i, j \in 1..Len(q) : q[i] = q[j] => i = j
DistinctPdus(s) == \A i, j \in 1..Len(s) : s[i].cmd = s[j].cmd => i = j
Carried(s) == {s[i].cmd : i \in 1..Len(s)}

Ops == {"login", "command", "data", "login_response", "r2t", "response"}
PDUs == {p \in [op : Ops, cmd : AllCmds] : p.op \in {"login", "login_response"} => p.cmd = Login}

\* What the tx worker is about to send, and what the rx worker has read
AtTx == IF tx.pc \in {"send", "stopRx"} /\ tx.cmd # NoCmd THEN {tx.cmd} ELSE {}
AtRx == IF rx.pc = "wait" THEN {rx.pdu.cmd} ELSE {}

\* The wire speaks of commands in the hash, until the session is destroyed.
Wire ==
    /\ c2t \in Seq(PDUs) /\ t2c \in Seq(PDUs)
    /\ DistinctPdus(c2t) /\ DistinctPdus(t2c)
    /\ sess = FALSE => c2t = <<>> /\ t2c = <<>>
    /\ Carried(c2t) \cup Carried(t2c) \subseteq hash \/ mgr \in {"requeue", "exited"}

\* The temporary queue holds something only in session_destroy_i, and never a login.
Queued ==
    /\ Distinct(txq) /\ Distinct(tmpq)
    /\ Range(txq) \cap Range(tmpq) = {} /\ hash \cap (Range(txq) \cup Range(tmpq)) = {}
    /\ tmpq # <<>> => mgr \in {"drain", "refill", "exited"}
    /\ Login \notin Range(tmpq)

\* A command is with the tx worker, on its way, on its way back or with the rx worker.
OnePlace ==
    /\ Carried(c2t) \cap Carried(t2c) = {}
    /\ (Carried(c2t) \cup Carried(t2c)) \cap (AtTx \cup AtRx) = {}
    /\ AtTx \cap AtRx = {}

\* The workers speak of commands in the hash, but for the one that the tx worker took out
\* of the queue; the rx worker leaves one alone that the tx worker is not done with.
Workers ==
    /\ AtRx \subseteq hash /\ (rx.pc = "wait" => rx.pdu \in PDUs)
    /\ tx.cmd # NoCmd => tx.pc \in {"hold", "send", "done", "stopRx"}
    /\ tx.pc \in {"hold", "send", "done"} => tx.cmd \in AllCmds
    /\ tx.pc = "hold" => tx.cmd \notin Range(txq) \cup hash
    /\ tx.pc # "hold" /\ tx.cmd # NoCmd => tx.cmd \in hash
    /\ rx.stop => tx.pc \in {"joinRx", "exited"}
    /\ tx.pc \in {"send", "done"} => cmd[tx.cmd].txDone = FALSE

Calls ==
    /\ \A c \in AllCmds : c \in Known => cmd[c].status = "pending"
    /\ \A c \in Cmds : cmd[c].calls = IF cmd[c].status = "good" THEN 1 ELSE 0
    /\ sw.pc # "await" => cmd[Login].status # "pending"

Once == Wire /\ Queued /\ OnePlace /\ Workers /\ Calls

-----------------------------------------------------------------------------
(***************************************************************************)
(* Sequences without repetition                                              *)
(***************************************************************************)

\* A command that is not on the queue can be appended.
LEMMA DistinctAppend ==
    ASSUME NEW s \in Seq(AllCmds), NEW x \in AllCmds, Distinct(s), x \notin Range(s)
    PROVE  Distinct(Append(s, x)) /\ Range(Append(s, x)) = Range(s) \cup {x}
<1> DEFINE t == Append(s, x)
<1>1. /\ Len(t) = Len(s) + 1 /\ t[Len(s) + 1] = x /\ t \in Seq(AllCmds)
      /\ \A i \in 1..Len(s) : t[i] = s[i]
  BY AppendProperties
<1> HIDE DEF t
<1>2. DOMAIN s = 1..Len(s) /\ DOMAIN t = 1..Len(t) /\ Len(s) \in Nat
  BY <1>1, LenProperties
<1>3. \A i \in 1..Len(t) : i = Len(s) + 1 \/ i \in 1..Len(s)
  BY <1>1, <1>2
<1>4. Range(t) = Range(s) \cup {x}
  BY <1>1, <1>2, <1>3 DEF Range
<1>5. Distinct(t)
  BY <1>1, <1>2, <1>3 DEF Distinct, Range
<1> QED BY <1>4, <1>5 DEF t

\* The tail of a queue has all but its head.
LEMMA DistinctTail ==
    ASSUME NEW s \in Seq(AllCmds), s # <<>>, Distinct(s)
    PROVE  /\ Distinct(Tail(s)) /\ Range(s) = Range(Tail(s)) \cup {Head(s)}
           /\ Head(s) \notin Range(Tail(s)) /\ Tail(s) \in Seq(AllCmds) /\ Head(s) \in AllCmds
<1> DEFINE t == Tail(s)
<1>1. /\ Head(s) = s[1] /\ Head(s) \in AllCmds /\ t \in Seq(AllCmds)
      /\ Len(t) = Len(s) - 1
      /\ \A i \in 1..Len(t) : t[i] = s[i + 1]
  BY HeadTailProperties
<1> HIDE DEF t
<1>2. DOMAIN s = 1..Len(s) /\ DOMAIN t = 1..Len(t) /\ Len(s) \in Nat /\ Len(t) \in Nat
  BY <1>1, LenProperties
<1>3. /\ 1 \in 1..Len(s)
      /\ \A i \in 1..Len(t) : i + 1 \in 1..Len(s) /\ i + 1 # 1
      /\ \A i \in 1..Len(s) : i # 1 => i - 1 \in 1..Len(t) /\ t[i - 1] = s[i]
  BY <1>1, <1>2
<1>4. Range(s) = Range(t) \cup {s[1]}
  <2>1. \A i \in 1..Len(s) : s[i] \in Range(t) \cup {s[1]}
    BY <1>2, <1>3 DEF Range
  <2>2. \A i \in 1..Len(t) : t[i] \in Range(s)
    BY <1>1, <1>2, <1>3 DEF Range
  <2> QED BY <1>2, <1>3, <2>1, <2>2 DEF Range
<1>5. Distinct(t)
  <2> SUFFICES ASSUME NEW i \in 1..Len(t), NEW j \in 1..Len(t), t[i] = t[j]
               PROVE  i = j
    BY DEF Distinct
  <2>1. i + 1 = j + 1
    BY <1>1, <1>3 DEF Distinct
  <2> QED BY <1>2, <2>1
<1>6. s[1] \notin Range(t)
  BY <1>1, <1>2, <1>3 DEF Range, Distinct
<1> QED BY <1>1, <1>4, <1>5, <1>6 DEF t

\* A PDU of a command that the wire does not speak of can be sent ...
LEMMA PdusAppend ==
    ASSUME NEW s \in Seq(PDUs), NEW p \in PDUs, DistinctPdus(s),
           p.cmd \notin Carried(s)
    PROVE  /\ DistinctPdus(Append(s, p)) /\ Append(s, p) \in Seq(PDUs)
           /\ Carried(Append(s, p)) = Carried(s) \cup {p.cmd}
<1> DEFINE t == Append(s, p)
<1>1. /\ Len(t) = Len(s) + 1 /\ t[Len(s) + 1] = p /\ t \in Seq(PDUs)
      /\ \A i \in 1..Len(s) : t[i] = s[i]
  BY AppendProperties
<1> HIDE DEF t
<1>2. Len(s) \in Nat
  BY LenProperties
<1>3. /\ \A i \in 1..Len(t) : i = Len(s) + 1 \/ i \in 1..Len(s)
      /\ Len(s) + 1 \in 1..Len(t) /\ \A i \in 1..Len(s) : i \in 1..Len(t)
  BY <1>1, <1>2
<1>4. Carried(t) = Carried(s) \cup {p.cmd}
  BY <1>1, <1>3 DEF Carried
<1>5. DistinctPdus(t)
  BY <1>1, <1>3 DEF DistinctPdus, Carried
<1> QED BY <1>1, <1>4, <1>5 DEF t

\* ... and a PDU that is read leaves nothing of its command behind.
LEMMA PdusTail ==
    ASSUME NEW s \in Seq(PDUs), s # <<>>, DistinctPdus(s)
    PROVE  /\ DistinctPdus(Tail(s)) /\ Tail(s) \in Seq(PDUs) /\ Head(s) \in PDUs
           /\ Carried(s) = Carried(Tail(s)) \cup {Head(s).cmd}
           /\ Head(s).cmd \notin Carried(Tail(s))
<1> DEFINE t == Tail(s)
<1>1. /\ Head(s) = s[1] /\ Head(s) \in PDUs /\ t \in Seq(PDUs) /\ Len(t) = Len(s) - 1
      /\ \A i \in 1..Len(t) : t[i] = s[i + 1]
  BY HeadTailProperties
<1> HIDE DEF t
<1>2. Len(s) \in Nat /\ Len(t) \in Nat
  BY <1>1, LenProperties
<1>3. /\ 1 \in 1..Len(s)
      /\ \A i \in 1..Len(t) : i + 1 \in 1..Len(s) /\ i + 1 # 1
      /\ \A i \in 1..Len(s) : i # 1 => i - 1 \in 1..Len(t) /\ t[i - 1] = s[i]
  BY <1>1, <1>2
<1>4. Carried(s) = Carried(t) \cup {s[1].cmd}
  BY <1>1, <1>3 DEF Carried
<1>5. DistinctPdus(t)
  <2> SUFFICES ASSUME NEW i \in 1..Len(t), NEW j \in 1..Len(t),
                      t[i].cmd = t[j].cmd
               PROVE  i = j
    BY DEF DistinctPdus
  <2>1. i + 1 = j + 1
    BY <1>1, <1>3 DEF DistinctPdus
  <2> QED BY <1>2, <2>1
<1>6. s[1].cmd \notin Carried(t)
  BY <1>1, <1>3 DEF Carried, DistinctPdus
<1> QED BY <1>1, <1>4, <1>5, <1>6 DEF t

\* Nothing is on a wire that is down.
LEMMA EmptyWire == <<>> \in Seq(PDUs) /\ DistinctPdus(<<>>) /\ Carried(<<>>) = {}
  BY DEF DistinctPdus, Carried

-----------------------------------------------------------------------------
(***************************************************************************)
(* The steps                                                                 *)
(***************************************************************************)

\* The end of session_destroy_i, and the failures before it
Ending == {"requeue", "exited"}

\* With the wire as it is, what leaves the workers' hands leaves the rest in one place.
LEMMA OnePlaceFrame ==
    ASSUME OnePlace, UNCHANGED <<c2t, t2c>>, AtTx' \subseteq AtTx, AtRx' \subseteq AtRx
    PROVE  OnePlace'
<1>1. Carried(c2t') = Carried(c2t) /\ Carried(t2c') = Carried(t2c)
  BY DEF Carried
<1> QED BY <1>1 DEF OnePlace

\* A queue without a command has it once when it is inserted, or is left as it is.
LEMMA InsertDistinct ==
    ASSUME NEW q \in Seq(AllCmds), Distinct(q), NEW c \in AllCmds, c \notin Range(q),
           NEW r, r = q \/ r = Append(q, c)
    PROVE  Distinct(r) /\ Range(r) \subseteq Range(q) \cup {c}
  BY DistinctAppend

\* A login that is aborted is over, and nothing else is.
LEMMA LoginAborted ==
    ASSUME Held, cmd' = Called(Login, "aborted")
    PROVE  cmd'[Login].status = "aborted" /\ \A d \in AllCmds \ {Login} : cmd'[d] = cmd[d]
<1>1. CmdTable(cmd) /\ Login \in AllCmds
  BY DEF Held, AllCmds
<1> QED BY <1>1, CalledProperties

\* When queues, wires and commands stay and the workers keep what they speak of, so
\* does the rest.
LEMMA OnceFrame ==
    ASSUME Once, UNCHANGED <<c2t, t2c, txq, tmpq, hash, cmd>>,
           sess' = FALSE => sess = FALSE, mgr \in Ending => mgr' \in Ending,
           tmpq # <<>> => mgr' \in {"drain", "refill", "exited"},
           sw'.pc # "await" => sw.pc # "await" \/ cmd[Login].status # "pending",
           tx'.cmd \in {tx.cmd, NoCmd},
           tx'.pc \in {"hold", "send", "done"} => tx'.pc = tx.pc /\ tx'.cmd = tx.cmd,
           tx'.cmd # NoCmd => tx'.pc = tx.pc,
           rx'.pc = "wait" => rx'.pc = rx.pc /\ rx'.pdu = rx.pdu,
           rx'.stop => tx'.pc \in {"joinRx", "exited"}
    PROVE  Once'
<1>1. AtTx' \subseteq AtTx /\ AtRx' \subseteq AtRx /\ InHand' \subseteq InHand
  BY DEF AtTx, AtRx, InHand
<1>2. Known' \subseteq Known
  BY <1>1 DEF Known
<1>3. Wire'
  BY DEF Once, Wire, DistinctPdus, Carried, Ending
<1>4. Queued'
  BY DEF Once, Queued, Distinct
<1>5. OnePlace'
  BY <1>1, OnePlaceFrame DEF Once
<1>6. Workers'
  BY <1>1 DEF Once, Workers
<1>7. Calls'
  BY <1>2 DEF Once, Calls
<1> QED BY <1>3, <1>4, <1>5, <1>6, <1>7 DEF Once

\* Nothing is anywhere at first.
LEMMA OnceInit == Init => Once
<1> SUFFICES ASSUME Init PROVE Once
  OBVIOUS
<1>1. /\ c2t = <<>> /\ t2c = <<>> /\ txq = <<>> /\ tmpq = <<>> /\ hash = {}
      /\ rx.stop = FALSE /\ tx.pc = "exited" /\ tx.cmd = NoCmd /\ rx.pc = "exited"
  BY DEF Init
<1>2. Range(txq) = {} /\ Range(tmpq) = {} /\ Distinct(txq) /\ Distinct(tmpq)
  BY <1>1 DEF Range, Distinct
<1>3. \A c \in AllCmds : cmd[c].status = "none" /\ cmd[c].calls = 0
  BY NewCmdProperties DEF Init, AllCmds
<1>4. Wire /\ Queued
  BY <1>1, <1>2, EmptyWire DEF Wire, Queued
<1>5. OnePlace /\ Workers
  BY <1>1, EmptyWire DEF OnePlace, Workers, AtTx, AtRx
<1>6. Known = {}
  BY <1>1, <1>2 DEF Known, InHand
<1>7. Calls
  BY <1>3, <1>6 DEF Calls, AllCmds
<1> QED BY <1>4, <1>5, <1>7 DEF Once

\* A command that is inserted is new: nothing speaks of it.
LEMMA InsertOnce ==
    ASSUME ThreadInv, Held, Once, NEW c \in AllCmds, cmd[c].status # "pending",
           txq' = Append(txq, c), tx' \in {tx, Woken(tx)},
           UNCHANGED <<rx, tmpq, hash, sess, mgr, c2t, t2c>>,
           cmd' = [cmd EXCEPT ![c] = [NewCmd EXCEPT !.status = "pending"]],
           c = Login => sw'.pc = "await", c # Login => sw' = sw
    PROVE  Once'
<1>1. /\ tx'.cmd = tx.cmd /\ tx'.stop = tx.stop
      /\ tx'.pc = tx.pc \/ (tx.pc = "blocked" /\ tx'.pc = "take")
  BY WokenProperties DEF ThreadInv
<1>2. c \notin Range(txq) \cup Range(tmpq) \cup hash \cup InHand /\ c # tx.cmd
  BY CmdsAssumption DEF Once, Calls, Workers, AllCmds, Known, InHand
<1>3. Distinct(txq') /\ Range(txq') = Range(txq) \cup {c}
  BY <1>2, DistinctAppend DEF Held, Once, Queued
<1>4. /\ cmd'[c].status = "pending" /\ cmd'[c].calls = 0
      /\ \A d \in AllCmds \ {c} : cmd'[d] = cmd[d]
  BY AcceptProperties DEF Held
<1>5. AtTx' = AtTx /\ AtRx' = AtRx /\ InHand' = InHand
  BY <1>1 DEF AtTx, AtRx, InHand
<1>6. c \notin Range(tmpq)'
  BY <1>2
<1>7. Wire'
  BY DEF Once, Wire, DistinctPdus, Carried
<1>8. Queued'
  BY <1>2, <1>3 DEF Once, Queued, Distinct
<1>9. OnePlace'
  BY <1>5 DEF Once, OnePlace, Carried
<1>10. Workers'
  BY <1>1, <1>2, <1>3, <1>4, <1>5 DEF Once, Workers
<1>11. Known' = Known \cup {c}
  BY <1>3, <1>5 DEF Known
<1>12. Calls'
  BY <1>4, <1>11 DEF Once, Calls, AllCmds
<1> QED BY <1>7, <1>8, <1>9, <1>10, <1>12 DEF Once

\* Callers insert a command that they have not inserted before.
LEMMA CallersOnce ==
    ASSUME ThreadInv, Held, Once, NEW c \in Cmds, initiator_enqueue(c)
    PROVE  Once'
<1>1. /\ txq' = Append(txq, c) /\ UNCHANGED <<rx, tmpq, hash, sess, mgr, sw, c2t, t2c>>
      /\ tx' \in {tx, Woken(tx)} /\ cmd[c].status = "none"
      /\ cmd' = [cmd EXCEPT ![c] = [NewCmd EXCEPT !.status = "pending"]]
  BY DEF initiator_enqueue, netVars
<1>2. c \in AllCmds /\ c # Login
  BY CmdsAssumption DEF AllCmds
<1> QED BY <1>1, <1>2, InsertOnce

\* The session worker starts the workers in a session without traffic, and inserts a
\* login when the last one is over.
LEMMA SessionWorkerOnce == ASSUME ThreadInv, Held, Once, SessionWorker PROVE Once'
<1>1. CASE session_init_i
  <2>1. UNCHANGED <<c2t, t2c, txq, tmpq, hash, cmd, mgr>> /\ sess' = TRUE
    BY <1>1 DEF session_init_i, cmdVars
  <2>2. /\ tx.pc = "exited" /\ rx.pc = "exited" /\ tx.cmd = NoCmd /\ sw.pc = "init"
    BY <1>1 DEF session_init_i, ThreadInv, Life, Once, Workers
  <2>3. \/ UNCHANGED <<tx, rx>>
        \/ /\ tx'.pc = "check" /\ tx'.cmd = tx.cmd
           /\ rx'.pc = "read" /\ rx'.stop = FALSE
    BY <1>1 DEF session_init_i, ThreadInv, Threads
  <2>4. tmpq # <<>> => mgr' \in {"drain", "refill", "exited"}
    BY <2>1 DEF Once, Queued
  <2> QED BY <2>1, <2>2, <2>3, <2>4, OnceFrame DEF Once, Workers
<1>2. CASE LoginInsert /\ ~Full(txq)
  <2>1. /\ txq' = Append(txq, Login) /\ UNCHANGED <<rx, tmpq, hash, sess, mgr, c2t, t2c>>
        /\ cmd' = [cmd EXCEPT ![Login] = [NewCmd EXCEPT !.status = "pending"]]
        /\ tx' = Woken(tx) /\ sw.pc = "insert" /\ sw'.pc = "await"
    BY <1>2 DEF LoginInsert, SwGoto, netVars, ThreadInv, Threads
  <2>2. Login \in AllCmds /\ cmd[Login].status # "pending"
    BY <2>1 DEF AllCmds, Once, Calls
  <2> QED BY <2>1, <2>2, InsertOnce
<1>3. CASE LoginInsert /\ Full(txq)
  <2>1. /\ UNCHANGED <<c2t, t2c, txq, tmpq, hash, cmd, mgr, sess, rx>>
        /\ tx' = Woken(tx) /\ sw.pc = "insert"
    BY <1>3 DEF LoginInsert, netVars
  <2>2. /\ tx'.cmd = tx.cmd
        /\ tx'.pc = tx.pc \/ (tx.pc = "blocked" /\ tx'.pc = "take")
    BY <2>1, WokenProperties DEF ThreadInv
  <2>3. tx.pc = "blocked" => tx.cmd = NoCmd
    BY DEF Once, Workers
  <2>4. tmpq # <<>> => mgr' \in {"drain", "refill", "exited"}
    BY <2>1 DEF Once, Queued
  <2>5. rx'.stop => tx'.pc \in {"joinRx", "exited"}
    BY <2>1, <2>2 DEF Once, Workers
  <2> QED BY <2>1, <2>2, <2>3, <2>4, <2>5, OnceFrame
<1>4. CASE LoginCheck \/ LoginAwait \/ get_full_feature \/ SwFail \/ SwExit
  <2>1. UNCHANGED <<c2t, t2c, txq, tmpq, hash, cmd, mgr, sess, tx, rx>>
    BY <1>4 DEF LoginCheck, LoginAwait, get_full_feature, SwFail, SwExit, cmdVars, netVars
  <2>2. sw.pc # "await" \/ cmd[Login].status # "pending"
    BY <1>4 DEF LoginCheck, LoginAwait, get_full_feature, SwFail, SwExit
  <2>3. tmpq # <<>> => mgr' \in {"drain", "refill", "exited"}
    BY <2>1 DEF Once, Queued
  <2> QED BY <2>1, <2>2, <2>3, OnceFrame DEF Once, Workers
<1> QED BY <1>1, <1>2, <1>3, <1>4 DEF SessionWorker

\* The tx worker has a command from the queue ...
LEMMA TxRemoveOnce == ASSUME ThreadInv, Held, Once, TxRemove PROVE Once'
<1>1. PICK c : c = Head(txq)
  OBVIOUS
<1>2. /\ tx.pc = "take" /\ txq # <<>> /\ txq' = Tail(txq)
      /\ UNCHANGED <<rx, sw, sess, mgr, tmpq, hash, cmd, c2t, t2c>>
      /\ tx'.cmd = c /\ tx'.pc = "hold" /\ tx'.stop = tx.stop
  BY <1>1 DEF TxRemove, netVars, ThreadInv, Threads
<1>3. /\ Distinct(txq') /\ Range(txq) = Range(txq') \cup {c} /\ c \notin Range(txq')
      /\ c \in AllCmds
  BY <1>1, <1>2, DistinctTail DEF Held, Once, Queued
<1>4. ~rx.stop
  BY <1>2 DEF Once, Workers
<1>5. AtTx' = {} /\ AtRx' = AtRx /\ InHand = {} /\ InHand' = {c}
  BY <1>2 DEF AtTx, AtRx, InHand
<1>6. Wire'
  BY <1>2 DEF Once, Wire, DistinctPdus, Carried
<1>7. Queued'
  BY <1>2, <1>3 DEF Once, Queued, Distinct
<1>8. OnePlace'
  BY <1>2, <1>5 DEF Once, OnePlace, Carried
<1>9. c \notin hash
  BY <1>3 DEF Once, Queued
<1>10. Workers'
  BY <1>2, <1>3, <1>4, <1>5, <1>9 DEF Once, Workers
<1>11. Known' = Known
  BY <1>2, <1>3, <1>5 DEF Known
<1>12. Calls'
  BY <1>2, <1>11 DEF Once, Calls
<1> QED BY <1>6, <1>7, <1>8, <1>10, <1>12 DEF Once

\* ... that goes back to the queue, or is lost ...
LEMMA TxPutBackOnce == ASSUME ThreadInv, Held, Once, TxPutBack PROVE Once'
<1>1. PICK c : c = tx.cmd
  OBVIOUS
<1>2. /\ tx.pc = "hold" /\ UNCHANGED <<rx, sw, sess, mgr, tmpq, hash, cmd, c2t, t2c>>
      /\ tx'.cmd = NoCmd /\ tx'.pc \in {"check", "stopRx"}
      /\ txq' = txq \/ txq' = Append(txq, c)
  BY <1>1 DEF TxPutBack, netVars, ThreadInv, Threads
<1>3. c \in AllCmds /\ c \notin Range(txq) \cup hash /\ ~rx.stop
  BY <1>1, <1>2 DEF Once, Workers
<1>4. tmpq = <<>>
  BY <1>2 DEF ThreadInv, Life, Once, Queued
<1>5. Distinct(txq') /\ Range(txq') \subseteq Range(txq) \cup {c}
  BY <1>2, <1>3, InsertDistinct DEF Held, Once, Queued
<1>6. AtTx' = {} /\ AtRx' = AtRx /\ InHand' = {} /\ InHand = {c}
  BY <1>1, <1>2 DEF AtTx, AtRx, InHand
<1>7. Wire'
  BY <1>2 DEF Once, Wire, DistinctPdus, Carried
<1>8. Range(tmpq) = {}
  BY <1>4 DEF Range
<1>9. Queued'
  BY <1>2, <1>3, <1>5, <1>8 DEF Once, Queued, Distinct
<1>10. OnePlace'
  BY <1>2, <1>6, OnePlaceFrame DEF Once
<1>11. Workers'
  BY <1>2, <1>3, <1>6 DEF Once, Workers
<1>12. Known' \subseteq Known
  BY <1>2, <1>5, <1>6 DEF Known
<1>13. Calls'
  BY <1>2, <1>12 DEF Once, Calls
<1> QED BY <1>7, <1>9, <1>10, <1>11, <1>13 DEF Once

\* ... or into the hash and on to the wire.
LEMMA TxTakeOnce == ASSUME ThreadInv, Held, Once, TxTake PROVE Once'
<1>1. PICK c : c = tx.cmd
  OBVIOUS
<1>2. /\ tx.pc = "hold" /\ hash' = hash \cup {c}
      /\ UNCHANGED <<rx, sw, sess, mgr, txq, tmpq, c2t, t2c>>
      /\ cmd' = [cmd EXCEPT ![c].txDone = FALSE]
      /\ tx'.cmd = c /\ tx'.pc \in {"send", "stopRx"}
  BY <1>1 DEF TxTake, TxGoto, netVars, ThreadInv, Threads
<1>3. c \in AllCmds /\ c \notin Range(txq) \cup hash /\ ~rx.stop /\ c # NoCmd
  BY <1>1, <1>2, CmdsAssumption DEF Once, Workers, AllCmds
<1>4. tmpq = <<>> /\ mgr \notin Ending
  BY <1>2 DEF ThreadInv, Life, Once, Queued, Ending
<1>5. Range(tmpq) = {}
  BY <1>4 DEF Range
<1>6. \A d \in AllCmds : cmd'[d].status = cmd[d].status /\ cmd'[d].calls = cmd[d].calls
  BY <1>2, <1>3 DEF Held, CmdTable, Fields
<1>7. AtTx' = {c} /\ AtRx' = AtRx /\ InHand' = {} /\ InHand = {c}
  BY <1>1, <1>2, <1>3 DEF AtTx, AtRx, InHand
<1>8. c \notin Carried(c2t) \cup Carried(t2c) \cup AtRx
  BY <1>3, <1>4 DEF Once, Wire, Workers, Ending
<1>9. Wire'
  BY <1>2 DEF Once, Wire, DistinctPdus, Carried
<1>10. Queued'
  BY <1>2, <1>3, <1>5 DEF Once, Queued, Distinct
<1>11. OnePlace'
  <2>1. Carried(c2t') = Carried(c2t) /\ Carried(t2c') = Carried(t2c)
    BY <1>2 DEF Carried
  <2> QED BY <1>7, <1>8, <2>1 DEF Once, OnePlace
<1>12. Workers'
  <2>1. cmd'[c].txDone = FALSE
    BY <1>2, <1>3 DEF Held, CmdTable, Fields
  <2> QED BY <1>2, <1>3, <1>7, <2>1 DEF Once, Workers
<1>13. Known' = Known
  BY <1>2, <1>7 DEF Known
<1>14. Calls'
  BY <1>2, <1>6, <1>13 DEF Once, Calls, AllCmds
<1> QED BY <1>9, <1>10, <1>11, <1>12, <1>14 DEF Once

\* What the tx worker sends is on the wire and no longer with it.
LEMMA TxSendOnce == ASSUME ThreadInv, Held, Once, TxSend PROVE Once'
<1>1. PICK c : c = tx.cmd
  OBVIOUS
<1>2. /\ tx.pc = "send" /\ UNCHANGED <<rx, sw, txq, tmpq, hash, sess, mgr, t2c>>
      /\ c \in AllCmds /\ c # NoCmd /\ tx'.cmd = c /\ tx'.pc \in {"done", "stopRx"}
  BY <1>1, CmdsAssumption DEF TxSend, TxGoto, Once, Workers, AllCmds, ThreadInv, Threads
<1>3. c \in hash /\ AtTx = {c} /\ AtRx' = AtRx /\ InHand = {} /\ InHand' = {}
  BY <1>1, <1>2 DEF Once, Workers, AtTx, AtRx, InHand
<1>4. Known' = Known
  BY <1>2, <1>3 DEF Known
<1>5. Queued'
  BY <1>2 DEF Once, Queued, Distinct
<1>6. CASE conn = "up"
  <2>1. PICK op \in Ops :
          /\ c2t' = Append(c2t, Pdu(op, c)) /\ (op = "login" => c = Login)
          /\ op # "login_response"
          /\ cmd' = [cmd EXCEPT ![c].sent = (op = "data")]
          /\ tx'.pc = "done"
    <3> DEFINE o == IF c = Login THEN "login" ELSE IF cmd[c].r2treq > 0 THEN "data" ELSE "command"
    <3>1. /\ c2t' = Append(c2t, Pdu(o, c)) /\ cmd' = [cmd EXCEPT ![c].sent = (o = "data")]
          /\ tx' = [tx EXCEPT !.pc = "done"]
      BY <1>1, <1>6 DEF TxSend, TxGoto
    <3>2. o \in Ops /\ (o = "login" => c = Login) /\ o # "login_response"
      BY DEF Ops
    <3> HIDE DEF o
    <3>3. tx'.pc = "done"
      BY <3>1 DEF ThreadInv, Threads
    <3> QED BY <3>1, <3>2, <3>3
  <2>2. c \notin Carried(c2t) \cup Carried(t2c) \cup AtRx
    BY <1>3 DEF Once, OnePlace
  <2>3. /\ DistinctPdus(c2t') /\ c2t' \in Seq(PDUs)
        /\ Carried(c2t') = Carried(c2t) \cup {c}
    <3> DEFINE p == Pdu(op, c)
    <3>1. p \in PDUs /\ p.cmd = c
      BY <1>2, <2>1 DEF Pdu, PDUs
    <3>2. c2t' = Append(c2t, p) /\ c2t \in Seq(PDUs) /\ DistinctPdus(c2t)
      BY <2>1 DEF Once, Wire
    <3> HIDE DEF p
    <3> QED BY <2>2, <3>1, <3>2, PdusAppend
  <2>4. \A d \in AllCmds : /\ cmd'[d].status = cmd[d].status /\ cmd'[d].calls = cmd[d].calls
                           /\ cmd'[d].txDone = cmd[d].txDone
    <3> DEFINE b == (op = "data")
    <3>1. cmd' = [cmd EXCEPT ![c].sent = b]
      BY <2>1
    <3> HIDE DEF b
    <3> QED BY <1>2, <3>1 DEF Held, CmdTable, Fields
  <2>5. AtTx' = {}
    BY <2>1 DEF AtTx
  <2>6. sess # FALSE
    BY <1>2 DEF ThreadInv, Life
  <2>7. Wire'
    BY <1>2, <1>3, <2>3, <2>6 DEF Once, Wire, DistinctPdus, Carried
  <2>8. OnePlace'
    <3>1. Carried(t2c') = Carried(t2c)
      BY <1>2 DEF Carried
    <3> QED BY <1>3, <2>2, <2>3, <2>5, <3>1 DEF Once, OnePlace
  <2>9. Calls'
    BY <1>2, <1>4, <2>4 DEF Once, Calls, AllCmds
  <2>10. Workers'
    BY <1>1, <1>2, <1>3, <2>1, <2>4 DEF Once, Workers
  <2> QED BY <1>5, <2>7, <2>8, <2>9, <2>10 DEF Once
<1>7. CASE conn # "up"
  <2>1. UNCHANGED <<c2t, cmd>> /\ tx'.pc = "stopRx"
    BY <1>7 DEF TxSend, TxGoto, ThreadInv, Threads
  <2>2. AtTx' = AtTx
    BY <1>2, <1>3, <2>1 DEF AtTx
  <2>3. Wire'
    BY <1>2, <2>1 DEF Once, Wire, DistinctPdus, Carried
  <2>4. OnePlace'
    BY <1>2, <1>3, <2>1, <2>2, OnePlaceFrame DEF Once
  <2>5. Calls'
    BY <1>2, <1>4, <2>1 DEF Once, Calls
  <2>6. Workers'
    BY <1>1, <1>2, <1>3, <2>1 DEF Once, Workers
  <2> QED BY <1>5, <2>3, <2>4, <2>5, <2>6 DEF Once
<1> QED BY <1>6, <1>7

\* The tx worker forgets the command before the rx worker may go on with it.
LEMMA TxWorkerOnce == ASSUME ThreadInv, Held, Once, TxWorker PROVE Once'
<1>1. CASE TxDone
  <2>1. PICK c : c = tx.cmd
    OBVIOUS
  <2>2. /\ tx.pc = "done" /\ UNCHANGED <<rx, sw, txq, tmpq, hash, sess, mgr, c2t, t2c>>
        /\ tx'.pc = "check" /\ tx'.cmd = NoCmd
    BY <1>1 DEF TxDone, netVars, ThreadInv, Threads
  <2>3. cmd' = [cmd EXCEPT ![c].txDone = TRUE,
                           ![c].r2treq = IF cmd[c].sent THEN @ - 1 ELSE @]
    BY <1>1, <2>1 DEF TxDone
  <2>4. \A d \in AllCmds : cmd'[d].status = cmd[d].status /\ cmd'[d].calls = cmd[d].calls
    BY <2>3 DEF Held, CmdTable, Fields
  <2>5. AtTx' = {} /\ AtRx' = AtRx /\ InHand' = {} /\ InHand = {}
    BY <2>2 DEF AtTx, AtRx, InHand
  <2>6. Wire' /\ Queued'
    BY <2>2 DEF Once, Wire, Queued, Distinct, DistinctPdus, Carried
  <2>7. OnePlace' /\ Workers'
    BY <2>2, <2>5 DEF Once, OnePlace, Workers, Carried
  <2>8. Known' = Known
    BY <2>2, <2>5 DEF Known
  <2>9. Calls'
    BY <2>2, <2>4, <2>8 DEF Once, Calls, AllCmds
  <2> QED BY <2>6, <2>7, <2>9 DEF Once
<1>2. CASE TxCheck \/ TxNothing \/ TxExit
  <2>1. UNCHANGED <<c2t, t2c, txq, tmpq, hash, cmd, mgr, sess, sw, rx>>
    BY <1>2 DEF TxCheck, TxNothing, TxExit, cmdVars, netVars
  <2>2. tx.cmd = NoCmd
    BY <1>2 DEF TxCheck, TxNothing, TxExit, Once, Workers
  <2>3. /\ tx'.cmd = tx.cmd /\ tx'.pc \notin {"hold", "send", "done"}
        /\ tx.pc = "joinRx" => tx'.pc = "exited"
        /\ tx.pc # "exited"
    BY <1>2 DEF TxCheck, TxNothing, TxExit, TxGoto, ThreadInv, Threads
  <2>4. rx'.stop => tx'.pc \in {"joinRx", "exited"}
    BY <2>1, <2>3 DEF Once, Workers
  <2>5. tmpq # <<>> => mgr' \in {"drain", "refill", "exited"}
    BY <2>1 DEF Once, Queued
  <2>6. sw'.pc # "await" => sw.pc # "await" \/ cmd[Login].status # "pending"
    BY <2>1
  <2> QED BY <2>1, <2>2, <2>3, <2>4, <2>5, <2>6, OnceFrame
<1>3. CASE TxStopRx
  <2>1. /\ UNCHANGED <<c2t, t2c, txq, tmpq, hash, cmd, mgr, sess, sw>>
        /\ tx'.pc = "joinRx" /\ tx'.cmd = NoCmd
        /\ rx'.pc = rx.pc /\ rx'.pdu = rx.pdu
    BY <1>3 DEF TxStopRx, cmdVars, netVars, ThreadInv, Threads
  <2>2. tmpq # <<>> => mgr' \in {"drain", "refill", "exited"}
    BY <2>1 DEF Once, Queued
  <2>3. sw'.pc # "await" => sw.pc # "await" \/ cmd[Login].status # "pending"
    BY <2>1
  <2> QED BY <2>1, <2>2, <2>3, OnceFrame
<1> QED BY <1>1, <1>2, <1>3, TxRemoveOnce, TxPutBackOnce, TxTakeOnce, TxSendOnce DEF TxWorker

\* What the rx worker reads is off the wire, and its command is one in the hash.
LEMMA RxReadOnce == ASSUME ThreadInv, Held, Once, RxRead PROVE Once'
<1>1. UNCHANGED <<txq, tmpq, hash, cmd, sess, mgr, sw, tx, c2t>> /\ rx.pc = "read"
  BY DEF RxRead, cmdVars
<1>2. mgr \notin Ending /\ sess # FALSE
  BY <1>1 DEF ThreadInv, Life, Ending
<1>3. rx'.stop = rx.stop
  BY DEF RxRead, ThreadInv, Threads
<1>4. CASE t2c = <<>>
  <2>1. UNCHANGED t2c /\ rx'.pc = "exited"
    BY <1>4 DEF RxRead, ThreadInv, Threads
  <2>2. tmpq # <<>> => mgr' \in {"drain", "refill", "exited"}
    BY <1>1 DEF Once, Queued
  <2>3. rx'.stop => tx'.pc \in {"joinRx", "exited"}
    BY <1>1, <1>3 DEF Once, Workers
  <2>4. tx.cmd # NoCmd => tx'.pc = tx.pc
    BY <1>1
  <2> QED BY <1>1, <2>1, <2>2, <2>3, <2>4, OnceFrame
<1>5. CASE t2c # <<>>
  <2>1. PICK p : p = Head(t2c)
    OBVIOUS
  <2>2. /\ t2c' = Tail(t2c)
        /\ rx'.pc = "exited" \/ (rx'.pc = "wait" /\ rx'.pdu = p /\ p.cmd \in hash /\ ~rx.stop)
    BY <1>5, <2>1 DEF RxRead, ThreadInv, Threads
  <2>3. /\ DistinctPdus(t2c') /\ t2c' \in Seq(PDUs) /\ p \in PDUs
        /\ Carried(t2c) = Carried(t2c') \cup {p.cmd}
        /\ p.cmd \notin Carried(t2c')
    BY <1>5, <2>1, <2>2, PdusTail DEF Once, Wire
  <2>4. /\ AtTx' = AtTx /\ AtRx' \subseteq {p.cmd} /\ Carried(c2t') = Carried(c2t)
        /\ InHand' = InHand
    BY <1>1, <2>2 DEF AtTx, AtRx, Carried, InHand
  <2>5. AtRx' \subseteq hash
    BY <2>2 DEF AtRx
  <2>6. Wire'
    BY <1>1, <1>2, <2>3, <2>4 DEF Once, Wire, DistinctPdus, Ending
  <2>7. Queued'
    BY <1>1 DEF Once, Queued, Distinct
  <2>8. Known' = Known
    BY <1>1, <2>4 DEF Known
  <2>9. Calls'
    BY <1>1, <2>8 DEF Once, Calls
  <2>10. OnePlace'
    BY <2>3, <2>4 DEF Once, OnePlace
  <2>11. Workers'
    BY <1>1, <1>3, <2>2, <2>3, <2>5 DEF Once, Workers
  <2> QED BY <2>6, <2>7, <2>9, <2>10, <2>11 DEF Once
<1> QED BY <1>4, <1>5

\* After a response nothing leads to its command; after an R2T only the tx queue does,
\* or, when that is full, nothing.
LEMMA RxAnswerOnce ==
    ASSUME ThreadInv, Held, Once, login_response_i \/ scsi_response_i \/ scsi_r2t_rx_i
    PROVE  Once'
<1>1. PICK c : c = rx.pdu.cmd
  OBVIOUS
<1>2. /\ rx.pc = "wait" /\ c \in AllCmds /\ UNCHANGED <<sess, mgr, sw, tmpq, c2t, t2c>>
      /\ rx'.pc \in {"read", "exited"} /\ rx'.stop = rx.stop
      /\ cmd[c].txDone \/ rx.stop
  BY <1>1 DEF login_response_i, scsi_response_i, scsi_r2t_rx_i, RxAnswers, netVars, ThreadInv,
              Threads, Held
<1>3. AtRx = {c} /\ AtRx' = {} /\ mgr \notin Ending /\ tmpq = <<>>
  BY <1>1, <1>2 DEF AtRx, ThreadInv, Life, Ending, Once, Queued
<1>4. c \in hash /\ c \notin Carried(c2t) \cup Carried(t2c) \cup AtTx
  BY <1>3 DEF Once, OnePlace, Workers
<1>5. tx.cmd # c
  BY <1>2, <1>4, CmdsAssumption DEF Once, Workers, AtTx, AllCmds
<1>6. c \notin Range(txq) /\ cmd[c].status = "pending" /\ (c \in Cmds => cmd[c].calls = 0)
  BY <1>2, <1>4 DEF Once, Queued, Calls, Known
<1>7. CASE login_response_i \/ scsi_response_i
  <2>1. /\ UNCHANGED <<tx, txq>> /\ hash' = hash \ {c} /\ cmd' = Called(c, "good")
    <3>1. CASE scsi_response_i
      BY <1>1, <3>1 DEF scsi_response_i, Done
    <3>2. CASE login_response_i
      <4>1. c = Login
        BY <1>1, <1>2, <3>2 DEF login_response_i, RxAnswers, Once, Workers, PDUs
      <4> QED BY <3>2, <4>1 DEF login_response_i, Done
    <3> QED BY <1>7, <3>1, <3>2
  <2>2. /\ cmd'[c].status = "good" /\ cmd'[c].calls = cmd[c].calls + 1
        /\ \A e \in AllCmds \ {c} : cmd'[e] = cmd[e]
    BY <1>2, <2>1, CalledProperties DEF Held
  <2>3. AtTx' = AtTx /\ InHand' = InHand /\ c \notin InHand
    BY <1>5, <2>1 DEF AtTx, InHand
  <2>4. Wire'
    BY <1>2, <1>3, <1>4, <2>1 DEF Once, Wire, DistinctPdus, Carried, Ending
  <2>5. Queued'
    BY <1>2, <2>1 DEF Once, Queued, Distinct
  <2>6. OnePlace'
    BY <1>2, <1>3, <2>3, OnePlaceFrame DEF Once
  <2>7. Workers'
    BY <1>2, <1>3, <1>5, <2>1, <2>2 DEF Once, Workers
  <2>8. Known' = Known \ {c}
    <3>1. Range(tmpq) = {}
      BY <1>3 DEF Range
    <3> QED BY <1>2, <1>6, <2>1, <2>3, <3>1 DEF Known
  <2>9. Calls'
    BY <1>2, <1>6, <2>2, <2>8 DEF Once, Calls, AllCmds
  <2> QED BY <2>4, <2>5, <2>6, <2>7, <2>9 DEF Once
<1>8. CASE scsi_r2t_rx_i
  <2>1. /\ hash' = hash \ {c} /\ cmd' = [cmd EXCEPT ![c].r2treq = @ + 1]
        /\ txq' = txq \/ txq' = Append(txq, c)
    BY <1>1, <1>8 DEF scsi_r2t_rx_i
  <2>2. /\ tx'.cmd = tx.cmd /\ tx'.stop = tx.stop
        /\ tx'.pc = tx.pc \/ (tx.pc = "blocked" /\ tx'.pc = "take")
    BY <1>8, WokenProperties DEF scsi_r2t_rx_i, ThreadInv
  <2>3. Distinct(txq') /\ Range(txq') \subseteq Range(txq) \cup {c}
    BY <1>2, <1>6, <2>1, DistinctAppend DEF Held, Once, Queued
  <2>4. \A d \in AllCmds : /\ cmd'[d].status = cmd[d].status /\ cmd'[d].calls = cmd[d].calls
                           /\ cmd'[d].txDone = cmd[d].txDone
    BY <1>2, <2>1 DEF Held, CmdTable, Fields
  <2>5. AtTx' = AtTx /\ InHand' = InHand
    BY <2>2 DEF AtTx, InHand
  <2>6. Wire'
    BY <1>2, <1>3, <1>4, <2>1 DEF Once, Wire, DistinctPdus, Carried, Ending
  <2>7. Queued'
    <3>1. Range(tmpq) = {}
      BY <1>3 DEF Range
    <3> QED BY <1>2, <1>3, <2>1, <2>3, <3>1 DEF Once, Queued, Distinct
  <2>8. OnePlace'
    BY <1>2, <1>3, <2>5, OnePlaceFrame DEF Once
  <2>9. Workers'
    BY <1>2, <1>3, <1>5, <2>1, <2>2, <2>3, <2>4 DEF Once, Workers
  <2>10. Known' \subseteq Known
    BY <1>2, <1>4, <2>1, <2>3, <2>5 DEF Known
  <2>11. Calls'
    BY <1>2, <2>4, <2>10 DEF Once, Calls, AllCmds
  <2> QED BY <2>6, <2>7, <2>8, <2>9, <2>11 DEF Once
<1> QED BY <1>7, <1>8

\* Draining takes a command off one queue; a login is over, anything else goes to the
\* other queue, or is lost.
LEMMA MgrDrainOnce == ASSUME ThreadInv, Held, Once, MgrDrain PROVE Once'
<1>1. PICK c : c = Head(txq)
  OBVIOUS
<1>2. /\ mgr = "drain" /\ txq # <<>> /\ txq' = Tail(txq)
      /\ mgr' \in {"drain", "exited"} /\ UNCHANGED <<tx, rx, sw, sess, c2t, t2c>>
  BY DEF MgrDrain, netVars
<1>3. /\ Distinct(txq') /\ Range(txq) = Range(txq') \cup {c} /\ c \notin Range(txq')
      /\ c \in AllCmds
  BY <1>1, <1>2, DistinctTail DEF Held, Once, Queued
<1>4. c \notin hash \cup Range(tmpq)
  BY <1>3 DEF Once, Queued
<1>5. /\ tx.pc = "exited" /\ tx.cmd = NoCmd /\ AtTx' = {} /\ AtRx' = AtRx
      /\ InHand = {} /\ InHand' = {} /\ AtTx = {}
  BY <1>2 DEF ThreadInv, Life, Once, Workers, AtTx, AtRx, InHand
<1>6. CASE c = Login
  <2>1. cmd' = Called(Login, "aborted") /\ hash' = hash /\ UNCHANGED <<mgr, tmpq>>
    BY <1>1, <1>4, <1>6 DEF MgrDrain, Done
  <2>2. cmd'[Login].status = "aborted" /\ \A d \in AllCmds \ {Login} : cmd'[d] = cmd[d]
    BY <2>1, LoginAborted
  <2>3. Wire' /\ OnePlace'
    <3>1. Wire'
      BY <1>2, <2>1 DEF Once, Wire, DistinctPdus, Carried
    <3> QED BY <1>2, <1>5, <3>1, OnePlaceFrame DEF Once
  <2>4. Queued'
    BY <1>2, <1>3, <2>1 DEF Once, Queued, Distinct
  <2>5. Workers'
    BY <1>2, <1>5, <2>1 DEF Once, Workers
  <2>6. Known' = Known \ {Login}
    BY <1>3, <1>4, <1>5, <1>6, <2>1 DEF Known
  <2>7. Calls'
    BY <1>2, <2>2, <2>6, CmdsAssumption DEF Once, Calls, AllCmds
  <2> QED BY <2>3, <2>4, <2>5, <2>7 DEF Once
<1>7. CASE c # Login
  <2>1. UNCHANGED <<hash, cmd>> /\ (tmpq' = tmpq \/ tmpq' = Append(tmpq, c))
    BY <1>1, <1>7 DEF MgrDrain
  <2>2. Distinct(tmpq') /\ Range(tmpq') \subseteq Range(tmpq) \cup {c}
    BY <1>3, <1>4, <2>1, DistinctAppend DEF Held, Once, Queued
  <2>3. Wire' /\ OnePlace'
    <3>1. Wire'
      BY <1>2, <2>1 DEF Once, Wire, DistinctPdus, Carried
    <3> QED BY <1>2, <1>5, <3>1, OnePlaceFrame DEF Once
  <2>4. Queued'
    BY <1>2, <1>3, <1>4, <1>7, <2>1, <2>2 DEF Once, Queued
  <2>5. Workers'
    BY <1>2, <1>5, <2>1 DEF Once, Workers
  <2>6. Known' \subseteq Known
    BY <1>3, <1>5, <2>1, <2>2 DEF Known
  <2>7. Calls'
    BY <1>2, <2>1, <2>6 DEF Once, Calls
  <2> QED BY <2>3, <2>4, <2>5, <2>7 DEF Once
<1> QED BY <1>6, <1>7

\* Refilling takes it back.
LEMMA MgrRefillOnce == ASSUME ThreadInv, Held, Once, MgrRefill PROVE Once'
<1>1. PICK c : c = Head(tmpq)
  OBVIOUS
<1>2. /\ mgr = "refill" /\ tmpq # <<>> /\ tmpq' = Tail(tmpq)
      /\ mgr' \in {"refill", "exited"} /\ UNCHANGED <<tx, rx, sw, sess, hash, cmd, c2t, t2c>>
      /\ txq' = txq \/ txq' = Append(txq, c)
  BY <1>1 DEF MgrRefill, netVars
<1>3. /\ Distinct(tmpq') /\ Range(tmpq) = Range(tmpq') \cup {c} /\ c \notin Range(tmpq')
      /\ c \in AllCmds
  BY <1>1, <1>2, DistinctTail DEF Held, Once, Queued
<1>4. c \notin hash \cup Range(txq)
  BY <1>3 DEF Once, Queued
<1>5. Distinct(txq') /\ Range(txq') \subseteq Range(txq) \cup {c}
  BY <1>2, <1>3, <1>4, InsertDistinct DEF Held, Once, Queued
<1>6. /\ tx.pc = "exited" /\ tx.cmd = NoCmd /\ AtTx' = AtTx /\ AtRx' = AtRx
      /\ InHand = {} /\ InHand' = {}
  BY <1>2 DEF ThreadInv, Life, Once, Workers, AtTx, AtRx, InHand
<1>7. Wire' /\ OnePlace'
  <2>1. Wire'
    BY <1>2 DEF Once, Wire, DistinctPdus, Carried
  <2> QED BY <1>2, <1>6, <2>1, OnePlaceFrame DEF Once
<1>8. Queued'
  BY <1>2, <1>3, <1>4, <1>5 DEF Once, Queued
<1>9. Workers'
  BY <1>2, <1>6 DEF Once, Workers
<1>10. Known' \subseteq Known
  BY <1>2, <1>3, <1>5, <1>6 DEF Known
<1>11. Calls'
  BY <1>2, <1>10 DEF Once, Calls
<1> QED BY <1>7, <1>8, <1>9, <1>11 DEF Once

\* Requeueing takes a command out of the hash.
LEMMA MgrRequeueOnce ==
    ASSUME ThreadInv, Held, Once, NEW c \in AllCmds, MgrRequeue(c)
    PROVE  Once'
<1>1. /\ mgr = "requeue" /\ c \in hash /\ hash' = hash \ {c} /\ mgr' \in Ending
      /\ UNCHANGED <<tx, rx, sw, tmpq, sess, c2t, t2c>>
  BY DEF MgrRequeue, netVars, Ending
<1>2. /\ tx.pc = "exited" /\ rx.pc = "exited" /\ tx.cmd = NoCmd /\ tmpq = <<>>
      /\ Range(tmpq) = {}
  BY <1>1 DEF ThreadInv, Life, Once, Workers, Queued, Range
<1>3. AtTx' = {} /\ AtRx' = {} /\ InHand = {} /\ InHand' = {}
  BY <1>1, <1>2 DEF AtTx, AtRx, InHand
<1>4. c \notin Range(txq) /\ cmd[c].status = "pending" /\ (c \in Cmds => cmd[c].calls = 0)
  BY <1>1 DEF Once, Calls, Queued, Known
<1>5. Wire'
  BY <1>1 DEF Once, Wire, DistinctPdus, Ending
<1>6. OnePlace'
  BY <1>1, <1>3 DEF Once, OnePlace, Carried
<1>7. Workers'
  BY <1>1, <1>2, <1>3 DEF Once, Workers
<1>8. CASE c = Login
  <2>1. cmd' = Called(Login, "aborted") /\ UNCHANGED txq
    BY <1>8 DEF MgrRequeue
  <2>2. cmd'[Login].status = "aborted" /\ \A d \in AllCmds \ {Login} : cmd'[d] = cmd[d]
    BY <2>1, LoginAborted
  <2>3. Queued'
    BY <1>1, <1>2, <2>1 DEF Once, Queued, Distinct
  <2>4. Known' = Known \ {Login}
    BY <1>1, <1>2, <1>3, <1>4, <1>8, <2>1 DEF Known
  <2>5. Calls'
    BY <1>1, <2>2, <2>4, CmdsAssumption DEF Once, Calls, AllCmds
  <2> QED BY <1>5, <1>6, <1>7, <2>3, <2>5 DEF Once
<1>9. CASE c # Login
  <2>1. cmd' = Reset(c) /\ (txq' = txq \/ txq' = Append(txq, c)) /\ c \in Cmds
    BY <1>9 DEF MgrRequeue, AllCmds
  <2>2. Distinct(txq') /\ Range(txq') \subseteq Range(txq) \cup {c}
    BY <1>4, <2>1, InsertDistinct DEF Held, Once, Queued
  <2>3. /\ cmd'[c].status = "pending" /\ cmd'[c].calls = cmd[c].calls
        /\ \A d \in AllCmds \ {c} : cmd'[d] = cmd[d]
    BY <2>1, ResetProperties DEF Held
  <2>4. Queued'
    BY <1>1, <1>2, <2>2 DEF Once, Queued, Distinct
  <2>5. Known' \subseteq Known
    BY <1>1, <1>3, <2>2 DEF Known
  <2>6. Calls'
    BY <1>1, <1>4, <1>9, <2>3, <2>5 DEF Once, Calls, AllCmds
  <2> QED BY <1>5, <1>6, <1>7, <2>4, <2>6 DEF Once
<1> QED BY <1>8, <1>9

\* The other steps of the manager touch no command.
LEMMA ManagerOnce == ASSUME ThreadInv, Held, Once, Manager PROVE Once'
<1>1. CASE MgrClose
  <2>1. /\ c2t' = <<>> /\ t2c' = <<>> /\ UNCHANGED <<tx, rx, sw, txq, tmpq, hash, cmd>>
        /\ mgr = "requeue"
    BY <1>1 DEF MgrClose, cmdVars
  <2>2. AtTx' = AtTx /\ AtRx' = AtRx /\ InHand' = InHand /\ tmpq = <<>>
    BY <2>1 DEF AtTx, AtRx, InHand, Once, Queued
  <2>3. Wire'
    BY <2>1, EmptyWire DEF Once, Wire
  <2>4. Queued'
    BY <2>1, <2>2 DEF Once, Queued, Distinct
  <2>5. OnePlace' /\ Workers'
    BY <2>1, <2>2, EmptyWire DEF Once, OnePlace, Workers
  <2>6. Known' = Known
    BY <2>1, <2>2 DEF Known
  <2>7. Calls'
    BY <2>1, <2>6 DEF Once, Calls
  <2> QED BY <2>3, <2>4, <2>5, <2>7 DEF Once
<1>2. CASE MgrStopTx
  <2>1. UNCHANGED <<c2t, t2c, txq, tmpq, hash, cmd, rx, sw, sess>> /\ mgr = "stopTx"
    BY <1>2 DEF MgrStopTx, cmdVars
  <2>2. /\ tx'.cmd = tx.cmd
        /\ tx'.pc = tx.pc \/ (tx.pc = "blocked" /\ tx'.pc = "take")
    <3> DEFINE w == Woken(tx)
    <3>1. tx' = [w EXCEPT !.stop = TRUE]
      BY <1>2 DEF MgrStopTx
    <3>2. w = [pc |-> w.pc, cmd |-> tx.cmd, stop |-> tx.stop] /\
          w.pc = IF tx.pc = "blocked" THEN "take" ELSE tx.pc
      BY DEF Woken, ThreadInv, Threads
    <3> HIDE DEF w
    <3> QED BY <3>1, <3>2
  <2>3. tx.pc = "blocked" => tx.cmd = NoCmd
    BY DEF Once, Workers
  <2>4. tmpq = <<>>
    BY <2>1 DEF Once, Queued
  <2>5. rx'.stop => tx'.pc \in {"joinRx", "exited"}
    BY <2>1, <2>2 DEF Once, Workers
  <2>6. mgr \notin Ending
    BY <2>1 DEF Ending
  <2> QED BY <2>1, <2>2, <2>3, <2>4, <2>5, <2>6, OnceFrame
<1>3. CASE MgrStart \/ MgrDestroy \/ MgrJoinTx \/ MgrDrained \/ MgrRefilled \/ MgrJoin
  <2>1. UNCHANGED <<c2t, t2c, txq, tmpq, hash, cmd, tx, rx, sess>> /\ mgr \notin Ending
    BY <1>3 DEF MgrStart, MgrDestroy, MgrJoinTx, MgrDrained, MgrRefilled, MgrJoin, cmdVars,
                netVars, Ending
  <2>2. tmpq # <<>> => mgr' \in {"drain", "refill", "exited"}
    BY <1>3 DEF MgrStart, MgrDestroy, MgrJoinTx, MgrDrained, MgrRefilled, MgrJoin, Once,
                Queued
  <2>3. sw'.pc # "await" => sw.pc # "await" \/ cmd[Login].status # "pending"
    BY <1>3 DEF MgrStart, MgrDestroy, MgrJoinTx, MgrDrained, MgrRefilled, MgrJoin,
                ThreadInv, Threads, Life
  <2> QED BY <2>1, <2>2, <2>3, OnceFrame DEF Once, Workers
<1> QED BY <1>1, <1>2, <1>3, MgrDrainOnce, MgrRefillOnce, MgrRequeueOnce DEF Manager, AllCmds

\* The target answers one PDU with one of the same command, and a connection breaks
\* with all that is on it.
LEMMA NetworkOnce == ASSUME ThreadInv, Held, Once, Target \/ Drop PROVE Once'
<1>1. UNCHANGED <<txq, tmpq, hash, cmd, sess, mgr, sw, tx, rx>>
  BY DEF Target, TargetCommand, TargetData, Drop, threadVars, cmdVars
<1>2. AtTx' = AtTx /\ AtRx' = AtRx /\ InHand' = InHand
  BY <1>1 DEF AtTx, AtRx, InHand
<1>3. Queued' /\ Workers'
  BY <1>1, <1>2 DEF Once, Queued, Workers, Distinct
<1>4. Calls'
  <2>1. Known' = Known
    BY <1>1, <1>2 DEF Known
  <2> QED BY <1>1, <2>1 DEF Once, Calls
<1>5. CASE c2t' = <<>> /\ t2c' = <<>>
  <2>1. Carried(c2t') = {} /\ Carried(t2c') = {}
    BY <1>5, EmptyWire
  <2>2. OnePlace'
    BY <1>2, <2>1 DEF Once, OnePlace
  <2>3. Wire'
    BY <1>5, <2>1, EmptyWire DEF Wire
  <2> QED BY <1>3, <1>4, <2>2, <2>3 DEF Once
<1>6. ASSUME NEW op \in Ops, c2t # <<>>, c2t' = Tail(c2t), op # "login",
             op = "login_response" => Head(c2t).op = "login",
             t2c' = Append(t2c, Pdu(op, Head(c2t).cmd))
      PROVE  Once'
  <2>1. PICK h : h = Head(c2t)
    OBVIOUS
  <2>2. PICK c : c = h.cmd
    OBVIOUS
  <2>3. /\ DistinctPdus(c2t') /\ c2t' \in Seq(PDUs) /\ h \in PDUs
        /\ Carried(c2t) = Carried(c2t') \cup {c}
        /\ c \notin Carried(c2t')
    BY <1>6, <2>1, <2>2, PdusTail DEF Once, Wire
  <2>4. /\ DistinctPdus(t2c') /\ t2c' \in Seq(PDUs)
        /\ Carried(t2c') = Carried(t2c) \cup {c}
    <3> DEFINE p == Pdu(op, c)
    <3>1. t2c \in Seq(PDUs) /\ DistinctPdus(t2c) /\ c \notin Carried(t2c)
      BY <2>3 DEF Once, Wire, OnePlace
    <3>2. p \in PDUs /\ p.cmd = c /\ t2c' = Append(t2c, p)
      BY <1>6, <2>1, <2>2, <2>3 DEF Pdu, PDUs
    <3> HIDE DEF p
    <3> QED BY <3>1, <3>2, PdusAppend
  <2>5. sess # FALSE
    BY <1>6 DEF Once, Wire
  <2>6. Wire'
    BY <1>1, <2>3, <2>4, <2>5 DEF Once, Wire
  <2>7. OnePlace'
    BY <1>2, <2>3, <2>4 DEF Once, OnePlace
  <2> QED BY <1>3, <1>4, <2>6, <2>7 DEF Once
<1>7. CASE TargetCommand
  BY <1>6, <1>7 DEF TargetCommand, Answer, Ops
<1>8. CASE TargetData
  BY <1>5, <1>6, <1>8 DEF TargetData, Answer, Ops
<1>9. CASE Drop
  BY <1>5, <1>9 DEF Drop
<1> QED BY <1>7, <1>8, <1>9 DEF Target

-----------------------------------------------------------------------------

OnceInv == ThreadInv /\ Held /\ Once

\* All three parts of the invariant survive every step.
LEMMA OnceKept == OnceInv /\ [Next]_vars => OnceInv'
<1> SUFFICES ASSUME ThreadInv, Held, Once, [Next]_vars
             PROVE  ThreadInv' /\ Held' /\ Once'
  BY DEF OnceInv
<1>1. ThreadInv' /\ Held'
  BY ThreadsAndHeld
<1>2. CASE UNCHANGED vars
  <2>1. UNCHANGED <<c2t, t2c, txq, tmpq, hash, cmd, sess, mgr, sw, tx, rx>>
    BY <1>2 DEF vars, threadVars, cmdVars, netVars
  <2> QED BY <1>1, <2>1, OnceFrame DEF Once, Workers, Queued
<1>3. RxWorker => Once'
  BY RxReadOnce, RxAnswerOnce DEF RxWorker
<1>4. (\E c \in Cmds : initiator_enqueue(c)) => Once'
  BY CallersOnce
<1> QED BY <1>1, <1>2, <1>3, <1>4, SessionWorkerOnce, TxWorkerOnce, ManagerOnce,
           NetworkOnce DEF Next, Step

\* Nothing is wrong before the first session.
LEMMA OnceInvInit == Init => OnceInv
  BY ThreadInit, HeldInit, OnceInit DEF OnceInv

\* The callback of a command runs once, however many sessions and insertions fail in
\* between, and then the queues, the hash and the tx worker have forgotten the command:
\* iscsi_done_i (initiator.c 105-126), session_destroy_i (543-582) and tx_worker_proc_i
\* never meet it again.
THEOREM CompletedOnce == Spec => []DoneIsForgotten
<1>1. OnceInv => DoneIsForgotten
  <2> SUFFICES ASSUME Once, NEW c \in Cmds
               PROVE  /\ cmd[c].calls <= 1
                      /\ cmd[c].status = "good" => c \notin Known /\ tx.cmd # c
    BY DEF DoneIsForgotten, OnceInv
  <2>1. c \in AllCmds /\ c # NoCmd
    BY CmdsAssumption DEF AllCmds
  <2>2. tx.cmd = c => c \in Known
    BY <2>1 DEF Once, Workers, Known, InHand
  <2> QED BY <2>1, <2>2 DEF Once, Calls
<1> QED BY <1>1, OnceInvInit, OnceKept, PTL DEF Spec

-----------------------------------------------------------------------------
(***************************************************************************)
(* No command is lost.                                                       *)
(*                                                                           *)
(* What is known and not completed is outstanding, or the login.  A queue    *)
(* without repetition that lacks one of these holds at most as many as       *)
(* callers may have outstanding: with Room every insertion finds a place.    *)
(***************************************************************************)

Bounded == IsFiniteSet(Outstanding) /\ Cardinality(Outstanding) <= Callers

KeptInv == Bounded /\ NothingLost

\* A queue without repetition is no longer than a set that it is drawn from.
LEMMA LengthBound ==
    ASSUME NEW s \in Seq(AllCmds), Distinct(s), NEW T, IsFiniteSet(T), Range(s) \subseteq T
    PROVE  Len(s) <= Cardinality(T)
<1>1. /\ s \in [1..Len(s) -> AllCmds] /\ Len(s) \in Nat
  BY LenProperties
<1>2. \A i \in 1..Len(s) : s[i] \in T
  BY <1>1 DEF Range
<1>3. s \in Injection(1..Len(s), T)
  BY <1>1, <1>2 DEF Injection, IsInjective, Distinct
<1>4. IsFiniteSet(1..Len(s)) /\ Cardinality(1..Len(s)) = Len(s)
  <2>1. 1 \in Int /\ Len(s) \in Int
    BY <1>1
  <2>2. /\ IsFiniteSet(1..Len(s))
        /\ Cardinality(1..Len(s)) = IF 1 > Len(s) THEN 0 ELSE Len(s) - 1 + 1
    BY <2>1, FS_Interval, Zenon
  <2> QED BY <1>1, <2>2
<1>5. Cardinality(1..Len(s)) <= Cardinality(T)
  BY <1>3, <1>4, FS_Injection
<1> QED BY <1>4, <1>5

\* A queue has room for a command that is outstanding and not on it.
LEMMA RoomForIt ==
    ASSUME Calls, Bounded, Room, NEW q \in Seq(AllCmds), Distinct(q), Range(q) \subseteq Known,
           Known \subseteq AllCmds, NEW c \in Outstanding, c \notin Range(q)
    PROVE  ~Full(q)
<1> DEFINE T == Outstanding \ {c}
           U == T \cup {Login}
<1>1. IsFiniteSet(T) /\ Cardinality(T) = Cardinality(Outstanding) - 1
  BY FS_RemoveElement DEF Bounded
<1>2. Login \notin T
  BY CmdsAssumption DEF Outstanding
<1>3. IsFiniteSet(U) /\ Cardinality(U) = Cardinality(T) + 1
  BY <1>1, <1>2, FS_AddElement
<1>4. Range(q) \subseteq U
  BY DEF Calls, Outstanding, AllCmds
<1>5. Cardinality(Outstanding) \in Nat /\ Callers \in Nat /\ Len(q) \in Nat
  BY FS_CardinalityType, BoundsAssumption, LenProperties DEF Bounded
<1> HIDE DEF T, U
<1>6. Len(q) <= Cardinality(U)
  BY <1>3, <1>4, LengthBound
<1>7. Len(q) <= Callers
  BY <1>1, <1>3, <1>5, <1>6 DEF Bounded
<1> QED BY <1>5, <1>7 DEF Room, Full

\* What the queues hold is known, and commands are.
LEMMA KnownCommands ==
    ASSUME Held, Once
    PROVE  /\ Known \subseteq AllCmds /\ Distinct(txq) /\ Distinct(tmpq)
           /\ Range(txq) \subseteq Known /\ Range(tmpq) \subseteq Known /\ hash \subseteq Known
           /\ InHand \subseteq Known
           /\ \A c \in Cmds : c \in Known => c \in Outstanding
<1>1. Range(txq) \subseteq AllCmds /\ Range(tmpq) \subseteq AllCmds
  BY LenProperties DEF Held, Range
<1> QED BY <1>1 DEF Held, Once, Queued, Calls, Known, InHand, Outstanding, AllCmds

\* A step that accepts no command, and loses none if there is room
LEMMA KeptFrame ==
    ASSUME KeptInv, UNCHANGED scene,
           \A c \in Cmds : cmd'[c].status = "pending" => cmd[c].status = "pending",
           Room => /\ \A c \in Cmds : c \in Known /\ cmd'[c].status = "pending" => c \in Known'
                   /\ mgr # "exited" => mgr' # "exited"
    PROVE  KeptInv'
<1>1. Outstanding' \subseteq Outstanding
  BY DEF Outstanding
<1>2. IsFiniteSet(Outstanding') /\ Cardinality(Outstanding') <= Cardinality(Outstanding)
  BY <1>1, FS_Subset DEF KeptInv, Bounded
<1>3. Cardinality(Outstanding) \in Nat /\ Cardinality(Outstanding') \in Nat /\ Callers \in Nat
  BY <1>2, FS_CardinalityType, BoundsAssumption DEF KeptInv, Bounded
<1>4. Bounded'
  BY <1>2, <1>3 DEF KeptInv, Bounded
<1>5. Room' = Room
  BY DEF Room, QueueDepth
<1>6. NothingLost'
  BY <1>1, <1>5 DEF KeptInv, NothingLost, Outstanding
<1> QED BY <1>4, <1>6 DEF KeptInv

\* A step that leaves the queues and the hash alone, and no command in a thread's hands
LEMMA KeptStays ==
    ASSUME KeptInv, UNCHANGED <<scene, txq, tmpq, hash>>, tx.pc # "hold",
           \A c \in Cmds : cmd'[c].status = "pending" => cmd[c].status = "pending",
           mgr # "exited" => mgr' # "exited"
    PROVE  KeptInv'
<1>1. InHand = {}
  BY DEF InHand
<1>2. Known \subseteq Known'
  BY <1>1 DEF Known
<1> QED BY <1>2, KeptFrame

\* Nothing is outstanding at first.
LEMMA KeptInit == Init => KeptInv
<1> SUFFICES ASSUME Init PROVE KeptInv
  OBVIOUS
<1>1. \A c \in Cmds : cmd[c].status = "none"
  BY NewCmdProperties DEF Init
<1>2. Outstanding = {}
  BY <1>1 DEF Outstanding
<1>3. IsFiniteSet(Outstanding) /\ Cardinality(Outstanding) = 0
  BY <1>2, FS_EmptySet
<1>4. mgr # "exited"
  BY DEF Init
<1> QED BY <1>2, <1>3, <1>4, BoundsAssumption DEF KeptInv, Bounded, NothingLost

\* A command that is accepted is on the queue, and one more is outstanding.
LEMMA CallersKeep ==
    ASSUME ThreadInv, Held, Once, KeptInv, NEW c \in Cmds, initiator_enqueue(c), UNCHANGED scene
    PROVE  KeptInv'
<1>1. /\ txq' = Append(txq, c) /\ UNCHANGED <<tmpq, hash, mgr>> /\ cmd[c].status = "none"
      /\ tx' \in {tx, Woken(tx)} /\ Cardinality(Outstanding) < Callers
      /\ cmd' = [cmd EXCEPT ![c] = [NewCmd EXCEPT !.status = "pending"]]
  BY DEF initiator_enqueue
<1>2. c \in AllCmds
  BY DEF AllCmds
<1>3. cmd'[c].status = "pending" /\ \A d \in AllCmds \ {c} : cmd'[d] = cmd[d]
  BY <1>1, <1>2, AcceptProperties DEF Held
<1>4. c \notin Outstanding /\ Outstanding' = Outstanding \cup {c}
  BY <1>1, <1>3 DEF Outstanding, AllCmds
<1>5. IsFiniteSet(Outstanding') /\ Cardinality(Outstanding') = Cardinality(Outstanding) + 1
  BY <1>4, FS_AddElement DEF KeptInv, Bounded
<1>6. Cardinality(Outstanding) \in Nat /\ Callers \in Nat
  BY FS_CardinalityType, BoundsAssumption DEF KeptInv, Bounded
<1>7. Bounded'
  BY <1>1, <1>5, <1>6 DEF Bounded
<1>8. c \notin Range(txq)
  BY <1>1 DEF Once, Calls, Known, AllCmds
<1>9. Range(txq') = Range(txq) \cup {c}
  BY <1>1, <1>2, <1>8, DistinctAppend DEF Held, Once, Queued
<1>10. InHand' = InHand
  <2>1. tx'.cmd = tx.cmd /\ (tx'.pc = tx.pc \/ (tx.pc = "blocked" /\ tx'.pc = "take"))
    BY <1>1, WokenProperties DEF ThreadInv
  <2> QED BY <2>1 DEF InHand
<1>11. Known' = Known \cup {c}
  BY <1>1, <1>9, <1>10 DEF Known
<1>12. Room' = Room
  BY DEF Room, QueueDepth
<1>13. NothingLost'
  BY <1>1, <1>4, <1>11, <1>12 DEF KeptInv, NothingLost
<1> QED BY <1>7, <1>13 DEF KeptInv

\* The session worker inserts a login, and has no hand in commands.
LEMMA SessionWorkerKeeps ==
    ASSUME ThreadInv, Held, Once, KeptInv, SessionWorker, UNCHANGED scene
    PROVE  KeptInv'
<1>1. UNCHANGED <<tmpq, hash, mgr>>
  BY DEF SessionWorker, session_init_i, LoginCheck, LoginInsert, LoginAwait, get_full_feature,
         SwFail, SwExit, cmdVars
<1>2. CASE LoginInsert /\ ~Full(txq)
  <2>1. /\ txq' = Append(txq, Login) /\ tx' = Woken(tx) /\ Login \in AllCmds /\ sw.pc = "insert"
        /\ cmd' = [cmd EXCEPT ![Login] = [NewCmd EXCEPT !.status = "pending"]]
    BY <1>2 DEF LoginInsert, AllCmds
  <2>2. Login \notin Range(txq)
    BY <2>1 DEF Once, Calls, Known
  <2>3. Range(txq') = Range(txq) \cup {Login}
    BY <2>1, <2>2, DistinctAppend DEF Held, Once, Queued
  <2>4. \A d \in AllCmds \ {Login} : cmd'[d] = cmd[d]
    BY <2>1, AcceptProperties DEF Held
  <2>5. tx'.cmd = tx.cmd /\ (tx.pc = "hold" => tx'.pc = "hold")
    BY <2>1, WokenProperties DEF ThreadInv
  <2>6. Known \subseteq Known'
    BY <1>1, <2>3, <2>5 DEF Known, InHand
  <2>7. \A d \in Cmds : cmd'[d] = cmd[d]
    BY <2>4, CmdsAssumption DEF AllCmds
  <2> QED BY <1>1, <2>6, <2>7, KeptFrame
<1>3. CASE ~(LoginInsert /\ ~Full(txq))
  <2>1. UNCHANGED <<txq, cmd>>
    BY <1>3 DEF SessionWorker, session_init_i, LoginCheck, LoginInsert, LoginAwait,
                get_full_feature, SwFail, SwExit, cmdVars
  <2>2. tx'.cmd = tx.cmd /\ (tx.pc = "hold" => tx'.pc = "hold")
    <3>1. CASE session_init_i
      BY <3>1 DEF session_init_i, ThreadInv, Threads, Life
    <3>2. CASE LoginInsert
      BY <3>2, WokenProperties DEF LoginInsert, ThreadInv
    <3>3. CASE LoginCheck \/ LoginAwait \/ get_full_feature \/ SwFail \/ SwExit
      BY <3>3 DEF LoginCheck, LoginAwait, get_full_feature, SwFail, SwExit
    <3> QED BY <3>1, <3>2, <3>3 DEF SessionWorker
  <2>3. Known \subseteq Known'
    BY <1>1, <2>1, <2>2 DEF Known, InHand
  <2> QED BY <1>1, <2>1, <2>3, KeptFrame
<1> QED BY <1>2, <1>3

\* The tx worker takes a command into its hands, and from them into the hash or back to
\* the queue, which has room.
LEMMA TxWorkerKeeps ==
    ASSUME ThreadInv, Held, Once, KeptInv, TxWorker, UNCHANGED scene
    PROVE  KeptInv'
<1>1. CASE TxRemove
  <2>1. /\ txq # <<>> /\ txq' = Tail(txq) /\ UNCHANGED <<tmpq, hash, cmd, mgr>>
        /\ tx'.pc = "hold" /\ tx'.cmd = Head(txq) /\ tx.pc = "take"
    BY <1>1 DEF TxRemove, ThreadInv, Threads
  <2>2. Range(txq) = Range(txq') \cup {Head(txq)}
    BY <2>1, DistinctTail DEF Held, Once, Queued
  <2>3. Known \subseteq Known'
    BY <2>1, <2>2 DEF Known, InHand
  <2> QED BY <2>1, <2>3, KeptFrame
<1>2. CASE TxPutBack
  <2>1. PICK c : c = tx.cmd
    OBVIOUS
  <2>2. /\ tx.pc = "hold" /\ c # Login /\ UNCHANGED <<tmpq, hash, cmd, mgr>>
        /\ ~Full(txq) => txq' = Append(txq, c)
    BY <1>2, <2>1 DEF TxPutBack, TooEarly
  <2>3. InHand = {c} /\ c \in AllCmds /\ c \notin Range(txq)
    BY <2>1, <2>2 DEF InHand, Once, Workers
  <2>4. c \in Outstanding
    BY <2>2, <2>3, KnownCommands DEF AllCmds
  <2>5. Room => ~Full(txq)
    BY <2>3, <2>4, RoomForIt, KnownCommands DEF Held, Once, KeptInv
  <2>6. Room => Range(txq') = Range(txq) \cup {c}
    BY <2>2, <2>3, <2>5, DistinctAppend DEF Held, Once, Queued
  <2>7. Room => Known \subseteq Known'
    BY <2>2, <2>3, <2>6 DEF Known
  <2> QED BY <2>2, <2>7, KeptFrame
<1>3. CASE TxTake
  <2>1. PICK c : c = tx.cmd
    OBVIOUS
  <2>2. /\ hash' = hash \cup {c} /\ UNCHANGED <<txq, tmpq, mgr>> /\ tx.pc = "hold"
        /\ cmd' = [cmd EXCEPT ![c].txDone = FALSE]
    BY <1>3, <2>1 DEF TxTake
  <2>3. InHand = {c} /\ c \in AllCmds
    BY <2>1, <2>2 DEF InHand, Once, Workers
  <2>4. \A d \in AllCmds : cmd'[d].status = cmd[d].status
    BY <2>2, <2>3 DEF Held, CmdTable, Fields
  <2>5. Known \subseteq Known'
    BY <2>2, <2>3 DEF Known
  <2> QED BY <2>2, <2>4, <2>5, KeptFrame DEF AllCmds
<1>4. CASE TxSend
  <2>1. UNCHANGED <<txq, tmpq, hash, mgr>> /\ tx.pc = "send" /\ tx.cmd \in AllCmds
    BY <1>4 DEF TxSend, Once, Workers
  <2>2. PICK c : c = tx.cmd
    OBVIOUS
  <2>3. \A d \in AllCmds : cmd'[d].status = cmd[d].status
    <3>1. ASSUME NEW b, cmd' = [cmd EXCEPT ![c].sent = b]
          PROVE  \A d \in AllCmds : cmd'[d].status = cmd[d].status
      BY <2>1, <2>2, <3>1 DEF Held, CmdTable, Fields
    <3> QED BY <1>4, <2>2, <3>1 DEF TxSend
  <2> QED BY <2>1, <2>3, KeptStays DEF AllCmds
<1>5. CASE TxDone
  <2>1. UNCHANGED <<txq, tmpq, hash, mgr>> /\ tx.pc = "done" /\ tx.cmd \in AllCmds
    BY <1>5 DEF TxDone, Once, Workers
  <2>2. PICK c : c = tx.cmd
    OBVIOUS
  <2>3. cmd' = [cmd EXCEPT ![c].txDone = TRUE,
                           ![c].r2treq = IF cmd[c].sent THEN @ - 1 ELSE @]
    BY <1>5, <2>2 DEF TxDone
  <2>4. \A d \in AllCmds : cmd'[d].status = cmd[d].status
    BY <2>1, <2>2, <2>3 DEF Held, CmdTable, Fields
  <2> QED BY <2>1, <2>4, KeptStays DEF AllCmds
<1>6. CASE TxCheck \/ TxNothing \/ TxStopRx \/ TxExit
  <2>1. UNCHANGED <<txq, tmpq, hash, mgr, cmd>> /\ tx.pc # "hold"
    BY <1>6 DEF TxCheck, TxNothing, TxStopRx, TxExit, cmdVars
  <2> QED BY <2>1, KeptStays
<1> QED BY <1>1, <1>2, <1>3, <1>4, <1>5, <1>6 DEF TxWorker

\* The rx worker completes a command, or passes it from the hash to the queue, which has
\* room.
LEMMA RxWorkerKeeps ==
    ASSUME ThreadInv, Held, Once, KeptInv, RxWorker, UNCHANGED scene
    PROVE  KeptInv'
<1>1. CASE RxRead
  <2>1. UNCHANGED <<txq, tmpq, hash, mgr, cmd, tx>>
    BY <1>1 DEF RxRead, cmdVars
  <2>2. Known' = Known
    BY <2>1 DEF Known, InHand
  <2> QED BY <2>1, <2>2, KeptFrame
<1>2. CASE login_response_i \/ scsi_response_i
  <2>1. PICK c : c \in AllCmds /\ hash' = hash \ {c} /\ cmd' = Called(c, "good")
    <3>1. Login \in AllCmds
      BY DEF AllCmds
    <3>2. scsi_response_i => rx.pdu.cmd \in AllCmds
      BY DEF scsi_response_i, RxAnswers, Held
    <3> QED BY <1>2, <3>1, <3>2 DEF login_response_i, scsi_response_i, Done
  <2>2. UNCHANGED <<tx, txq, tmpq, mgr>>
    BY <1>2 DEF login_response_i, scsi_response_i
  <2>3. cmd'[c].status = "good" /\ \A d \in AllCmds \ {c} : cmd'[d] = cmd[d]
    BY <2>1, CalledProperties DEF Held
  <2>4. Known \ {c} \subseteq Known'
    BY <2>1, <2>2 DEF Known, InHand
  <2>5. \A d \in Cmds : cmd'[d].status = "pending" => cmd[d].status = "pending" /\ d # c
    BY <2>3 DEF AllCmds
  <2> QED BY <2>2, <2>4, <2>5, KeptFrame
<1>3. CASE scsi_r2t_rx_i
  <2>1. PICK c : c = rx.pdu.cmd
    OBVIOUS
  <2>2. /\ rx.pc = "wait" /\ hash' = hash \ {c} /\ cmd' = [cmd EXCEPT ![c].r2treq = @ + 1]
        /\ ~Full(txq) => txq' = Append(txq, c)
        /\ Full(txq) => txq' = txq
        /\ tx' = Woken(tx) /\ UNCHANGED <<tmpq, mgr>>
    BY <1>3, <2>1 DEF scsi_r2t_rx_i, RxAnswers
  <2>3. c \in AllCmds /\ c \in hash /\ c \notin Range(txq)
    BY <2>1, <2>2 DEF Held, Once, Workers, Queued, AtRx
  <2>4. \A d \in AllCmds : cmd'[d].status = cmd[d].status
    BY <2>2, <2>3 DEF Held, CmdTable, Fields
  <2>5. tx'.cmd = tx.cmd /\ (tx.pc = "hold" => tx'.pc = "hold")
    BY <2>2, WokenProperties DEF ThreadInv
  <2>6. Range(txq) \subseteq Range(txq') /\ (~Full(txq) => c \in Range(txq'))
    <3>1. Range(Append(txq, c)) = Range(txq) \cup {c}
      BY <2>3, DistinctAppend DEF Held, Once, Queued
    <3> QED BY <2>2, <3>1
  <2>7. Known \ {c} \subseteq Known' /\ (~Full(txq) => c \in Known')
    BY <2>2, <2>5, <2>6 DEF Known, InHand
  <2>8. c \in Cmds => c \in Outstanding
    BY <2>3, KnownCommands
  <2>9. Room /\ c \in Cmds => ~Full(txq)
    BY <2>3, <2>8, RoomForIt, KnownCommands DEF Held, Once, KeptInv
  <2> QED BY <2>2, <2>4, <2>7, <2>9, KeptFrame DEF AllCmds
<1> QED BY <1>1, <1>2, <1>3 DEF RxWorker

\* The manager takes commands off one queue and puts them on another, which has room.
LEMMA ManagerKeeps ==
    ASSUME ThreadInv, Held, Once, KeptInv, Manager, UNCHANGED scene
    PROVE  KeptInv'
<1>1. CASE MgrDrain
  <2>1. PICK c : c = Head(txq)
    OBVIOUS
  <2>2. /\ txq # <<>> /\ txq' = Tail(txq) /\ UNCHANGED tx /\ mgr = "drain"
        /\ mgr' \in {"drain", "exited"}
    BY <1>1 DEF MgrDrain
  <2>3. Range(txq) = Range(txq') \cup {c} /\ c \in AllCmds
    BY <2>1, <2>2, DistinctTail DEF Held, Once, Queued
  <2>4. CASE c = Login
    <3>1. cmd' = Called(Login, "aborted") /\ hash' = hash \ {Login} /\ UNCHANGED <<mgr, tmpq>>
      BY <1>1, <2>1, <2>4 DEF MgrDrain, Done
    <3>2. \A d \in Cmds : cmd'[d] = cmd[d]
      BY <3>1, LoginAborted, CmdsAssumption DEF AllCmds
    <3>3. \A d \in Cmds : d \in Known => d \in Known'
      BY <2>2, <2>3, <2>4, <3>1, CmdsAssumption DEF Known, InHand
    <3> QED BY <3>1, <3>2, <3>3, KeptFrame
  <2>5. CASE c # Login
    <3>1. /\ UNCHANGED <<hash, cmd>>
          /\ ~Full(tmpq) => tmpq' = Append(tmpq, c) /\ mgr' = mgr
      BY <1>1, <2>1, <2>5 DEF MgrDrain
    <3>2. c \in Outstanding /\ c \notin Range(tmpq)
      BY <2>3, <2>5, KnownCommands DEF AllCmds, Once, Queued
    <3>3. Room => ~Full(tmpq)
      BY <3>2, RoomForIt, KnownCommands DEF Held, Once, KeptInv
    <3>4. Room => Range(tmpq') = Range(tmpq) \cup {c}
      BY <2>3, <3>1, <3>2, <3>3, DistinctAppend DEF Held, Once, Queued
    <3>5. Room => Known \subseteq Known'
      BY <2>2, <2>3, <3>1, <3>4 DEF Known, InHand
    <3> QED BY <3>1, <3>3, <3>5, KeptFrame
  <2> QED BY <2>4, <2>5
<1>2. CASE MgrRefill
  <2>1. PICK c : c = Head(tmpq)
    OBVIOUS
  <2>2. /\ tmpq # <<>> /\ tmpq' = Tail(tmpq) /\ UNCHANGED <<tx, hash, cmd>>
        /\ ~Full(txq) => txq' = Append(txq, c) /\ mgr' = mgr
    BY <1>2, <2>1 DEF MgrRefill
  <2>3. Range(tmpq) = Range(tmpq') \cup {c} /\ c \in AllCmds
    BY <2>1, <2>2, DistinctTail DEF Held, Once, Queued
  <2>4. c \in Outstanding /\ c \notin Range(txq)
    BY <2>3, KnownCommands DEF AllCmds, Once, Queued
  <2>5. Room => ~Full(txq)
    BY <2>4, RoomForIt, KnownCommands DEF Held, Once, KeptInv
  <2>6. Room => Range(txq') = Range(txq) \cup {c}
    BY <2>2, <2>3, <2>4, <2>5, DistinctAppend DEF Held, Once, Queued
  <2>7. Room => Known \subseteq Known'
    BY <2>2, <2>3, <2>6 DEF Known, InHand
  <2> QED BY <2>2, <2>5, <2>7, KeptFrame
<1>3. CASE \E c \in AllCmds : MgrRequeue(c)
  <2>1. PICK c \in AllCmds : MgrRequeue(c)
    BY <1>3
  <2>2. c \in hash /\ hash' = hash \ {c} /\ UNCHANGED <<tx, tmpq>>
    BY <2>1 DEF MgrRequeue
  <2>3. CASE c = Login
    <3>1. cmd' = Called(Login, "aborted") /\ UNCHANGED <<mgr, txq>>
      BY <2>1, <2>3 DEF MgrRequeue
    <3>2. \A d \in Cmds : cmd'[d] = cmd[d]
      BY <3>1, LoginAborted, CmdsAssumption DEF AllCmds
    <3>3. \A d \in Cmds : d \in Known => d \in Known'
      BY <2>2, <2>3, <3>1, CmdsAssumption DEF Known, InHand
    <3> QED BY <3>1, <3>2, <3>3, KeptFrame
  <2>4. CASE c # Login
    <3>1. /\ cmd' = Reset(c)
          /\ ~Full(txq) => txq' = Append(txq, c) /\ mgr' = mgr
      BY <2>1, <2>4 DEF MgrRequeue
    <3>2. c \in Outstanding /\ c \notin Range(txq)
      BY <2>2, <2>4, KnownCommands DEF AllCmds, Once, Queued
    <3>3. \A d \in Cmds : cmd'[d].status = "pending" => cmd[d].status = "pending"
      BY <3>1, <3>2, ResetProperties DEF Held, Outstanding, AllCmds
    <3>4. Room => ~Full(txq)
      BY <3>2, RoomForIt, KnownCommands DEF Held, Once, KeptInv
    <3>5. Room => Range(txq') = Range(txq) \cup {c}
      BY <2>1, <3>1, <3>2, <3>4, DistinctAppend DEF Held, Once, Queued
    <3>6. Room => Known \subseteq Known'
      BY <2>2, <3>5 DEF Known, InHand
    <3> QED BY <3>1, <3>3, <3>4, <3>6, KeptFrame
  <2> QED BY <2>3, <2>4
<1>4. CASE MgrStopTx
  <2>1. /\ UNCHANGED <<txq, tmpq, hash, cmd>> /\ mgr' # "exited"
    BY <1>4 DEF MgrStopTx, cmdVars
  <2>2. tx'.cmd = tx.cmd /\ (tx.pc = "hold" => tx'.pc = "hold")
    <3> DEFINE w == Woken(tx)
    <3>1. tx' = [w EXCEPT !.stop = TRUE]
      BY <1>4 DEF MgrStopTx
    <3>2. w = [pc |-> w.pc, cmd |-> tx.cmd, stop |-> tx.stop] /\
          w.pc = IF tx.pc = "blocked" THEN "take" ELSE tx.pc
      BY DEF Woken, ThreadInv, Threads
    <3> HIDE DEF w
    <3> QED BY <3>1, <3>2
  <2>3. Known \subseteq Known'
    BY <2>1, <2>2 DEF Known, InHand
  <2> QED BY <2>1, <2>3, KeptFrame
<1>5. CASE \/ MgrStart \/ MgrDestroy \/ MgrJoinTx \/ MgrDrained \/ MgrRefilled \/ MgrClose
           \/ MgrJoin
  <2>1. UNCHANGED <<txq, tmpq, hash, cmd, tx>> /\ (mgr # "exited" => mgr' # "exited")
    BY <1>5 DEF MgrStart, MgrDestroy, MgrJoinTx, MgrDrained, MgrRefilled, MgrClose, MgrJoin,
                cmdVars
  <2>2. Known' = Known
    BY <2>1 DEF Known, InHand
  <2> QED BY <2>1, <2>2, KeptFrame
<1> QED BY <1>1, <1>2, <1>3, <1>4, <1>5 DEF Manager, AllCmds

\* With room in the queues an accepted command that is not completed stays known to the
\* session or the one that comes next, through every insertion that initiator.c makes: 552
\* and 556 (draining and back), 580 (from the hash), 1627 (before full feature), and 3090
\* (an R2T).
THEOREM CommandsKept == Spec => []NothingLost
<1>1. OnceInv /\ KeptInv /\ [Next]_vars => KeptInv'
  <2> SUFFICES ASSUME ThreadInv, Held, Once, KeptInv, [Next]_vars PROVE KeptInv'
    BY DEF OnceInv
  <2>1. CASE UNCHANGED vars
    <3>1. UNCHANGED <<scene, txq, tmpq, hash, cmd, mgr, tx>>
      BY <2>1 DEF vars, threadVars, cmdVars
    <3>2. Known' = Known
      BY <3>1 DEF Known, InHand
    <3> QED BY <3>1, <3>2, KeptFrame
  <2>2. CASE Step(Target \/ Drop)
    <3>1. UNCHANGED <<scene, txq, tmpq, hash, cmd, mgr, tx>>
      BY <2>2 DEF Step, Target, TargetCommand, TargetData, Drop, threadVars, cmdVars
    <3>2. Known' = Known
      BY <3>1 DEF Known, InHand
    <3> QED BY <3>1, <3>2, KeptFrame
  <2> QED BY <2>1, <2>2, CallersKeep, SessionWorkerKeeps, TxWorkerKeeps, RxWorkerKeeps,
             ManagerKeeps DEF Next, Step
<1>2. KeptInv => NothingLost
  BY DEF KeptInv
<1> QED BY <1>1, <1>2, OnceInvInit, OnceKept, KeptInit, PTL DEF Spec

-----------------------------------------------------------------------------
(***************************************************************************)
(* Types.  Only one of them is more than a look at the assignments: the      *)
(* count r2t_request, that scsi_r2t_rx_i raises and the tx worker lowers,    *)
(* is 0 or 1, because an R2T comes only of a command that was sent without   *)
(* one, and data are sent only of a command that has one.                    *)
(***************************************************************************)

\* An R2T, or a command that may be answered with one
Asking(p) == p.op \in {"command", "r2t"}

\* The threads, the session and the connection are in one of their states.
Shapes ==
    /\ scene \in Scenes /\ state \subseteq Flags
    /\ mgr \in {"loop", "stopTx", "joinTx", "drain", "refill", "requeue", "join", "exited"}
    /\ sw.pc \in {"init", "login", "insert", "await", "ready", "fail", "wait", "exited"}
    /\ tx.pc \in {"check", "blocked", "take", "hold", "send", "done", "stopRx", "joinRx",
                  "exited"}
    /\ tx.cmd \in AllCmds \cup {NoCmd}
    /\ rx.pc \in {"read", "wait", "exited"}
    /\ conn \in {"down", "up", "shut"} /\ drops \in 0..MaxDrops

Counts(f) ==
    \A c \in AllCmds :
        f[c].status \in {"none", "pending", "good", "aborted"} /\ f[c].r2treq \in 0..1

\* On the way of an R2T, from the command to the rx worker, its command has none.
Asked(s) == \A i \in 1..Len(s) : Asking(s[i]) => s[i].cmd \in Cmds /\ cmd[s[i].cmd].r2treq = 0

R2Ts ==
    /\ Counts(cmd)
    /\ Asked(c2t) /\ Asked(t2c)
    /\ rx.pc = "wait" /\ Asking(rx.pdu) => rx.pdu.cmd \in Cmds /\ cmd[rx.pdu.cmd].r2treq = 0
    /\ tx.pc = "done" /\ cmd[tx.cmd].sent => cmd[tx.cmd].r2treq = 1

TypesInv == Shapes /\ R2Ts

\* The session worker, the manager and the threads go from state to state.
LEMMA ShapesHeld == ASSUME OnceInv, Shapes, [Next]_vars PROVE Shapes'
<1>0. UNCHANGED scene
  BY DEF Next, Step, vars
<1> USE <1>0 DEF Shapes, Flags, cmdVars, netVars, threadVars
<1>1. ThreadInv /\ Threads
  BY DEF OnceInv, ThreadInv
<1>2. CASE UNCHANGED vars
  BY <1>2 DEF vars
<1>3. CASE \E c \in Cmds : initiator_enqueue(c)
  BY <1>1, <1>3, WokenProperties DEF initiator_enqueue, Next, Step
<1>4. CASE SessionWorker
  <2>1. CASE session_init_i
    <3>1. MaxDrops \in Nat
      BY BoundsAssumption
    <3>2. drops' \in 0..MaxDrops
      BY <2>1, <3>1 DEF session_init_i
    <3>3. UNCHANGED mgr /\ state' \subseteq Flags
      BY <2>1 DEF session_init_i
    <3>4. /\ conn' \in {"down", "up", "shut"} /\ sw'.pc \in {"login", "fail"}
          /\ tx'.pc \in {tx.pc, "check"} /\ tx'.cmd = tx.cmd /\ rx'.pc \in {rx.pc, "read"}
      BY <1>1, <2>1 DEF session_init_i, SwGoto, Threads
    <3> QED BY <3>2, <3>3, <3>4
  <2>2. CASE LoginInsert
    BY <1>1, <2>2, WokenProperties DEF LoginInsert, SwGoto, Threads
  <2>3. CASE LoginCheck \/ LoginAwait \/ get_full_feature \/ SwFail \/ SwExit
    BY <1>1, <2>3 DEF LoginCheck, LoginAwait, get_full_feature, SwFail, SwExit, SwGoto, Threads
  <2> QED BY <1>4, <2>1, <2>2, <2>3 DEF SessionWorker
<1>5. CASE TxWorker
  <2>1. CASE TxRemove
    <3>1. Head(txq) \in AllCmds
      BY <2>1, HeadTailProperties DEF TxRemove, OnceInv, Held
    <3>2. /\ tx'.pc = "hold" /\ tx'.cmd = Head(txq)
          /\ UNCHANGED <<state, mgr, sw, rx, conn, drops>>
      BY <1>1, <2>1 DEF TxRemove, Threads
    <3> QED BY <3>1, <3>2
  <2>2. CASE TxSend
    BY <1>1, <2>2 DEF TxSend, TxGoto, Threads
  <2>3. CASE TxCheck \/ TxNothing \/ TxPutBack \/ TxTake \/ TxDone \/ TxStopRx \/ TxExit
    BY <1>1, <2>3 DEF TxCheck, TxNothing, TxPutBack, TxTake, TxDone, TxStopRx, TxExit, TxGoto,
                      Threads
  <2> QED BY <1>5, <2>1, <2>2, <2>3 DEF TxWorker
<1>6. CASE RxWorker
  <2>1. /\ rx'.pc \in {"read", "wait", "exited"} /\ state' \subseteq Flags
        /\ UNCHANGED <<mgr, sw, conn, drops>>
    BY <1>1, <1>6 DEF RxWorker, RxRead, login_response_i, scsi_response_i, scsi_r2t_rx_i,
                      RxAnswers, Threads
  <2>2. tx'.pc \in {tx.pc, "take"} /\ tx'.cmd = tx.cmd
    BY <1>1, <1>6, WokenProperties DEF RxWorker, RxRead, login_response_i, scsi_response_i,
                                       scsi_r2t_rx_i
  <2> QED BY <2>1, <2>2
<1>7. CASE Manager
  <2>1. CASE MgrStopTx
    <3> DEFINE w == Woken(tx)
    <3>1. tx' = [w EXCEPT !.stop = TRUE]
      BY <2>1 DEF MgrStopTx
    <3>2. /\ w = [pc |-> w.pc, cmd |-> tx.cmd, stop |-> tx.stop]
          /\ w.pc = IF tx.pc = "blocked" THEN "take" ELSE tx.pc
      BY <1>1 DEF Threads, Woken
    <3> HIDE DEF w
    <3>3. tx'.pc \in {tx.pc, "take"} /\ tx'.cmd = tx.cmd
      BY <3>1, <3>2
    <3>4. UNCHANGED <<state, sw, rx, drops>> /\ mgr' = "joinTx" /\ conn' \in {conn, "shut"}
      BY <2>1 DEF MgrStopTx
    <3> QED BY <3>3, <3>4
  <2>2. CASE \E c \in Cmds \cup {Login} : MgrRequeue(c)
    <3>1. /\ mgr' \in {mgr, "exited"} /\ UNCHANGED <<state, sw, tx, rx, conn, drops>>
      BY <2>2 DEF MgrRequeue
    <3> QED BY <3>1
  <2>3. CASE MgrDrain \/ MgrDrained \/ MgrRefill \/ MgrRefilled
    <3>1. /\ mgr' \in {mgr, "refill", "requeue", "exited"}
          /\ UNCHANGED <<state, sw, tx, rx, conn, drops>>
      BY <2>3 DEF MgrDrain, MgrDrained, MgrRefill, MgrRefilled
    <3> QED BY <3>1
  <2>4. CASE MgrStart \/ MgrDestroy \/ MgrJoinTx \/ MgrClose \/ MgrJoin
    BY <1>1, <2>4 DEF MgrStart, MgrDestroy, MgrJoinTx, MgrClose, MgrJoin, Threads
  <2> QED BY <1>7, <2>1, <2>2, <2>3, <2>4 DEF Manager
<1>8. CASE Target \/ Drop
  <2>1. drops' \in 0..MaxDrops
    BY <1>8, BoundsAssumption DEF Target, TargetCommand, TargetData, Drop
  <2>2. UNCHANGED <<state, mgr, sw, tx, rx>> /\ conn' \in {conn, "down"}
    BY <1>8 DEF Target, TargetCommand, TargetData, Drop
  <2> QED BY <2>1, <2>2
<1> QED BY <1>2, <1>3, <1>4, <1>5, <1>6, <1>7, <1>8 DEF Next, Step

\* A step that raises no count keeps the wires, and what the tx worker did keeps R2Ts.
LEMMA R2TsFrame ==
    ASSUME R2Ts, Counts(cmd'), UNCHANGED <<c2t, t2c>>,
           \A c \in Cmds : cmd[c].r2treq = 0 => cmd'[c].r2treq = 0,
           rx'.pc = "wait" => rx'.pc = rx.pc /\ rx'.pdu = rx.pdu,
           tx'.pc = "done" /\ cmd'[tx'.cmd].sent => cmd'[tx'.cmd].r2treq = 1
    PROVE  R2Ts'
<1>1. Asked(c2t)' /\ Asked(t2c)'
  BY DEF R2Ts, Asked, Asking
<1> QED BY <1>1 DEF R2Ts, Asking

\* When no command changes, and the tx worker sends nothing
LEMMA R2TsStay ==
    ASSUME R2Ts, UNCHANGED <<cmd, c2t, t2c>>,
           rx'.pc = "wait" => rx'.pc = rx.pc /\ rx'.pdu = rx.pdu,
           tx'.pc = "done" => tx'.pc = tx.pc /\ tx'.cmd = tx.cmd
    PROVE  R2Ts'
  BY R2TsFrame DEF R2Ts

\* A command that is accepted has no R2T and sent no data; a callback does
\* not change that.
LEMMA CountsOfNew ==
    ASSUME Held, Counts(cmd), NEW c \in AllCmds
    PROVE  /\ LET f == [cmd EXCEPT ![c] = [NewCmd EXCEPT !.status = "pending"]]
              IN  /\ Counts(f) /\ f[c].r2treq = 0 /\ f[c].sent = FALSE
                  /\ \A d \in AllCmds \ {c} : f[d] = cmd[d]
           /\ \A status \in {"good", "aborted"} :
                  LET f == Called(c, status)
                  IN  /\ Counts(f)
                      /\ \A d \in AllCmds : f[d].r2treq = cmd[d].r2treq /\ f[d].sent = cmd[d].sent
<1>1. LET p == [NewCmd EXCEPT !.status = "pending"]
      IN p.status = "pending" /\ p.r2treq = 0 /\ p.sent = FALSE
  BY DEF NewCmd
<1>2. ASSUME NEW p, p.status = "pending", p.r2treq = 0, p.sent = FALSE,
             NEW f, f = [cmd EXCEPT ![c] = p]
      PROVE  /\ Counts(f) /\ f[c].r2treq = 0 /\ f[c].sent = FALSE
             /\ \A d \in AllCmds \ {c} : f[d] = cmd[d]
  BY <1>2 DEF Held, CmdTable, Counts
<1>3. ASSUME NEW status \in {"good", "aborted"}, NEW f, f = Called(c, status)
      PROVE  /\ Counts(f)
             /\ \A d \in AllCmds : f[d].r2treq = cmd[d].r2treq /\ f[d].sent = cmd[d].sent
  BY <1>3 DEF Held, CmdTable, Fields, Counts, Called
<1>4. LET f == [cmd EXCEPT ![c] = [NewCmd EXCEPT !.status = "pending"]]
      IN  /\ Counts(f) /\ f[c].r2treq = 0 /\ f[c].sent = FALSE
          /\ \A d \in AllCmds \ {c} : f[d] = cmd[d]
  <2> DEFINE p == [NewCmd EXCEPT !.status = "pending"]
  <2>1. p.status = "pending" /\ p.r2treq = 0 /\ p.sent = FALSE
    BY <1>1
  <2> DEFINE f == [cmd EXCEPT ![c] = p]
  <2> HIDE DEF p
  <2>2. f = [cmd EXCEPT ![c] = p]
    OBVIOUS
  <2> HIDE DEF f
  <2>3. /\ Counts(f) /\ f[c].r2treq = 0 /\ f[c].sent = FALSE
        /\ \A d \in AllCmds \ {c} : f[d] = cmd[d]
    BY ONLY <1>2, <2>1, <2>2
  <2> QED BY <2>3 DEF f, p
<1> QED BY <1>3, <1>4

\* What is asked of a wire is asked of what is read off it, and of one PDU more.
LEMMA AskedTail ==
    ASSUME NEW s \in Seq(PDUs), s # <<>>, Asked(s)
    PROVE  /\ Asked(Tail(s))
           /\ Asking(Head(s)) => Head(s).cmd \in Cmds /\ cmd[Head(s).cmd].r2treq = 0
<1> DEFINE t == Tail(s)
<1>1. /\ Head(s) = s[1] /\ t \in Seq(PDUs) /\ Len(t) = Len(s) - 1
      /\ \A i \in 1..Len(t) : t[i] = s[i + 1]
  BY HeadTailProperties
<1> HIDE DEF t
<1>2. Len(s) \in Nat /\ Len(t) \in Nat
  BY <1>1, LenProperties
<1>3. 1 \in 1..Len(s) /\ \A i \in 1..Len(t) : i + 1 \in 1..Len(s)
  BY <1>1, <1>2
<1> QED BY <1>1, <1>3 DEF Asked, t

LEMMA AskedAppend ==
    ASSUME NEW s \in Seq(PDUs), NEW p \in PDUs, Asked(s),
           Asking(p) => p.cmd \in Cmds /\ cmd[p.cmd].r2treq = 0
    PROVE  Asked(Append(s, p))
<1> DEFINE t == Append(s, p)
<1>1. /\ Len(t) = Len(s) + 1 /\ t[Len(s) + 1] = p
      /\ \A i \in 1..Len(s) : t[i] = s[i]
  BY AppendProperties
<1> HIDE DEF t
<1>2. Len(s) \in Nat
  BY LenProperties
<1>3. \A i \in 1..Len(t) : i = Len(s) + 1 \/ i \in 1..Len(s)
  BY <1>1, <1>2
<1> QED BY <1>1, <1>3 DEF Asked, t

\* A command that is accepted is not with the tx worker.
LEMMA CallersR2Ts ==
    ASSUME OnceInv, R2Ts, NEW c \in Cmds, initiator_enqueue(c)
    PROVE  R2Ts'
<1> DEFINE f == [cmd EXCEPT ![c] = [NewCmd EXCEPT !.status = "pending"]]
<1>1. cmd' = f /\ UNCHANGED <<rx, c2t, t2c>> /\ cmd[c].status = "none"
  BY DEF initiator_enqueue, netVars
<1>2. c \in AllCmds /\ c # tx.cmd
  BY <1>1, CmdsAssumption DEF OnceInv, Once, Calls, Workers, AllCmds, Known, InHand
<1>3. /\ Counts(f) /\ f[c].r2treq = 0
      /\ \A d \in AllCmds \ {c} : f[d] = cmd[d]
  BY <1>2, CountsOfNew DEF OnceInv, R2Ts
<1> HIDE DEF f
<1>4. tx'.cmd = tx.cmd /\ tx'.pc \in {tx.pc, "take"}
  BY WokenProperties DEF initiator_enqueue, OnceInv, ThreadInv
<1>5. tx.pc = "done" => tx.cmd \in AllCmds
  BY DEF OnceInv, Once, Workers
<1>6. \A d \in Cmds : cmd[d].r2treq = 0 => cmd'[d].r2treq = 0
  BY <1>1, <1>3 DEF AllCmds
<1>7. tx'.pc = "done" /\ cmd'[tx'.cmd].sent => cmd'[tx'.cmd].r2treq = 1
  BY <1>1, <1>2, <1>3, <1>4, <1>5 DEF R2Ts
<1> QED BY <1>1, <1>3, <1>6, <1>7, R2TsFrame

\* A login has no R2T.
LEMMA SessionWorkerR2Ts == ASSUME OnceInv, R2Ts, SessionWorker PROVE R2Ts'
<1>1. CASE LoginInsert /\ ~Full(txq)
  <2> DEFINE f == [cmd EXCEPT ![Login] = [NewCmd EXCEPT !.status = "pending"]]
  <2>1. cmd' = f /\ UNCHANGED <<rx, c2t, t2c>>
    BY <1>1 DEF LoginInsert, netVars
  <2>2. /\ Counts(f) /\ f[Login].r2treq = 0 /\ f[Login].sent = FALSE
        /\ \A d \in AllCmds \ {Login} : f[d] = cmd[d]
    BY CountsOfNew DEF OnceInv, R2Ts, AllCmds
  <2> HIDE DEF f
  <2>3. tx'.cmd = tx.cmd /\ tx'.pc \in {tx.pc, "take"}
    BY <1>1, WokenProperties DEF LoginInsert, OnceInv, ThreadInv
  <2>4. tx.pc = "done" => tx.cmd \in AllCmds
    BY DEF OnceInv, Once, Workers
  <2>5. \A d \in Cmds : cmd[d].r2treq = 0 => cmd'[d].r2treq = 0
    BY <2>1, <2>2 DEF AllCmds
  <2>6. tx'.pc = "done" /\ cmd'[tx'.cmd].sent => cmd'[tx'.cmd].r2treq = 1
    BY <2>1, <2>2, <2>3, <2>4 DEF R2Ts
  <2> QED BY <2>1, <2>2, <2>5, <2>6, R2TsFrame
<1>2. CASE session_init_i
  <2>1. UNCHANGED <<cmd, c2t, t2c>>
    BY <1>2 DEF session_init_i, cmdVars
  <2>2. tx'.pc \in {tx.pc, "check"} /\ tx'.cmd = tx.cmd
        /\ (rx'.pc = "wait" => rx'.pc = rx.pc /\ rx'.pdu = rx.pdu)
    BY <1>2 DEF session_init_i, OnceInv, ThreadInv, Threads
  <2> QED BY <2>1, <2>2, R2TsStay
<1>3. CASE LoginInsert /\ Full(txq)
  <2>1. UNCHANGED <<cmd, rx, c2t, t2c>>
    BY <1>3 DEF LoginInsert, netVars
  <2>2. tx'.cmd = tx.cmd /\ tx'.pc \in {tx.pc, "take"}
    BY <1>3, WokenProperties DEF LoginInsert, OnceInv, ThreadInv
  <2> QED BY <2>1, <2>2, R2TsStay
<1>4. CASE LoginCheck \/ LoginAwait \/ get_full_feature \/ SwFail \/ SwExit
  <2>1. UNCHANGED <<cmd, c2t, t2c, tx, rx>>
    BY <1>4 DEF LoginCheck, LoginAwait, get_full_feature, SwFail, SwExit, cmdVars, netVars
  <2> QED BY <2>1, R2TsStay
<1> QED BY <1>1, <1>2, <1>3, <1>4 DEF SessionWorker

\* A command goes out when it has no R2T, data when it has one, which they use up.
LEMMA TxWorkerR2Ts == ASSUME OnceInv, Shapes, R2Ts, TxWorker PROVE R2Ts'
<1>1. CASE TxTake
  <2>1. PICK c : c = tx.cmd
    OBVIOUS
  <2>2. c \in AllCmds
    BY <1>1, <2>1 DEF TxTake, OnceInv, Once, Workers
  <2>3. /\ cmd' = [cmd EXCEPT ![c].txDone = FALSE] /\ UNCHANGED <<rx, c2t, t2c>>
        /\ tx'.pc \in {"send", "stopRx"}
    BY <1>1, <2>1 DEF TxTake, TxGoto, netVars, OnceInv, ThreadInv, Threads
  <2>4. \A d \in AllCmds : cmd'[d].r2treq = cmd[d].r2treq /\ cmd'[d].status = cmd[d].status
    BY <2>2, <2>3 DEF OnceInv, Held, CmdTable, Fields
  <2>5. Counts(cmd') /\ \A d \in Cmds : cmd[d].r2treq = 0 => cmd'[d].r2treq = 0
    BY <2>4 DEF R2Ts, Counts, AllCmds
  <2> QED BY <2>3, <2>5, R2TsFrame
<1>2. CASE TxSend /\ conn = "up"
  <2>1. PICK c : c = tx.cmd
    OBVIOUS
  <2> DEFINE op == IF c = Login THEN "login" ELSE IF cmd[c].r2treq > 0 THEN "data" ELSE "command"
             p == Pdu(op, c)
  <2>2. /\ c2t' = Append(c2t, p) /\ cmd' = [cmd EXCEPT ![c].sent = (op = "data")]
        /\ UNCHANGED <<rx, t2c>> /\ tx.pc = "send" /\ tx'.pc = "done" /\ tx'.cmd = c
    BY <1>2, <2>1 DEF TxSend, TxGoto, OnceInv, ThreadInv, Threads
  <2>3. c \in AllCmds /\ cmd[c].r2treq \in 0..1
    BY <2>1, <2>2 DEF OnceInv, Once, Workers, R2Ts, Counts
  <2>4. /\ \A d \in AllCmds : cmd'[d].r2treq = cmd[d].r2treq /\ cmd'[d].status = cmd[d].status
        /\ cmd'[c].sent = (op = "data")
    BY <2>2, <2>3 DEF OnceInv, Held, CmdTable, Fields
  <2>5. p \in PDUs /\ p.cmd = c /\ p.op = op
    BY <2>3 DEF Pdu, PDUs, Ops
  <2>6. op = "data" => cmd[c].r2treq = 1
    BY <2>3
  <2>7. Asking(p) => c \in Cmds /\ cmd[c].r2treq = 0
    BY <2>3, <2>5 DEF Asking, AllCmds
  <2> HIDE DEF p, op
  <2>8. c2t \in Seq(PDUs) /\ Asked(c2t) /\ Asked(t2c) /\ c2t' \in Seq(PDUs) /\ t2c \in Seq(PDUs)
    BY <2>2, <2>5 DEF R2Ts, OnceInv, Once, Wire
  <2>9. Asked(Append(c2t, p))
    BY <2>5, <2>7, <2>8, AskedAppend
  <2>10. ASSUME NEW s \in Seq(PDUs), Asked(s) PROVE \A i \in 1..Len(s) :
                Asking(s[i]) => s[i].cmd \in Cmds /\ cmd'[s[i].cmd].r2treq = 0
    BY <2>4, <2>10 DEF Asked, AllCmds
  <2>11. Asked(c2t)' /\ Asked(t2c)'
    <3>1. \A i \in 1..Len(c2t') : Asking(c2t'[i]) => c2t'[i].cmd \in Cmds /\ cmd'[c2t'[i].cmd].r2treq = 0
      BY <2>2, <2>8, <2>9, <2>10
    <3>2. \A i \in 1..Len(t2c') : Asking(t2c'[i]) => t2c'[i].cmd \in Cmds /\ cmd'[t2c'[i].cmd].r2treq = 0
      BY <2>2, <2>8, <2>10
    <3> QED BY <3>1, <3>2 DEF Asked, Asking
  <2>12. Counts(cmd')
    BY <2>4 DEF R2Ts, Counts
  <2>13. cmd'[tx'.cmd].sent => cmd'[tx'.cmd].r2treq = 1
    BY <2>2, <2>3, <2>4, <2>6
  <2> QED BY <2>2, <2>4, <2>11, <2>12, <2>13 DEF R2Ts, Asking, AllCmds
<1>3. CASE TxSend /\ conn # "up"
  <2>1. UNCHANGED <<cmd, rx, c2t, t2c>> /\ tx'.pc = "stopRx"
    BY <1>3 DEF TxSend, TxGoto, OnceInv, ThreadInv, Threads
  <2> QED BY <2>1, R2TsStay
<1>4. CASE TxDone
  <2>1. PICK c : c = tx.cmd
    OBVIOUS
  <2>2. /\ tx.pc = "done" /\ tx'.pc = "check" /\ UNCHANGED <<rx, c2t, t2c>>
        /\ cmd' = [cmd EXCEPT ![c].txDone = TRUE,
                              ![c].r2treq = IF cmd[c].sent THEN @ - 1 ELSE @]
    BY <1>4, <2>1 DEF TxDone, netVars, OnceInv, ThreadInv, Threads
  <2>3. c \in AllCmds /\ (cmd[c].sent => cmd[c].r2treq = 1) /\ cmd[c].r2treq \in 0..1
    BY <2>1, <2>2 DEF OnceInv, Once, Workers, R2Ts, Counts
  <2>4. /\ \A d \in AllCmds : cmd'[d].status = cmd[d].status
        /\ \A d \in AllCmds \ {c} : cmd'[d].r2treq = cmd[d].r2treq
        /\ cmd'[c].r2treq = IF cmd[c].sent THEN cmd[c].r2treq - 1 ELSE cmd[c].r2treq
    BY <2>2, <2>3 DEF OnceInv, Held, CmdTable, Fields
  <2>5. cmd'[c].r2treq \in 0..1 /\ (cmd[c].r2treq = 0 => cmd'[c].r2treq = 0)
    <3>1. CASE cmd[c].sent
      BY <2>3, <2>4, <3>1
    <3>2. CASE ~cmd[c].sent
      BY <2>3, <2>4, <3>2
    <3> QED BY <3>1, <3>2
  <2>6. Counts(cmd') /\ \A d \in Cmds : cmd[d].r2treq = 0 => cmd'[d].r2treq = 0
    BY <2>4, <2>5 DEF R2Ts, Counts, AllCmds
  <2> QED BY <2>2, <2>6, R2TsFrame
<1>5. CASE TxCheck \/ TxNothing \/ TxRemove \/ TxPutBack \/ TxStopRx \/ TxExit
  <2>1. /\ UNCHANGED <<cmd, c2t, t2c>> /\ tx'.pc # "done"
        /\ rx'.pc = rx.pc /\ rx'.pdu = rx.pdu
    BY <1>5 DEF TxCheck, TxNothing, TxRemove, TxPutBack, TxStopRx, TxExit, TxGoto, cmdVars,
                netVars, OnceInv, ThreadInv, Threads
  <2> QED BY <2>1, R2TsStay
<1> QED BY <1>1, <1>2, <1>3, <1>4, <1>5 DEF TxWorker

\* The one step that raises a count follows an R2T, whose command had none.
LEMMA RxWorkerR2Ts == ASSUME OnceInv, Shapes, R2Ts, RxWorker PROVE R2Ts'
<1>1. CASE RxRead
  <2>1. UNCHANGED <<cmd, tx, c2t>>
    BY <1>1 DEF RxRead, cmdVars
  <2>2. t2c \in Seq(PDUs)
    BY DEF OnceInv, Once, Wire
  <2>3. CASE t2c = <<>>
    <3>1. UNCHANGED t2c /\ rx'.pc = "exited"
      BY <1>1, <2>3 DEF RxRead, OnceInv, ThreadInv, Threads
    <3> QED BY <2>1, <3>1, R2TsStay
  <2>4. CASE t2c # <<>>
    <3>1. PICK p : p = Head(t2c)
      OBVIOUS
    <3>2. /\ t2c' = Tail(t2c)
          /\ rx'.pc = "exited" \/ (rx'.pc = "wait" /\ rx'.pdu = p)
      BY <1>1, <2>4, <3>1 DEF RxRead, OnceInv, ThreadInv, Threads
    <3>3. Asked(Tail(t2c)) /\ (Asking(p) => p.cmd \in Cmds /\ cmd[p.cmd].r2treq = 0)
      BY <2>2, <2>4, <3>1, AskedTail DEF R2Ts
    <3>4. Asked(t2c)' /\ Asked(c2t)'
      BY <2>1, <3>2, <3>3 DEF R2Ts, Asked, Asking
    <3> QED BY <2>1, <3>2, <3>3, <3>4 DEF R2Ts, Asking
  <2> QED BY <2>3, <2>4
<1>2. CASE login_response_i \/ scsi_response_i
  <2>1. PICK c \in AllCmds : /\ UNCHANGED <<tx, c2t, t2c>> /\ cmd' = Called(c, "good")
                             /\ rx'.pc = "read"
    BY <1>2 DEF login_response_i, scsi_response_i, RxAnswers, netVars, OnceInv, ThreadInv,
                Threads, Held, AllCmds
  <2>2. /\ Counts(cmd')
        /\ \A d \in AllCmds : cmd'[d].r2treq = cmd[d].r2treq /\ cmd'[d].sent = cmd[d].sent
    BY <2>1, CountsOfNew DEF OnceInv, R2Ts
  <2>3. tx.pc = "done" => tx.cmd \in AllCmds
    BY DEF OnceInv, Once, Workers
  <2>4. tx'.pc = "done" /\ cmd'[tx'.cmd].sent => cmd'[tx'.cmd].r2treq = 1
    BY <2>1, <2>2, <2>3 DEF R2Ts
  <2> QED BY <2>1, <2>2, <2>4, R2TsFrame DEF AllCmds
<1>3. CASE scsi_r2t_rx_i
  <2>1. PICK c : c = rx.pdu.cmd
    OBVIOUS
  <2>2. /\ rx.pc = "wait" /\ Asking(rx.pdu) /\ rx'.pc \in {"read", "exited"}
        /\ UNCHANGED <<c2t, t2c>>
        /\ cmd' = [cmd EXCEPT ![c].r2treq = @ + 1]
    BY <1>3, <2>1 DEF scsi_r2t_rx_i, RxAnswers, Asking, netVars, OnceInv, ThreadInv, Threads
  <2>3. c \in Cmds /\ cmd[c].r2treq = 0
    BY <2>1, <2>2 DEF R2Ts
  <2>4. AtRx = {c}
    BY <2>1, <2>2 DEF AtRx
  <2>5. c \notin Carried(c2t) \cup Carried(t2c) /\ (tx.pc = "done" => tx.cmd # c)
    <3>1. cmd[c].txDone \/ rx.stop
      BY <1>3, <2>1 DEF scsi_r2t_rx_i, RxAnswers
    <3> QED BY <2>3, <2>4, <3>1 DEF OnceInv, Once, OnePlace, Workers
  <2>6. tx'.cmd = tx.cmd /\ tx'.pc \in {tx.pc, "take"}
    BY <1>3, WokenProperties DEF scsi_r2t_rx_i, OnceInv, ThreadInv
  <2>7. /\ \A d \in AllCmds : cmd'[d].status = cmd[d].status
        /\ \A d \in AllCmds \ {c} : cmd'[d].r2treq = cmd[d].r2treq /\ cmd'[d].sent = cmd[d].sent
        /\ cmd'[c].r2treq = 1
    BY <2>2, <2>3 DEF OnceInv, Held, CmdTable, Fields, AllCmds
  <2>8. Counts(cmd')
    BY <2>7 DEF R2Ts, Counts
  <2>10. Asked(c2t)' /\ Asked(t2c)'
    BY <2>2, <2>5, <2>7 DEF R2Ts, Asked, Asking, Carried, AllCmds
  <2>11. tx.pc = "done" => tx.cmd \in AllCmds
    BY DEF OnceInv, Once, Workers
  <2>12. tx'.pc = "done" /\ cmd'[tx'.cmd].sent => cmd'[tx'.cmd].r2treq = 1
    BY <2>5, <2>6, <2>7, <2>11 DEF R2Ts
  <2> QED BY <2>2, <2>8, <2>10, <2>12 DEF R2Ts
<1> QED BY <1>1, <1>2, <1>3 DEF RxWorker

\* The manager resets commands when no worker runs.
LEMMA ManagerR2Ts == ASSUME OnceInv, Shapes, R2Ts, Manager PROVE R2Ts'
<1>1. ASSUME NEW c \in AllCmds, UNCHANGED <<c2t, t2c, tx, rx>>, mgr \in {"drain", "requeue"},
             \/ cmd' = Called(c, "aborted")
             \/ cmd' = [cmd EXCEPT ![c] = [NewCmd EXCEPT !.status = "pending", !.calls = cmd[c].calls]]
      PROVE  R2Ts'
  <2>1. tx.pc = "exited" /\ rx.pc = "exited"
    BY <1>1 DEF OnceInv, ThreadInv, Life
  <2>2. Counts(cmd') /\ \A d \in AllCmds : cmd[d].r2treq = 0 => cmd'[d].r2treq = 0
    <3>1. CASE cmd' = Called(c, "aborted")
      <4> DEFINE f == Called(c, "aborted")
      <4>1. Counts(f) /\ \A d \in AllCmds : f[d].r2treq = cmd[d].r2treq
        BY CountsOfNew DEF OnceInv, R2Ts
      <4>2. cmd' = f
        BY <3>1
      <4> HIDE DEF f
      <4> QED BY <4>1, <4>2
    <3>2. CASE cmd' = [cmd EXCEPT ![c] = [NewCmd EXCEPT !.status = "pending", !.calls = cmd[c].calls]]
      <4>1. PICK n : n = cmd[c].calls
        OBVIOUS
      <4>2. PICK p : p = [NewCmd EXCEPT !.status = "pending", !.calls = n]
        OBVIOUS
      <4>3. p.status = "pending" /\ p.r2treq = 0
        BY <4>2 DEF NewCmd
      <4>4. cmd' = [cmd EXCEPT ![c] = p]
        BY <3>2, <4>1, <4>2
      <4> QED BY <1>1, <4>3, <4>4 DEF OnceInv, Held, CmdTable, R2Ts, Counts
    <3> QED BY <1>1, <3>1, <3>2
  <2> QED BY <1>1, <2>1, <2>2, R2TsFrame DEF AllCmds
<1>2. CASE MgrDrain
  <2>1. UNCHANGED <<c2t, t2c, tx, rx>> /\ mgr = "drain"
    BY <1>2 DEF MgrDrain, netVars
  <2>2. CASE UNCHANGED cmd
    BY <2>1, <2>2, R2TsStay
  <2>3. CASE cmd' = Called(Login, "aborted")
    BY <1>1, <2>1, <2>3 DEF AllCmds
  <2> QED BY <1>2, <2>2, <2>3 DEF MgrDrain
<1>3. ASSUME NEW c \in AllCmds, MgrRequeue(c) PROVE R2Ts'
  BY <1>1, <1>3 DEF MgrRequeue, Reset, netVars
<1>4. CASE MgrClose
  <2>1. UNCHANGED <<cmd, tx, rx>> /\ c2t' = <<>> /\ t2c' = <<>>
    BY <1>4 DEF MgrClose, cmdVars
  <2>2. Asked(c2t)' /\ Asked(t2c)'
    BY <2>1 DEF Asked
  <2> QED BY <2>1, <2>2 DEF R2Ts, Asking
<1>5. CASE MgrStopTx
  <2>1. UNCHANGED <<cmd, c2t, t2c, rx>>
    BY <1>5 DEF MgrStopTx, cmdVars
  <2>2. tx'.pc \in {tx.pc, "take"} /\ tx'.cmd = tx.cmd
    <3> DEFINE w == Woken(tx)
    <3>1. tx' = [w EXCEPT !.stop = TRUE]
      BY <1>5 DEF MgrStopTx
    <3>2. /\ w = [pc |-> w.pc, cmd |-> tx.cmd, stop |-> tx.stop]
          /\ w.pc = IF tx.pc = "blocked" THEN "take" ELSE tx.pc
      BY DEF OnceInv, ThreadInv, Threads, Woken
    <3> HIDE DEF w
    <3> QED BY <3>1, <3>2
  <2> QED BY <2>1, <2>2, R2TsStay
<1>6. CASE MgrStart \/ MgrDestroy \/ MgrJoinTx \/ MgrDrained \/ MgrRefill \/ MgrRefilled \/ MgrJoin
  <2>1. UNCHANGED <<cmd, c2t, t2c, tx, rx>>
    BY <1>6 DEF MgrStart, MgrDestroy, MgrJoinTx, MgrDrained, MgrRefill, MgrRefilled, MgrJoin,
                cmdVars, netVars
  <2> QED BY <2>1, R2TsStay
<1> QED BY <1>2, <1>3, <1>4, <1>5, <1>6 DEF Manager, AllCmds

\* The target answers a command with an R2T, and nothing else with one.
LEMMA NetworkR2Ts == ASSUME OnceInv, R2Ts, Target \/ Drop PROVE R2Ts'
<1>1. UNCHANGED <<cmd, tx, rx>>
  BY DEF Target, TargetCommand, TargetData, Drop, threadVars, cmdVars
<1>2. CASE c2t' = <<>> /\ t2c' = <<>>
  <2>1. Asked(c2t)' /\ Asked(t2c)'
    BY <1>2 DEF Asked
  <2> QED BY <1>1, <2>1 DEF R2Ts, Asking
<1>3. ASSUME NEW op \in Ops, c2t # <<>>, c2t' = Tail(c2t), op \notin {"login", "command"},
             op = "login_response" => Head(c2t).op = "login",
             t2c' = Append(t2c, Pdu(op, Head(c2t).cmd)), op = "r2t" => Head(c2t).op = "command"
      PROVE  R2Ts'
  <2>1. PICK h : h = Head(c2t)
    OBVIOUS
  <2>2. c2t \in Seq(PDUs) /\ t2c \in Seq(PDUs) /\ Asked(c2t) /\ Asked(t2c)
    BY DEF OnceInv, Once, Wire, R2Ts
  <2>3. /\ Asked(Tail(c2t)) /\ h \in PDUs
        /\ Asking(h) => h.cmd \in Cmds /\ cmd[h.cmd].r2treq = 0
    BY <1>3, <2>1, <2>2, AskedTail, HeadTailProperties
  <2> DEFINE p == Pdu(op, h.cmd)
  <2>4. p \in PDUs /\ p.cmd = h.cmd /\ p.op = op
    BY <1>3, <2>1, <2>3 DEF Pdu, PDUs
  <2>5. Asking(p) => Asking(h)
    BY <1>3, <2>1, <2>4 DEF Asking
  <2> HIDE DEF p
  <2>6. Asked(Append(t2c, p))
    BY <2>2, <2>3, <2>4, <2>5, AskedAppend
  <2>7. t2c' = Append(t2c, p)
    BY <1>3, <2>1 DEF p
  <2>8. Asked(c2t)' /\ Asked(t2c)'
    BY <1>1, <1>3, <2>3, <2>6, <2>7 DEF Asked, Asking
  <2> QED BY <1>1, <2>8 DEF R2Ts, Asking
<1>4. CASE TargetCommand
  BY <1>3, <1>4 DEF TargetCommand, Answer, Ops
<1>5. CASE TargetData
  BY <1>2, <1>3, <1>5 DEF TargetData, Answer, Ops
<1>6. CASE Drop
  BY <1>2, <1>6 DEF Drop
<1> QED BY <1>4, <1>5, <1>6 DEF Target

-----------------------------------------------------------------------------

\* The threads keep to their states, and a command has one R2T at most that it did not
\* answer: r2t_request, which scsi_r2t_rx_i raises (initiator.c 3068) and the tx worker
\* lowers (1676), is the tx worker's only sign whether a command or its data are to be
\* sent (1673).
THEOREM SessionTypes == Spec => []TypeOK
<1>1. Init => OnceInv /\ TypesInv
  <2> SUFFICES ASSUME Init PROVE OnceInv /\ TypesInv
    OBVIOUS
  <2>1. OnceInv
    BY OnceInvInit
  <2>2. Shapes
    BY BoundsAssumption DEF Init, Shapes, Flags
  <2>3. Counts(cmd) /\ c2t = <<>> /\ t2c = <<>> /\ rx.pc = "exited" /\ tx.pc = "exited"
    BY DEF Init, Counts, NewCmd, AllCmds
  <2>4. R2Ts
    BY <2>3 DEF R2Ts, Asked
  <2> QED BY <2>1, <2>2, <2>4 DEF TypesInv
<1>2. (OnceInv /\ TypesInv) /\ [Next]_vars => (OnceInv /\ TypesInv)'
  <2> SUFFICES ASSUME OnceInv, TypesInv, [Next]_vars PROVE OnceInv' /\ TypesInv'
    OBVIOUS
  <2>1. OnceInv'
    BY OnceKept
  <2>2. CASE UNCHANGED vars
    <3>1. UNCHANGED <<cmd, c2t, t2c, tx, rx>>
      BY <2>2 DEF vars, threadVars, cmdVars, netVars
    <3> QED BY <2>1, <3>1, ShapesHeld, R2TsStay DEF TypesInv
  <2>3. (\E c \in Cmds : initiator_enqueue(c)) => R2Ts'
    BY CallersR2Ts DEF TypesInv
  <2>4. SessionWorker \/ TxWorker \/ RxWorker \/ Manager \/ Target \/ Drop => R2Ts'
    BY SessionWorkerR2Ts, TxWorkerR2Ts, RxWorkerR2Ts, ManagerR2Ts, NetworkR2Ts DEF TypesInv
  <2> QED BY <2>1, <2>2, <2>3, <2>4, ShapesHeld DEF TypesInv, Next, Step
<1>3. OnceInv /\ TypesInv => TypeOK
  <2> SUFFICES ASSUME OnceInv, TypesInv PROVE TypeOK
    OBVIOUS
  <2>1. Range(txq) \cup Range(tmpq) \cup hash \subseteq AllCmds
    BY KnownCommands DEF OnceInv, Known
  <2> QED BY <2>1 DEF TypesInv, Shapes, R2Ts, Counts, TypeOK, AllCmds, OnceInv, ThreadInv
<1> QED BY <1>1, <1>2, <1>3, PTL DEF Spec
=============================================================================
