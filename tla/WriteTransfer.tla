--------------------------- MODULE WriteTransfer ---------------------------
(***************************************************************************)
(* The data path of SCSI writes, end to end: the initiator's tx and rx       *)
(* threads (initiator.c), the two directions of the connection, the target's *)
(* session worker (target.c) and the LUN workers (disk-alpha.c).             *)
(*                                                                           *)
(* A write moves TransLen units of data (a unit stands for the blocks that   *)
(* are never split) as immediate data in the command PDU, as unsolicited     *)
(* data PDUs, and as data PDUs that answer an R2T of the target, in the      *)
(* amounts that the negotiated parameters allow.  A parameter that is 0 sets *)
(* no limit.                                                                 *)
(***************************************************************************)
EXTENDS Integers, Sequences, FiniteSets, SequencesExt

CONSTANTS
    Cmds,       \* the write commands
    Params      \* the parameter records of which the session has one; cmds are
                \* the writes that come, bad those the device may refuse

\* MaxBurstLength 0 makes scsi_command_i fail; immediate data larger than the
\* first burst makes the target refuse the command: see the README.
ASSUME ParamsAssumption ==
    \A p \in Params :
        /\ p \in [seg : Nat, first : Nat, max : Nat \ {0}, initialR2T : BOOLEAN,
                  immediate : BOOLEAN, transLen : Nat \ {0},
                  cmds : SUBSET Cmds, bad : SUBSET Cmds]
        /\ p.immediate /\ p.first # 0 =>
               (IF p.seg = 0 THEN p.transLen <= p.first
                ELSE p.seg <= p.first \/ p.transLen <= p.first)

VARIABLES
    par,        \* sess_params, the same on both sides, and what is written
    i2t, t2i,   \* PDUs on the wire, initiator to target and back
    txq,        \* g_tx_queue
    tx,         \* what the tx thread is at: <<>> or <<job>>
    ihash,      \* commands in g_cmd_hash
    icmd,       \* INITIATOR_CMD_T and its ISCSI_SCSI_CMD_T
    rx,         \* PDU the rx thread has the command of: <<>> or <<PDU>>
    iup,        \* the initiator's session has met no error
    thash,      \* commands in the target session's hash
    tcmd,       \* TARGET_CMD_T
    wk,         \* data PDU the target worker is at: <<>> or <<PDU>>
    lunq,       \* g_cmd_queue of the LUN
    lun,        \* what a LUN worker does with each command
    tup,        \* the target's session is up and its process has not exited
    placed      \* how often each unit of each command was placed in its buffer

chanVars == <<i2t, t2i>>
iniVars == <<txq, tx, ihash, icmd, rx, iup>>
tgtVars == <<thash, tcmd, wk, lunq, lun, tup, placed>>
vars == <<par, chanVars, iniVars, tgtVars>>

TransLen == par.transLen
Units == 0..(TransLen - 1)

Min2(a, b) == IF a <= b THEN a ELSE b

\* MIN with a limit that is absent when 0
Limited(limit, n) == IF limit = 0 THEN n ELSE Min2(limit, n)

CmdPdu(c, len) == [op |-> "command", cmd |-> c, off |-> 0, len |-> len, final |-> FALSE]
DataPdu(c, off, len, final) ==
    [op |-> "data", cmd |-> c, off |-> off, len |-> len, final |-> final]
R2TPdu(c, off, len) == [op |-> "r2t", cmd |-> c, off |-> off, len |-> len]
RspPdu(c, status) == [op |-> "response", cmd |-> c, status |-> status]

Job(c, mode, bytes) == <<[cmd |-> c, mode |-> mode, bytes |-> bytes]>>

NewICmd == [sent |-> 0, r2treq |-> 0, off |-> 0, len |-> 0, txDone |-> FALSE,
            status |-> "none"]
NewTCmd == [length |-> 0, bytes |-> 0, ready |-> FALSE, r2tFlag |-> FALSE,
            done |-> FALSE, status |-> 0, asked |-> 0]

Init ==
    /\ par \in Params
    /\ i2t = <<>> /\ t2i = <<>>
    /\ txq = <<>> /\ tx = <<>> /\ ihash = {} /\ rx = <<>> /\ iup = TRUE
    /\ icmd = [c \in Cmds |-> NewICmd]
    /\ thash = {} /\ wk = <<>> /\ lunq = <<>> /\ tup = TRUE
    /\ tcmd = [c \in Cmds |-> NewTCmd]
    /\ lun = [c \in Cmds |-> "none"]
    /\ placed = [c \in Cmds |-> [u \in Units |-> 0]]

-----------------------------------------------------------------------------
(***************************************************************************)
(* The initiator                                                             *)
(***************************************************************************)

\* initiator_enqueue: the cleared command goes on the tx queue.
initiator_enqueue(c) ==
    /\ icmd[c].status = "none"
    /\ icmd' = [icmd EXCEPT ![c].status = "pending"]
    /\ txq' = Append(txq, c)
    /\ UNCHANGED <<par, chanVars, tx, ihash, rx, iup, tgtVars>>

\* tx_worker_proc_i: dequeue, put in the hash unless there, and choose between
\* answering an R2T and sending the command.
TxTake ==
    /\ iup /\ tx = <<>> /\ txq # <<>>
    /\ LET c == Head(txq) IN
         /\ txq' = Tail(txq)
         /\ ihash' = ihash \cup {c}
         /\ icmd' = [icmd EXCEPT ![c].txDone = FALSE]
         /\ IF icmd[c].r2treq > 0
            THEN tx' = Job(c, "r2t", 0) /\ iup' = (icmd[c].len # 0)
            ELSE tx' = Job(c, "command", 0) /\ iup' = (icmd[c].sent = 0)
    /\ UNCHANGED <<par, chanVars, rx, tgtVars>>

\* scsi_command_i goes on with unsolicited data: not in R2T mode, data left, and
\* the first burst not reached.
MoreUnsolicited(sent) ==
    /\ ~par.initialR2T
    /\ sent < TransLen
    /\ par.first = 0 \/ sent < par.first

ImmediateLength == IF par.immediate THEN Limited(par.seg, TransLen) ELSE 0

\* scsi_command_i: the command PDU and its immediate data
TxCommand ==
    /\ iup /\ tx # <<>> /\ tx[1].mode = "command"
    /\ LET c == tx[1].cmd IN
         /\ i2t' = Append(i2t, CmdPdu(c, ImmediateLength))
         /\ icmd' = [icmd EXCEPT ![c].sent = ImmediateLength]
         /\ tx' = Job(c, IF MoreUnsolicited(ImmediateLength) THEN "unsolicited"
                         ELSE "sent", 0)
    /\ UNCHANGED <<par, t2i, txq, ihash, rx, iup, tgtVars>>

UnsolicitedLength(sent) ==
    Limited(par.seg,
            IF par.first = 0 THEN TransLen - sent
            ELSE Min2(par.first - sent, TransLen - sent))

\* scsi_command_i: one turn of the unsolicited data loop
TxUnsolicited ==
    /\ iup /\ tx # <<>> /\ tx[1].mode = "unsolicited"
    /\ LET c == tx[1].cmd
           sent == icmd[c].sent
           len == UnsolicitedLength(sent)
           final == sent + len = TransLen \/ sent + len >= par.first
       IN /\ i2t' = Append(i2t, DataPdu(c, sent, len, final))
          /\ icmd' = [icmd EXCEPT ![c].sent = sent + len]
          /\ tx' = Job(c, IF MoreUnsolicited(sent + len) THEN "unsolicited"
                          ELSE "sent", 0)
    /\ UNCHANGED <<par, t2i, txq, ihash, rx, iup, tgtVars>>

\* Mutated form: every PDU of the answer starts at the R2T's offset.
R2TDataOffsetFixed(c, bytes) == icmd[c].off

\* data.offset = cmd->r2t.offset + bytes_todev
R2TDataOffset(c, bytes) == icmd[c].off + bytes

(***************************************************************************)
(* scsi_r2t_tx_i: one turn of the loop that answers an R2T.  cmd->r2t is     *)
(* read anew in every turn, and the rx thread may have overwritten it.  A    *)
(* length that wrapped below zero, and an offset or an end beyond the data,  *)
(* make modify_iov fail.                                                     *)
(***************************************************************************)
TxR2TData ==
    /\ iup /\ tx # <<>> /\ tx[1].mode = "r2t"
    /\ LET c == tx[1].cmd
           bytes == tx[1].bytes
           off == R2TDataOffset(c, bytes)
           wrapped == bytes > icmd[c].len
           len == IF wrapped THEN par.seg ELSE Limited(par.seg, icmd[c].len - bytes)
           fits == /\ ~(wrapped /\ par.seg = 0)
                   /\ off < TransLen /\ off + len <= TransLen
       IN IF fits
          THEN /\ i2t' = Append(i2t, DataPdu(c, off, len, bytes + len = icmd[c].len))
               /\ icmd' = [icmd EXCEPT ![c].sent = @ + len]
               /\ tx' = Job(c, IF bytes + len < icmd[c].len THEN "r2t" ELSE "answered",
                            bytes + len)
               /\ UNCHANGED iup
          ELSE iup' = FALSE /\ UNCHANGED <<i2t, icmd, tx>>
    /\ UNCHANGED <<par, t2i, txq, ihash, rx, tgtVars>>

\* tx_worker_proc_i: r2t_request-- after an R2T; then tx_done = 1 wakes the rx thread
TxDone ==
    /\ iup /\ tx # <<>> /\ tx[1].mode \in {"sent", "answered"}
    /\ icmd' = [icmd EXCEPT
                  ![tx[1].cmd].txDone = TRUE,
                  ![tx[1].cmd].r2treq = IF tx[1].mode = "answered" THEN @ - 1 ELSE @]
    /\ tx' = <<>>
    /\ UNCHANGED <<par, chanVars, txq, ihash, rx, iup, tgtVars>>

\* rx_worker_proc_i: read a header; its command must be in the hash.
RxHeader ==
    /\ iup /\ rx = <<>> /\ t2i # <<>>
    /\ rx' = <<Head(t2i)>>
    /\ t2i' = Tail(t2i)
    /\ iup' = (Head(t2i).cmd \in ihash)
    /\ UNCHANGED <<par, i2t, txq, tx, ihash, icmd, tgtVars>>

\* Mutated form: the rx thread does not wait for the tx thread.
RxReadyNoWait(op) == iup /\ rx # <<>> /\ rx[1].op = op

\* ISCSI_WAIT(&sess->rx_worker.wq, cmd->tx_done), and the handler of the opcode
RxReady(op) == iup /\ rx # <<>> /\ rx[1].op = op /\ icmd[rx[1].cmd].txDone

(***************************************************************************)
(* scsi_r2t_rx_i: the one r2t slot is overwritten; a third R2T in a row is   *)
(* an error.  The R2T that reaches the end of the data takes the command out *)
(* of the hash: the tx thread puts it back when it takes it off its queue.   *)
(***************************************************************************)
RxR2T ==
    /\ RxReady("r2t")
    /\ LET c == rx[1].cmd IN
         /\ iup' = (icmd[c].r2treq <= 1)
         /\ icmd' = [icmd EXCEPT ![c].r2treq = @ + 1, ![c].off = rx[1].off,
                                 ![c].len = rx[1].len]
         /\ ihash' = IF rx[1].off + rx[1].len = TransLen THEN ihash \ {c} ELSE ihash
         /\ txq' = Append(txq, c)
    /\ rx' = <<>>
    /\ UNCHANGED <<par, chanVars, tx, tgtVars>>

\* scsi_response_i and iscsi_done_i: a GOOD status for fewer or more bytes than
\* the command has is an error of the command and of the session.
RxResponse ==
    /\ RxReady("response")
    /\ LET c == rx[1].cmd
           short == rx[1].status = 0 /\ icmd[c].sent # TransLen
       IN /\ icmd' = [icmd EXCEPT ![c].status = IF short THEN "failed"
                                     ELSE IF rx[1].status = 0 THEN "good" ELSE "check"]
          /\ ihash' = ihash \ {c}
          /\ iup' = ~short
    /\ rx' = <<>>
    /\ UNCHANGED <<par, chanVars, txq, tx, tgtVars>>

-----------------------------------------------------------------------------
(***************************************************************************)
(* The target                                                                *)
(***************************************************************************)

\* scsi_command_t: read the immediate data, hash the command, queue it to the LUN.
scsi_command_t ==
    /\ tup /\ wk = <<>> /\ i2t # <<>> /\ Head(i2t).op = "command"
    /\ LET c == Head(i2t).cmd IN
         /\ tcmd' = [tcmd EXCEPT ![c] = [NewTCmd EXCEPT !.length = Head(i2t).len]]
         /\ thash' = thash \cup {c}
         /\ lunq' = Append(lunq, c)
         /\ lun' = [lun EXCEPT ![c] = "queued"]
    /\ i2t' = Tail(i2t)
    /\ UNCHANGED <<par, t2i, iniVars, wk, tup, placed>>

\* execute_t, ISCSI_WRITE_DATA: the command of the data, or exit(1)
WorkerData ==
    /\ tup /\ wk = <<>> /\ i2t # <<>> /\ Head(i2t).op = "data"
    /\ wk' = <<Head(i2t)>>
    /\ i2t' = Tail(i2t)
    /\ tup' = (Head(i2t).cmd \in thash)
    /\ UNCHANGED <<par, t2i, iniVars, thash, tcmd, lunq, lun, placed>>

Place(c, off, len) ==
    placed' = [placed EXCEPT ![c] =
                [u \in Units |-> IF u \in off..(off + len - 1) /\ @[u] < 2
                                 THEN @[u] + 1 ELSE @[u]]]

\* Mutated form: the worker forgets that the R2T was sent.
FirstBurstR2TAgain(t) == ~par.initialR2T /\ par.first # 0 /\ t.bytes >= par.first

\* execute_t: after unsolicited data that ends the first burst, ONE R2T for all the rest
FirstBurstR2T(t) ==
    /\ ~t.r2tFlag /\ ~par.initialR2T
    /\ par.first # 0 /\ t.bytes >= par.first

\* execute_t: wait for cmd->ready, check the PDU, place its data; all placed, queue
\* the command to the LUN again.
WorkerPlace ==
    /\ tup /\ wk # <<>> /\ tcmd[wk[1].cmd].ready
    /\ LET c == wk[1].cmd
           bytes == tcmd[c].bytes + wk[1].len
           t == [tcmd[c] EXCEPT !.bytes = bytes]
           accepted == /\ par.seg = 0 \/ wk[1].len <= par.seg
                       /\ bytes <= TransLen
                       /\ bytes = TransLen => wk[1].final
       IN /\ tup' = accepted
          /\ IF ~accepted
             THEN UNCHANGED <<tcmd, lunq, lun, t2i, placed>>
             ELSE /\ Place(c, wk[1].off, wk[1].len)
                  /\ IF bytes = TransLen
                     THEN /\ tcmd' = [tcmd EXCEPT ![c] = [t EXCEPT !.done = TRUE]]
                          /\ lunq' = Append(lunq, c)
                          /\ lun' = [lun EXCEPT ![c] = "queued"]
                          /\ UNCHANGED t2i
                     ELSE /\ IF FirstBurstR2T(t)
                             THEN /\ t2i' = Append(t2i, R2TPdu(c, bytes, TransLen - bytes))
                                  /\ tcmd' = [tcmd EXCEPT ![c] = [t EXCEPT !.r2tFlag = TRUE]]
                             ELSE /\ tcmd' = [tcmd EXCEPT ![c] = t]
                                  /\ UNCHANGED t2i
                          /\ UNCHANGED <<lunq, lun>>
    /\ wk' = <<>>
    /\ UNCHANGED <<par, i2t, iniVars, thash>>

-----------------------------------------------------------------------------
(***************************************************************************)
(* The LUN workers: each command is with at most one of them.                *)
(***************************************************************************)

\* lun_worker_proc: take the oldest; done, report it; else execute it.
LunTake ==
    /\ tup /\ lunq # <<>>
    /\ lun' = [lun EXCEPT ![Head(lunq)] =
                 IF tcmd[Head(lunq)].done THEN "report" ELSE "prepare"]
    /\ lunq' = Tail(lunq)
    /\ UNCHANGED <<par, chanVars, iniVars, thash, tcmd, wk, tup, placed>>

\* prepare_write fails: device_command sets the status, and nobody is told.
PrepareFails(c) ==
    /\ tup /\ lun[c] = "prepare" /\ c \in par.bad
    /\ tcmd' = [tcmd EXCEPT ![c].status = 2, ![c].length = 0]
    /\ lun' = [lun EXCEPT ![c] = "none"]
    /\ UNCHANGED <<par, chanVars, iniVars, thash, wk, lunq, tup, placed>>

\* target_transfer_data asks for the rest at once in R2T mode and when the
\* immediate data is the first burst.
AsksAtOnce(bytes) == par.initialR2T \/ (par.first # 0 /\ bytes >= par.first)

\* prepare_write: copy the immediate data; all there, report; else transfer.
Prepare(c) ==
    /\ tup /\ lun[c] = "prepare"
    /\ Place(c, 0, tcmd[c].length)
    /\ tcmd' = [tcmd EXCEPT ![c].bytes = tcmd[c].length]
    /\ lun' = [lun EXCEPT ![c] =
                 IF tcmd[c].length = TransLen THEN "report"
                 ELSE IF AsksAtOnce(tcmd[c].length) THEN "ask" ELSE "wake"]
    /\ UNCHANGED <<par, chanVars, iniVars, thash, wk, lunq, tup>>

\* target_transfer_data: one R2T of the loop, of at most MaxBurstLength
AskR2T(c) ==
    /\ tup /\ lun[c] = "ask"
    /\ LET off == tcmd[c].bytes + tcmd[c].asked
           len == Min2(TransLen - off, par.max)
       IN /\ t2i' = Append(t2i, R2TPdu(c, off, len))
          /\ tcmd' = [tcmd EXCEPT ![c].r2tFlag = TRUE, ![c].asked = @ + len]
          /\ lun' = [lun EXCEPT ![c] = IF off + len < TransLen THEN "ask" ELSE "wake"]
    /\ UNCHANGED <<par, i2t, iniVars, thash, wk, lunq, tup, placed>>

\* Mutated form: the worker is woken before it may place data.
WakeWorkerEarly(c) ==
    /\ tup /\ lun[c] = "wake"
    /\ lun' = [lun EXCEPT ![c] = "none"]
    /\ UNCHANGED <<par, chanVars, iniVars, thash, tcmd, wk, lunq, tup, placed>>

\* target_transfer_data: cmd->ready = 1 wakes the session's worker
WakeWorker(c) ==
    /\ tup /\ lun[c] = "wake"
    /\ tcmd' = [tcmd EXCEPT ![c].ready = TRUE]
    /\ lun' = [lun EXCEPT ![c] = "none"]
    /\ UNCHANGED <<par, chanVars, iniVars, thash, wk, lunq, tup, placed>>

\* command_done and device_command_done: the response, then out of the hash
Report(c) ==
    /\ tup /\ lun[c] = "report"
    /\ t2i' = Append(t2i, RspPdu(c, tcmd[c].status))
    /\ thash' = thash \ {c}
    /\ lun' = [lun EXCEPT ![c] = "none"]
    /\ UNCHANGED <<par, i2t, iniVars, tcmd, wk, lunq, tup, placed>>

-----------------------------------------------------------------------------

TxThread == TxTake \/ TxCommand \/ TxUnsolicited \/ TxR2TData \/ TxDone
RxThread == RxHeader \/ RxR2T \/ RxResponse
TargetWorker == scsi_command_t \/ WorkerData \/ WorkerPlace
LunWorker(c) == PrepareFails(c) \/ Prepare(c) \/ AskR2T(c) \/ WakeWorker(c) \/ Report(c)

Next ==
    \/ \E c \in par.cmds : initiator_enqueue(c)
    \/ TxThread \/ RxThread
    \/ TargetWorker
    \/ LunTake \/ \E c \in Cmds : LunWorker(c)

\* Every thread that can take a step takes one in the end.
Fairness ==
    /\ WF_vars(TxThread) /\ WF_vars(RxThread) /\ WF_vars(TargetWorker)
    /\ WF_vars(LunTake) /\ \A c \in Cmds : WF_vars(LunWorker(c))

Spec == Init /\ [][Next]_vars /\ Fairness

-----------------------------------------------------------------------------

Modes == {"command", "unsolicited", "r2t", "sent", "answered"}
TypeOK ==
    /\ par \in Params
    /\ IsInjective([i \in 1..Len(lunq) |-> lunq[i]])
    /\ Range(txq) \cup ihash \cup thash \cup Range(lunq) \subseteq Cmds
    /\ \A c \in Cmds :
         /\ icmd[c].sent \in Nat /\ icmd[c].r2treq \in 0..3
         /\ icmd[c].off \in 0..TransLen /\ icmd[c].len \in 0..TransLen
         /\ icmd[c].status \in {"none", "pending", "good", "failed", "check"}
         /\ tcmd[c].bytes \in 0..TransLen /\ tcmd[c].asked \in 0..TransLen
         /\ lun[c] \in {"none", "queued", "prepare", "ask", "wake", "report"}
         /\ placed[c] \in [Units -> 0..2]
    /\ tx = <<>> \/ (tx[1].cmd \in Cmds /\ tx[1].mode \in Modes)

\* A write that the initiator reports GOOD has every unit of its data placed in
\* the target's buffer, and placed once, whatever split into immediate,
\* unsolicited and solicited data the parameters lead to, and whether or not the
\* device refuses writes.
GoodMeansPlaced ==
    \A c \in Cmds : icmd[c].status = "good" => \A u \in Units : placed[c][u] = 1

\* No write meets an error path: neither thread of the initiator drops the session,
\* the target's worker accepts every PDU and finds its command.
NoSessionError == TypeOK /\ iup /\ tup

\* The rx thread completes a command only when the tx thread is not at it and it is
\* not on the tx queue: the caller may free it.
FreeWhenDone ==
    \A c \in Cmds : icmd[c].status \in {"good", "failed", "check"} =>
        /\ c \notin Range(txq)
        /\ tx = <<>> \/ tx[1].cmd # c

\* Every write is answered GOOD in the end, one or two at a time, unless the device
\* refuses one: the worker of the session then waits for it for ever.
WritesComplete ==
    \A c \in Cmds :
        icmd[c].status = "pending"
            ~> icmd[c].status = "good" \/ \E d \in par.bad : tcmd[d].status # 0

\* A command whose status the device has set is answered in the end.
StatusAnswered ==
    \A c \in Cmds : tcmd[c].status # 0 ~> icmd[c].status \in {"good", "failed", "check"}
=============================================================================
