--------------------------- MODULE TargetCommands ---------------------------
(***************************************************************************)
(* The life of a command in the target: the session worker (target.c) takes  *)
(* a header and a TARGET_CMD_T from the session's free pools and queues the  *)
(* command to the LUN, the LUN workers (disk-alpha.c) execute it and send    *)
(* the response, and header, structure and staging buffer go back.           *)
(*                                                                           *)
(* The commands here are writes whose data is all immediate; WriteTransfer   *)
(* has the other data.  A structure that is used again gets a new            *)
(* generation, which only the properties look at.                            *)
(***************************************************************************)
EXTENDS Integers, Sequences, FiniteSets, SequencesExt

CONSTANTS
    PoolSize,   \* CONFIG_TARGET_MAX_QUEUE: headers and structures of a session
    Depth,      \* commands that the initiator has outstanding at most
    Loads       \* workers of the LUN (g_workers_per_lun), with the writes and
                \* the NOP-OUTs that the initiator issues at most

ASSUME SizesAssumption == PoolSize \in Nat \ {0} /\ Depth \in Nat
ASSUME LoadsAssumption ==
    \A l \in Loads : l \in [workers : Nat \ {0}, reqs : Nat, pings : Nat]

Slots == 1..PoolSize
None == 0

VARIABLES
    load,           \* which of Loads
    issued, pings,  \* writes and pings issued so far
    outstanding,    \* those not answered yet
    i2t,            \* PDUs on the way to the target
    hdrs,           \* headers in g_header_q
    pool,           \* g_cmd_q: free structures, first in first out
    slot,           \* TARGET_CMD_T: immediate length, buffer, generation
    wk,             \* session worker
    lunq,           \* g_cmd_queue of the LUN
    lw,             \* LUN workers
    work,           \* their WORKER_STATE_WORK flags
    statsLock,      \* worker that holds g_device_stats[lun].lock
    staging,        \* g_staging_queue: free buffers
    StatSN,         \* sess->StatSN
    sentSN          \* StatSN of the last response on the wire

iniVars == <<issued, pings, outstanding>>
poolVars == <<hdrs, pool, slot>>
lunVars == <<lunq, work>>
vars == <<load, iniVars, i2t, poolVars, wk, lunVars, lw, statsLock, staging, StatSN, sentSN>>

Workers == 1..load.workers

Init ==
    /\ load \in Loads
    /\ issued = 0 /\ pings = 0 /\ outstanding = 0 /\ i2t = <<>>
    /\ hdrs = PoolSize
    /\ pool = [i \in Slots |-> i]
    /\ slot = [s \in Slots |-> [len |-> 0, buf |-> None, gen |-> 0]]
    /\ wk = [pc |-> "header", i |-> 0, sn |-> 0]
    /\ lunq = <<>> /\ work = [w \in Workers |-> FALSE]
    /\ lw = [w \in Workers |-> [pc |-> "check", cmd |-> None, gen |-> 0, sn |-> 0]]
    /\ statsLock = None
    /\ staging = [i \in Slots |-> i]
    /\ StatSN = 1 /\ sentSN = 0

-----------------------------------------------------------------------------
(***************************************************************************)
(* The initiator, as far as the target sees it                               *)
(***************************************************************************)

Issue ==
    /\ outstanding < Depth
    /\ \/ /\ issued < load.reqs /\ issued' = issued + 1 /\ i2t' = Append(i2t, "write")
          /\ UNCHANGED pings
       \/ /\ pings < load.pings /\ pings' = pings + 1 /\ i2t' = Append(i2t, "ping")
          /\ UNCHANGED issued
    /\ outstanding' = outstanding + 1
    /\ UNCHANGED <<poolVars, wk, lunVars, lw, statsLock, staging, StatSN, sentSN>>

\* A response with StatSN sn is on the wire.
Send(sn) == sentSN' = sn /\ outstanding' = outstanding - 1

-----------------------------------------------------------------------------
(***************************************************************************)
(* The session worker: worker_proc_t, execute_t and what they call           *)
(***************************************************************************)

\* A header for the next PDU, or the session ends: "No free iSCSI headers"
TakeHeader ==
    /\ wk.pc = "header"
    /\ wk' = [wk EXCEPT !.pc = IF hdrs = 0 THEN "failed" ELSE "recv"]
    /\ hdrs' = IF hdrs = 0 THEN 0 ELSE hdrs - 1
    /\ UNCHANGED <<iniVars, i2t, pool, slot, lunVars, lw, statsLock, staging, StatSN,
                   sentSN>>

\* Mutated form: the free pool is a stack.
LastFreedCommand ==
    /\ wk.pc = "recv" /\ i2t # <<>> /\ Head(i2t) = "write"
    /\ i2t' = Tail(i2t)
    /\ IF pool = <<>>
       THEN wk' = [wk EXCEPT !.pc = "failed"] /\ UNCHANGED <<pool, slot, lunq>>
       ELSE /\ pool' = Front(pool)
            /\ slot' = [slot EXCEPT ![Last(pool)] =
                          [len |-> 1, buf |-> None, gen |-> @.gen + 1]]
            /\ lunq' = Append(lunq, Last(pool))
            /\ wk' = [wk EXCEPT !.pc = "scan", !.i = 1]
    /\ UNCHANGED <<iniVars, hdrs, work, lw, statsLock, staging, StatSN, sentSN>>

\* Mutated form: the structure stays in the pool.
CommandStaysFree ==
    /\ wk.pc = "recv" /\ i2t # <<>> /\ Head(i2t) = "write"
    /\ i2t' = Tail(i2t)
    /\ IF pool = <<>>
       THEN wk' = [wk EXCEPT !.pc = "failed"] /\ UNCHANGED <<pool, slot, lunq>>
       ELSE /\ slot' = [slot EXCEPT ![Head(pool)] =
                          [len |-> 1, buf |-> None, gen |-> @.gen + 1]]
            /\ lunq' = Append(lunq, Head(pool))
            /\ wk' = [wk EXCEPT !.pc = "scan", !.i = 1]
            /\ UNCHANGED pool
    /\ UNCHANGED <<iniVars, hdrs, work, lw, statsLock, staging, StatSN, sentSN>>

\* scsi_command_t: a structure from the pool, cleared; "No free target commands"
\* ends the session.  device_enqueue puts it on the LUN's queue.
scsi_command_t ==
    /\ wk.pc = "recv" /\ i2t # <<>> /\ Head(i2t) = "write"
    /\ i2t' = Tail(i2t)
    /\ IF pool = <<>>
       THEN wk' = [wk EXCEPT !.pc = "failed"] /\ UNCHANGED <<pool, slot, lunq>>
       ELSE /\ pool' = Tail(pool)
            /\ slot' = [slot EXCEPT ![Head(pool)] =
                          [len |-> 1, buf |-> None, gen |-> @.gen + 1]]
            /\ lunq' = Append(lunq, Head(pool))
            /\ wk' = [wk EXCEPT !.pc = "scan", !.i = 1]
    /\ UNCHANGED <<iniVars, hdrs, work, lw, statsLock, staging, StatSN, sentSN>>

\* device_enqueue: look for a worker without the work flag
ScanWorkers ==
    /\ wk.pc = "scan"
    /\ wk' = IF wk.i > load.workers THEN [wk EXCEPT !.pc = "header"]
             ELSE IF work[wk.i] THEN [wk EXCEPT !.i = @ + 1]
             ELSE [wk EXCEPT !.pc = "signal"]
    /\ UNCHANGED <<iniVars, i2t, poolVars, lunVars, lw, statsLock, staging, StatSN,
                   sentSN>>

\* ISCSI_WAKE_ELSE(SET_WORK(worker), &worker.wq): a worker that waits goes on.
SignalWorker ==
    /\ wk.pc = "signal"
    /\ work' = [work EXCEPT ![wk.i] = TRUE]
    /\ lw' = [lw EXCEPT ![wk.i].pc = IF @ = "blocked" THEN "remove" ELSE @]
    /\ wk' = [wk EXCEPT !.pc = "header"]
    /\ UNCHANGED <<iniVars, i2t, poolVars, lunq, statsLock, staging, StatSN, sentSN>>

\* nop_out_t: number the answer ...
NopOut ==
    /\ wk.pc = "recv" /\ i2t # <<>> /\ Head(i2t) = "ping"
    /\ i2t' = Tail(i2t)
    /\ StatSN' = StatSN + 1
    /\ wk' = [wk EXCEPT !.pc = "nop", !.sn = StatSN]
    /\ UNCHANGED <<iniVars, poolVars, lunVars, lw, statsLock, staging, sentSN>>

\* ... send it; execute_t is done with the header
NopIn ==
    /\ wk.pc = "nop"
    /\ Send(wk.sn)
    /\ hdrs' = hdrs + 1
    /\ wk' = [wk EXCEPT !.pc = "header"]
    /\ UNCHANGED <<issued, pings, i2t, pool, slot, lunVars, lw, statsLock, staging, StatSN>>

-----------------------------------------------------------------------------
(***************************************************************************)
(* A LUN worker: lun_worker_proc, device_command, command_done               *)
(***************************************************************************)

At(w, pc) == lw[w].pc = pc
Goto(w, pc) == lw' = [lw EXCEPT ![w].pc = pc]

\* ISCSI_WAIT(&me->wq, HAS_WORK(me) || iscsi_queue_depth(...))
Check(w) ==
    /\ At(w, "check")
    /\ Goto(w, IF work[w] \/ lunq # <<>> THEN "remove" ELSE "blocked")
    /\ UNCHANGED <<iniVars, i2t, poolVars, wk, lunVars, statsLock, staging, StatSN, sentSN>>

RemoveCmd(w) ==
    /\ At(w, "remove")
    /\ IF lunq = <<>>
       THEN Goto(w, "clear") /\ UNCHANGED lunq
       ELSE /\ lunq' = Tail(lunq)
            /\ lw' = [lw EXCEPT ![w] = [pc |-> "prepare", cmd |-> Head(lunq),
                                        gen |-> slot[Head(lunq)].gen, sn |-> 0]]
    /\ UNCHANGED <<iniVars, i2t, poolVars, wk, work, statsLock, staging, StatSN, sentSN>>

\* prepare_write: a staging buffer, the immediate data copied.  Without a buffer it
\* fails, and without a length it waits for data that the initiator does not send:
\* in both cases the command is not answered.
prepare_write(w) ==
    /\ At(w, "prepare")
    /\ LET s == lw[w].cmd IN
         IF staging = <<>>
         THEN Goto(w, "zero") /\ UNCHANGED <<slot, staging>>
         ELSE /\ staging' = Tail(staging)
              /\ slot' = [slot EXCEPT ![s].buf = Head(staging)]
              /\ Goto(w, IF slot[s].len = 0 THEN "zero" ELSE "done")
    /\ UNCHANGED <<iniVars, i2t, hdrs, pool, wk, lunVars, statsLock, StatSN, sentSN>>

\* Mutated form: the lock is not waited for.
LockStatsAnyway(w) ==
    /\ At(w, "done")
    /\ statsLock' = w
    /\ StatSN' = StatSN + 1
    /\ lw' = [lw EXCEPT ![w].pc = "respond", ![w].sn = StatSN]
    /\ UNCHANGED <<iniVars, i2t, poolVars, wk, lunVars, staging, sentSN>>

\* command_done: "we grab the lock to keep the StatSN in order"; then
\* device_command_done takes the number of the response
LockStats(w) ==
    /\ At(w, "done") /\ statsLock = None
    /\ statsLock' = w
    /\ StatSN' = StatSN + 1
    /\ lw' = [lw EXCEPT ![w].pc = "respond", ![w].sn = StatSN]
    /\ UNCHANGED <<iniVars, i2t, poolVars, wk, lunVars, staging, sentSN>>

\* device_command_done: the response PDU
Respond(w) ==
    /\ At(w, "respond")
    /\ Send(lw[w].sn)
    /\ Goto(w, "freeHeader")
    /\ UNCHANGED <<issued, pings, i2t, poolVars, wk, lunVars, statsLock, staging, StatSN>>

\* Mutated form: the header is not given back.
FreeHeaderNot(w) ==
    /\ At(w, "freeHeader")
    /\ Goto(w, "freeCmd")
    /\ UNCHANGED <<iniVars, i2t, poolVars, wk, lunVars, statsLock, staging, StatSN, sentSN>>

\* "free up iSCSI header"
FreeHeader(w) ==
    /\ At(w, "freeHeader")
    /\ hdrs' = hdrs + 1
    /\ Goto(w, "freeCmd")
    /\ UNCHANGED <<iniVars, i2t, pool, slot, wk, lunVars, statsLock, staging, StatSN, sentSN>>

\* "free up target command structure"; then command_done unlocks
FreeCmd(w) ==
    /\ At(w, "freeCmd")
    /\ pool' = Append(pool, lw[w].cmd)
    /\ statsLock' = None
    /\ Goto(w, "cleanup")
    /\ UNCHANGED <<iniVars, i2t, hdrs, slot, wk, lunVars, staging, StatSN, sentSN>>

\* Mutated form: every buffer is given back twice.
CleanUpTwice(w) ==
    /\ At(w, "cleanup")
    /\ staging' = staging \o <<slot[lw[w].cmd].buf, slot[lw[w].cmd].buf>>
    /\ Goto(w, "zero")
    /\ UNCHANGED <<iniVars, i2t, poolVars, wk, lunVars, statsLock, StatSN, sentSN>>

\* "clean up after command": the buffer that the structure names NOW goes back.
CleanUp(w) ==
    /\ At(w, "cleanup")
    /\ LET b == slot[lw[w].cmd].buf IN
         staging' = IF b = None THEN staging ELSE Append(staging, b)
    /\ Goto(w, "zero")
    /\ UNCHANGED <<iniVars, i2t, poolVars, wk, lunVars, statsLock, StatSN, sentSN>>

\* device_command, after prepare_write: args->length = 0
ZeroLength(w) ==
    /\ At(w, "zero")
    /\ slot' = [slot EXCEPT ![lw[w].cmd].len = 0]
    /\ Goto(w, "clear")
    /\ UNCHANGED <<iniVars, i2t, hdrs, pool, wk, lunVars, statsLock, staging, StatSN, sentSN>>

\* Mutated form: the worker goes to sleep without a look at the queue.
ClearWorkAndSleep(w) ==
    /\ At(w, "clear")
    /\ work' = [work EXCEPT ![w] = FALSE]
    /\ Goto(w, "blocked")
    /\ UNCHANGED <<iniVars, i2t, poolVars, wk, lunq, statsLock, staging, StatSN, sentSN>>

\* CLEAR_WORK(me), outside the worker's mutex
ClearWork(w) ==
    /\ At(w, "clear")
    /\ work' = [work EXCEPT ![w] = FALSE]
    /\ Goto(w, "check")
    /\ UNCHANGED <<iniVars, i2t, poolVars, wk, lunq, statsLock, staging, StatSN, sentSN>>

-----------------------------------------------------------------------------

SessionWorker ==
    TakeHeader \/ scsi_command_t \/ ScanWorkers \/ SignalWorker \/ NopOut \/ NopIn
LunWorker(w) ==
    \/ Check(w) \/ RemoveCmd(w) \/ prepare_write(w)
    \/ LockStats(w) \/ Respond(w) \/ FreeHeader(w) \/ FreeCmd(w)
    \/ CleanUp(w) \/ ZeroLength(w) \/ ClearWork(w)

Next == UNCHANGED load /\ (Issue \/ SessionWorker \/ \E w \in Workers : LunWorker(w))

\* The threads run; the lock is not kept for ever and taken finitely often, so
\* that it needs no more.
Fairness ==
    /\ WF_vars(UNCHANGED load /\ SessionWorker)
    /\ \A w \in UNION {1..l.workers : l \in Loads} :
         WF_vars(UNCHANGED load /\ w \in Workers /\ LunWorker(w))

Spec == Init /\ [][Next]_vars /\ Fairness

-----------------------------------------------------------------------------

TypeOK ==
    /\ hdrs \in 0..PoolSize
    /\ Len(pool) <= PoolSize /\ Range(pool) \subseteq Slots
    /\ Range(lunq) \subseteq Slots
    /\ slot \in [Slots -> [len : 0..1, buf : Slots \cup {None}, gen : Nat]]
    /\ statsLock \in Workers \cup {None}
    /\ \A w \in Workers : lw[w].cmd \in Slots \cup {None}
    /\ outstanding \in 0..Depth

\* The session ends for want of a header only when one command less than the pool is
\* outstanding, or more (a header is still with the command answered last), and for want
\* of a structure only when a whole pool is.
PoolsSuffice ==
    /\ TypeOK
    /\ wk.pc = "header" /\ hdrs = 0 => outstanding >= PoolSize - 1
    /\ wk.pc = "recv" /\ i2t # <<>> /\ Head(i2t) = "write" /\ pool = <<>> => outstanding >= PoolSize

\* initiator.h:42 of CONFIG_INITIATOR_QUEUE_DEPTH: "This should be at least one less than
\* CONFIG_TARGET_MAX_QUEUE".  With Depth = PoolSize - 1 the session does not end.
OneLessIsEnough == wk.pc # "failed"

Executing == {w \in Workers : lw[w].pc \in {"prepare", "done", "respond", "freeHeader", "freeCmd"}}

\* From scsi_command_t until it is given back, a structure is on the LUN's queue once or
\* with one worker, and never in the pool: no command is executed twice, and none is
\* overwritten before its answer.
StructureExclusive ==
    /\ IsInjective(pool \o lunq)
    /\ \A w \in Executing :
         /\ lw[w].cmd \notin Range(pool \o lunq)
         /\ \A v \in Executing : lw[v].cmd = lw[w].cmd => v = w

InUse == {w \in Workers : lw[w].pc \in {"done", "respond", "freeHeader", "freeCmd"}}

\* What a worker does with a structure after FreeCmd is safe with one worker, and with
\* several as long as no structure comes back.
LateUseSafe == load.workers = 1 \/ load.reqs <= PoolSize

\* A staging buffer is free once or belongs to one command that is being executed:
\* two commands never write their data into one buffer.
StagingExclusive ==
    LateUseSafe =>
      /\ IsInjective(staging)
      /\ \A w \in InUse : slot[lw[w].cmd].buf \notin Range(staging)
      /\ \A v, w \in InUse : v # w => slot[lw[v].cmd].buf # slot[lw[w].cmd].buf

\* What a LUN worker does to a structure after the response, it does to the command
\* that it executed, and not to the next one in the same structure.
StillItsCommand ==
    LateUseSafe =>
      \A w \in Workers :
        lw[w].pc \in {"cleanup", "zero"} => slot[lw[w].cmd].gen = lw[w].gen

\* Responses go out in the order of their status sequence numbers (disk-alpha.c:1511).
\* Pings break this: see PingInOrder.
StatSNInOrder == [][load.pings = 0 /\ sentSN' # sentSN => sentSN' = sentSN + 1]_vars
PingInOrder == [][sentSN' # sentSN => sentSN' = sentSN + 1]_vars

\* Every command is answered in the end, no worker sleeps while one is queued, unless
\* the session ended for want of a header or a structure.
EveryCommandAnswered ==
    LateUseSafe /\ issued = load.reqs ~> outstanding = 0 \/ wk.pc = "failed"
=============================================================================
