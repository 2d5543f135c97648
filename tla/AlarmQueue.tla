----------------------------- MODULE AlarmQueue -----------------------------
(***************************************************************************)
(* Synchronous commands and their timeouts (initiator.c: initiator_command, *)
(* initiator_enqueue, alarm_signal_handler, initiator_abort, iscsi_done_i).  *)
(* Several threads call initiator_command.  A call puts its command on the   *)
(* alarm queue g_alarm_q, sets the process-wide alarm clock, hands the       *)
(* command to the session's tx thread and waits.  When the answer comes it   *)
(* takes the command out of the alarm queue and stops the clock.  When the   *)
(* clock rings, the signal handler aborts the command at the queue's head.   *)
(*                                                                           *)
(* The alarm queue is the ring of RingQueue.tla.  A thread's command is a    *)
(* local variable of its caller, so a thread uses the same pointer in all    *)
(* its calls: a command is named by its thread, and the tag of its n-th call *)
(* is <<thread, n>>.                                                         *)
(***************************************************************************)
EXTENDS RingQueue, FiniteSets

CONSTANTS
    Uses        \* ways the process uses initiator_command: the threads that call
                \* it, the most calls of each (a bound), and what can happen:
                \* "timeout" (an answer is late or lost), "enqueue"
                \* (initiator_enqueue fails)

Faults == {"timeout", "enqueue"}

ASSUME UsesAssumption ==
    \A u \in Uses : u \in [callers : SUBSET Elems, most : Nat, faults : SUBSET Faults]
\* iscsi_queue_init is given CONFIG_INITIATOR_QUEUE_DEPTH + 1: a slot to spare.
ASSUME RoomAssumption ==
    \A u \in Uses : IsFiniteSet(u.callers) /\ Cardinality(u.callers) < Depth

Callers == Elems

VARIABLES
    use,        \* which of Uses
    pc,         \* where each thread is in initiator_command
    calls,      \* calls each thread has begun
    tag,        \* cmd->tag, by call number
    aborted,    \* cmd->aborted
    done,       \* cmd->done, what the caller waits for
    txq,        \* commands on the session's tx queue
    tx,         \* command the tx thread is sending
    hash,       \* tags in g_cmd_hash
    wire,       \* tags sent whose answer is due
    rx,         \* command the rx thread found in the hash, not yet completed
    rxUp,       \* the rx thread runs
    armed,      \* the alarm clock is running
    handler,    \* command the signal handler is aborting
    marked,     \* ... and has marked so
    exited      \* exit(1) was called

cmdVars == <<tag, aborted, done>>
sessVars == <<txq, tx, hash, wire, rx, rxUp>>
sigVars == <<handler, marked>>
alarmVars == <<use, ringVars, pc, calls, cmdVars, sessVars, armed, sigVars, exited>>

Tag(c) == <<c, tag[c]>>

AInit ==
    /\ Init
    /\ use \in Uses
    /\ pc = [c \in Callers |-> "idle"]
    /\ calls = [c \in Callers |-> 0]
    /\ tag = [c \in Callers |-> 0]
    /\ aborted = [c \in Callers |-> FALSE]
    /\ done = [c \in Callers |-> FALSE]
    /\ txq = {} /\ tx = NULL /\ hash = {} /\ wire = {} /\ rx = NULL /\ rxUp = TRUE
    /\ armed = FALSE /\ handler = NULL /\ marked = FALSE /\ exited = FALSE

Goto(c, label) == pc' = [pc EXCEPT ![c] = label]

\* QUEUE_INSERT_ELSE(&g_alarm_q, ..., return -1); signal(); alarm(timeout)
Begin(c) ==
    /\ pc[c] = "idle" /\ calls[c] < use.most
    /\ calls' = [calls EXCEPT ![c] = @ + 1]
    /\ \/ InsertOk(c) /\ armed' = TRUE /\ Goto(c, "enqueue")
       \/ InsertFull /\ UNCHANGED <<armed, pc>>
    /\ UNCHANGED <<cmdVars, sessVars, sigVars, exited>>

\* initiator_enqueue clears the command, gives it a tag and queues it.
initiator_enqueue(c) ==
    /\ pc[c] = "enqueue"
    /\ tag' = [tag EXCEPT ![c] = calls[c]]
    /\ aborted' = [aborted EXCEPT ![c] = FALSE]
    /\ done' = [done EXCEPT ![c] = FALSE]
    /\ txq' = txq \cup {c}
    /\ Goto(c, "wait")
    /\ UNCHANGED <<ringVars, calls, tx, hash, wire, rx, rxUp, armed, sigVars, exited>>

\* initiator_enqueue fails (no such target, or its tx queue is full): the call
\* returns at once, its command still on the alarm queue and the clock running.
EnqueueFails(c) ==
    /\ "enqueue" \in use.faults
    /\ pc[c] = "enqueue"
    /\ Goto(c, "idle")
    /\ UNCHANGED <<ringVars, calls, cmdVars, sessVars, armed, sigVars, exited>>

\* ISCSI_WAIT(&wait, cmd->done), then the test of cmd->aborted
Wake(c) ==
    /\ pc[c] = "wait" /\ done[c]
    /\ Goto(c, IF aborted[c] THEN "idle" ELSE "remove")
    /\ UNCHANGED <<ringVars, calls, cmdVars, sessVars, armed, sigVars, exited>>

\* Mutated form: a queue of one counts as empty.
RemoveCheckOffByOne(c) ==
    /\ pc[c] = "remove"
    /\ exited' = (count <= 1)
    /\ Goto(c, "scan")
    /\ UNCHANGED <<ringVars, calls, cmdVars, sessVars, armed, sigVars>>

\* iscsi_queue_remove_this reads the depth before it takes the lock; an empty
\* queue makes it return NULL, and the caller exit(1).
RemoveCheck(c) ==
    /\ pc[c] = "remove"
    /\ exited' = (count = 0)
    /\ Goto(c, "scan")
    /\ UNCHANGED <<ringVars, calls, cmdVars, sessVars, armed, sigVars>>

\* Mutated form: a finished call leaves its command on the alarm queue.
RemoveScanForgets(c) ==
    /\ pc[c] = "scan"
    /\ armed' = FALSE
    /\ Goto(c, "idle")
    /\ UNCHANGED <<ringVars, calls, cmdVars, sessVars, sigVars, exited>>

\* The scan under the lock, whatever the handler took since: found, and alarm(0); not
\* found, and exit(1).
RemoveScan(c) ==
    /\ pc[c] = "scan"
    /\ \/ RemoveThisFound(c) /\ armed' = FALSE /\ UNCHANGED exited
       \/ RemoveThisMissing(c) /\ exited' = TRUE /\ UNCHANGED armed
    /\ Goto(c, "idle")
    /\ UNCHANGED <<calls, cmdVars, sessVars, sigVars>>

-----------------------------------------------------------------------------
(***************************************************************************)
(* The session's tx and rx threads, as far as one command meets them.        *)
(***************************************************************************)

\* wait_callback_i, run by iscsi_done_i
Callback(c) == done' = [done EXCEPT ![c] = TRUE]

\* tx_worker_proc_i: dequeue a command
TxTake(c) ==
    /\ tx = NULL /\ c \in txq
    /\ tx' = c /\ txq' = txq \ {c}
    /\ UNCHANGED <<ringVars, pc, calls, cmdVars, hash, wire, rx, rxUp, armed,
                   sigVars, exited>>

\* ... put it in the hash unless it is there; send it unless it is aborted
TxSend ==
    /\ tx # NULL
    /\ hash' = hash \cup {Tag(tx)}
    /\ wire' = IF aborted[tx] THEN wire ELSE wire \cup {Tag(tx)}
    /\ tx' = NULL
    /\ UNCHANGED <<ringVars, pc, calls, cmdVars, txq, rx, rxUp, armed, sigVars, exited>>

\* rx_worker_proc_i: an answer arrives.  Its tag is looked up in the hash; an
\* unknown tag ends the rx thread.
RxHeader(t) ==
    /\ rxUp /\ rx = NULL /\ t \in wire
    /\ wire' = wire \ {t}
    /\ \/ t \in hash /\ rx' = t[1] /\ UNCHANGED rxUp
       \/ t \notin hash /\ rxUp' = FALSE /\ UNCHANGED rx
    /\ UNCHANGED <<ringVars, pc, calls, cmdVars, txq, tx, hash, armed, sigVars, exited>>

\* iscsi_done_i in the rx thread, with the tag the command has NOW.  A command
\* that is not in the hash is an error unless it is aborted.
RxDone ==
    /\ rx # NULL
    /\ hash' = hash \ {Tag(rx)}
    /\ \/ /\ Tag(rx) \in hash \/ aborted[rx]
          /\ Callback(rx) /\ UNCHANGED rxUp
       \/ /\ Tag(rx) \notin hash /\ ~aborted[rx]
          /\ rxUp' = FALSE /\ UNCHANGED done
    /\ rx' = NULL
    /\ UNCHANGED <<ringVars, pc, calls, tag, aborted, txq, tx, wire, armed, sigVars, exited>>

\* The answer is lost, or later than any timeout.
AnswerLost(t) ==
    /\ "timeout" \in use.faults
    /\ t \in wire
    /\ wire' = wire \ {t}
    /\ UNCHANGED <<ringVars, pc, calls, cmdVars, txq, tx, hash, rx, rxUp, armed,
                   sigVars, exited>>

-----------------------------------------------------------------------------

\* Mutated form: the handler aborts nothing.
AlarmRingsDeaf ==
    /\ "timeout" \in use.faults /\ armed /\ handler = NULL
    /\ \A c \in Callers : pc[c] # "enqueue"
    /\ armed' = FALSE
    /\ iscsi_queue_remove
    /\ UNCHANGED <<pc, calls, cmdVars, sessVars, sigVars, exited>>

\* The clock rings: alarm_signal_handler takes the HEAD of the alarm queue.  Each
\* call sets the clock anew, seconds ahead, so it never rings while a thread is
\* between alarm() and the end of initiator_enqueue.
AlarmRings ==
    /\ "timeout" \in use.faults /\ armed /\ handler = NULL
    /\ \A c \in Callers : pc[c] # "enqueue"
    /\ armed' = FALSE
    /\ iscsi_queue_remove
    /\ handler' = ret' /\ marked' = FALSE
    /\ UNCHANGED <<pc, calls, cmdVars, sessVars, exited>>

\* initiator_abort: cmd->aborted = 1 ...
AbortMark ==
    /\ handler # NULL /\ ~marked
    /\ marked' = TRUE
    /\ aborted' = [aborted EXCEPT ![handler] = TRUE]
    /\ UNCHANGED <<ringVars, pc, calls, tag, done, sessVars, armed, handler, exited>>

\* ... then off the tx queue, and iscsi_done_i.
AbortDone ==
    /\ handler # NULL /\ marked
    /\ txq' = txq \ {handler}
    /\ hash' = hash \ {Tag(handler)}
    /\ Callback(handler)
    /\ handler' = NULL /\ marked' = FALSE
    /\ UNCHANGED <<ringVars, pc, calls, tag, aborted, tx, wire, rx, rxUp, armed, exited>>

CallerStep(c) ==
    \/ initiator_enqueue(c) \/ Wake(c) \/ RemoveCheck(c) \/ RemoveScan(c)
SessionStep ==
    \/ \E c \in Callers : TxTake(c)
    \/ TxSend
    \/ \E t \in wire : RxHeader(t)
    \/ RxDone
AlarmStep == AlarmRings \/ AbortMark \/ AbortDone

ANext ==
    /\ ~exited
    /\ UNCHANGED use
    /\ \/ \E c \in use.callers : Begin(c) \/ EnqueueFails(c) \/ CallerStep(c)
       \/ SessionStep
       \/ \E t \in wire : AnswerLost(t)
       \/ AlarmStep

\* Threads that can run do run, and a clock that is set rings.
Fairness ==
    /\ \A c \in Callers : WF_alarmVars(~exited /\ UNCHANGED use /\ CallerStep(c))
    /\ WF_alarmVars(~exited /\ UNCHANGED use /\ SessionStep)
    /\ WF_alarmVars(~exited /\ UNCHANGED use /\ AlarmStep)

ASpec == AInit /\ [][ANext]_alarmVars /\ Fairness

-----------------------------------------------------------------------------

\* When the handler takes the last command between the two steps of remove_this, the
\* scan matches what is left in the slot of an empty ring, and count becomes -1.
ATypeOK ==
    /\ TypeOK
    /\ use \in Uses
    /\ pc \in [Callers -> {"idle", "enqueue", "wait", "remove", "scan"}]
    /\ calls \in [Callers -> 0..use.most] /\ tag \in [Callers -> 0..use.most]
    /\ aborted \in [Callers -> BOOLEAN] /\ done \in [Callers -> BOOLEAN]
    /\ txq \subseteq Callers
    /\ {tx, rx, handler} \subseteq Callers \cup {NULL}
    /\ hash \cup wire \subseteq Callers \X (1..use.most)
    /\ {rxUp, armed, marked, exited} \subseteq BOOLEAN

\* A call that got its answer finds its command on the alarm queue: the exit(1) of
\* initiator_command is never reached while no answer is late.
NeverExits == use.faults = {} => ~exited

\* The types hold, and while no answer is late and no enqueue fails, the alarm queue holds
\* a command once for every call in progress and none for a call that is over, in
\* whatever order the answers come.
AlarmEntries ==
    /\ ATypeOK
    /\ use.faults = {} =>
         /\ count = Cardinality({c \in Callers : pc[c] # "idle"})
         /\ \A c \in Callers : Queued(c) <=> pc[c] # "idle"

\* A call whose command is on the alarm queue is not blocked for ever by a lost
\* answer: the clock rings and the abort wakes it up, or a race of the abort with
\* a late answer ends the process.  True of a process with one calling thread, and
\* of any number while no answer is lost.
CallReturns ==
    \A c \in Callers :
        /\ pc[c] = "wait" /\ Queued(c)
        /\ use.faults = {} \/ Cardinality(use.callers) = 1
        ~> pc[c] = "idle" \/ exited

\* A command's callback never runs while the tx thread is still sending it
\* (initiator.c:1719-1721).  An abort breaks this: see the README.
CallbackAfterTx ==
    [][\A c \in Callers : done'[c] /\ ~done[c] => tx # c]_alarmVars
=============================================================================
