------------------------ MODULE TargetCommandsProofs ------------------------
(***************************************************************************)
(* Proofs, for any number of headers, structures and commands, that          *)
(*   - responses go out in the order of their status sequence numbers, with  *)
(*     any number of LUN workers, if there are no pings: the lock that       *)
(*     command_done takes is enough (ResponsesInOrder);                      *)
(*   - with any pools and any number of LUN workers, the session ends for    *)
(*     want of a header only with PoolSize - 1 commands outstanding, and for *)
(*     want of a structure only with PoolSize (PoolsNeverRunOut);            *)
(*   - with any pools and any number of LUN workers, a structure is in the   *)
(*     pool, on the LUN's queue or with one worker (OneOwnerEach);           *)
(*   - with ONE LUN worker and pools larger than the initiator's depth, a    *)
(*     buffer serves one command at a time, and what the worker does to a    *)
(*     structure after the response, it does to its own command              *)
(*     (OneWorkerExclusive, OneWorkerStructure).  Neither holds with two.    *)
(***************************************************************************)
EXTENDS TargetCommands, FiniteSetTheorems, SequenceTheorems, TLAPS

WorkerFields == {"pc", "cmd", "gen", "sn"}
Holding == {"respond", "freeHeader", "freeCmd"}

Shape ==
    /\ load \in Loads /\ pings \in Nat
    /\ DOMAIN lw = Workers /\ \A w \in Workers : DOMAIN lw[w] = WorkerFields
    /\ DOMAIN wk = {"pc", "i", "sn"}

\* Nothing else takes a number.
NoPing == load.pings = 0 => i2t \in Seq({"write"}) /\ wk.pc # "nop"

\* From its number until the structure is free a worker has the lock.
Locked == \A w \in Workers : lw[w].pc \in Holding => statsLock = w

\* A number is on the wire, or with the one worker that is to send it.
Numbered ==
    load.pings = 0 =>
     /\ sentSN \in Nat
     /\ \/ StatSN = sentSN + 1 /\ \A w \in Workers : lw[w].pc # "respond"
        \/ /\ StatSN = sentSN + 2
           /\ \E w \in Workers : lw[w].pc = "respond"
           /\ \A w \in Workers : lw[w].pc = "respond" => lw[w].sn = sentSN + 1

SNInv == Shape /\ NoPing /\ Locked /\ Numbered

LEMMA InitSN == Init => SNInv
<1> SUFFICES ASSUME Init PROVE SNInv
  OBVIOUS
<1>1. /\ lw = [w \in Workers |-> [pc |-> "check", cmd |-> None, gen |-> 0, sn |-> 0]]
      /\ load \in Loads /\ pings = 0 /\ sentSN = 0 /\ StatSN = 1 /\ i2t = <<>>
      /\ wk = [pc |-> "header", i |-> 0, sn |-> 0]
  BY DEF Init
<1>2. \A w \in Workers : DOMAIN lw[w] = WorkerFields /\ lw[w].pc = "check"
  BY <1>1 DEF WorkerFields
<1>3. Shape
  BY <1>1, <1>2 DEF Shape
<1>4. NoPing
  BY <1>1 DEF NoPing
<1> QED BY <1>1, <1>2, <1>3, <1>4 DEF SNInv, Locked, Numbered, Holding

\* The initiator and the session worker: none of their steps is seen by the workers
\* that have the lock.
LEMMA SessionKeeps ==
    ASSUME SNInv, Issue \/ SessionWorker, UNCHANGED load
    PROVE  SNInv' /\ (load.pings = 0 => UNCHANGED <<StatSN, sentSN>>)
<1> USE DEF SNInv
<1>1. UNCHANGED statsLock
  BY DEF Issue, SessionWorker, TakeHeader, scsi_command_t, ScanWorkers, SignalWorker, NopOut, NopIn
<1>2. load.pings = 0 => UNCHANGED <<StatSN, sentSN>>
  <2>1. ASSUME load.pings = 0, NopOut PROVE FALSE
    BY <2>1 DEF NopOut, NoPing
  <2>2. ASSUME load.pings = 0, NopIn PROVE FALSE
    BY <2>2 DEF NopIn, NoPing
  <2> QED BY <2>1, <2>2 DEF Issue, SessionWorker, TakeHeader, scsi_command_t, ScanWorkers, SignalWorker
<1>3. NoPing'
  <2> SUFFICES ASSUME load.pings = 0 PROVE i2t' \in Seq({"write"}) /\ wk'.pc # "nop"
    BY DEF NoPing
  <2>1. i2t \in Seq({"write"}) /\ wk.pc # "nop" /\ DOMAIN wk = {"pc", "i", "sn"}
    BY DEF NoPing, Shape
  <2>2. CASE Issue
    <3>1. ~(pings < load.pings)
      BY DEF Shape
    <3>2. i2t' = Append(i2t, "write") /\ wk' = wk
      BY <2>2, <3>1 DEF Issue
    <3> QED BY <2>1, <3>2
  <2>3. CASE scsi_command_t
    <3>1. i2t' = Tail(i2t) /\ i2t # <<>>
      BY <2>3 DEF scsi_command_t
    <3>2. wk'.pc \in {"failed", "scan"}
      BY <2>1, <2>3 DEF scsi_command_t
    <3> QED BY <2>1, <3>1, <3>2
  <2>4. CASE TakeHeader \/ ScanWorkers \/ SignalWorker \/ NopIn
    BY <2>1, <2>4 DEF TakeHeader, ScanWorkers, SignalWorker, NopIn
  <2>5. CASE NopOut
    BY <2>1, <2>5 DEF NopOut
  <2> QED BY <2>2, <2>3, <2>4, <2>5 DEF SessionWorker
<1>4. /\ DOMAIN lw' = Workers
      /\ \A w \in Workers : /\ DOMAIN lw'[w] = WorkerFields /\ lw'[w].sn = lw[w].sn
                            /\ lw'[w].pc \in Holding \/ lw[w].pc \in Holding => lw'[w].pc = lw[w].pc
  <2>1. CASE SignalWorker
    BY <2>1 DEF SignalWorker, Shape, WorkerFields, Holding
  <2>2. CASE UNCHANGED lw
    BY <2>2 DEF Shape
  <2> QED BY <2>1, <2>2 DEF Issue, SessionWorker, TakeHeader, scsi_command_t, ScanWorkers, NopOut, NopIn
<1>5. Workers' = Workers
  BY DEF Workers
<1>6. Shape'
  <2>1. pings' \in Nat
    BY DEF Issue, SessionWorker, TakeHeader, scsi_command_t, ScanWorkers, SignalWorker, NopOut, NopIn, iniVars, Shape
  <2>3. DOMAIN wk' = {"pc", "i", "sn"}
    BY DEF Issue, SessionWorker, TakeHeader, scsi_command_t, ScanWorkers, SignalWorker, NopOut, NopIn, Shape
  <2> QED BY <1>4, <1>5, <2>1, <2>3 DEF Shape
<1>7. Locked'
  BY <1>1, <1>4, <1>5 DEF Locked
<1>8. Numbered'
  BY <1>2, <1>4, <1>5 DEF Numbered, Holding
<1> QED BY <1>2, <1>3, <1>6, <1>7, <1>8

\* What a LUN worker's step does to the others: nothing.
Alone(w) ==
    /\ DOMAIN lw' = Workers /\ DOMAIN lw'[w] = WorkerFields
    /\ \A v \in Workers \ {w} : lw'[v] = lw[v]

\* Steps that neither take nor give the lock, nor move a number
LEMMA WorkerFrame ==
    ASSUME SNInv, NEW w \in Workers, Alone(w), UNCHANGED <<load, pings, i2t, wk, statsLock>>,
           UNCHANGED <<StatSN, sentSN>>,
           lw'[w].pc \in Holding => lw[w].pc \in Holding \ {"respond"} /\ lw'[w].pc # "respond",
           lw[w].pc # "respond"
    PROVE  SNInv'
<1>1. Workers' = Workers
  BY DEF Workers
<1>2. Shape' /\ NoPing'
  BY <1>1 DEF SNInv, Shape, NoPing, Alone
<1>3. Locked'
  BY <1>1 DEF SNInv, Locked, Alone
<1>4. Numbered'
  BY <1>1 DEF SNInv, Numbered, Alone, Holding
<1> QED BY <1>2, <1>3, <1>4 DEF SNInv

\* A LUN worker keeps the invariant, and the next number is the next one on the wire.
LEMMA WorkerKeeps ==
    ASSUME SNInv, NEW w \in Workers, LunWorker(w), UNCHANGED load
    PROVE  SNInv' /\ (load.pings = 0 /\ sentSN' # sentSN => sentSN' = sentSN + 1)
<1> USE DEF SNInv
<1>1. Workers' = Workers
  BY DEF Workers
<1>2. UNCHANGED <<pings, i2t, wk>>
  BY DEF LunWorker, Check, RemoveCmd, prepare_write, LockStats, Respond, FreeHeader, FreeCmd,
     CleanUp, ZeroLength, ClearWork, iniVars
<1>3. CASE LockStats(w)
  <2>1. /\ lw[w].pc = "done" /\ statsLock = None /\ statsLock' = w /\ StatSN' = StatSN + 1
        /\ lw' = [lw EXCEPT ![w].pc = "respond", ![w].sn = StatSN] /\ UNCHANGED sentSN
    BY <1>3 DEF LockStats, At
  <2>2. Alone(w) /\ lw'[w].pc = "respond" /\ lw'[w].sn = StatSN
    BY <2>1 DEF Alone, Shape, WorkerFields
  <2>3. \A v \in Workers : lw[v].pc \notin Holding
    BY <2>1 DEF Locked, None, Workers
  <2>4. Locked' /\ Shape' /\ NoPing'
    BY <1>1, <1>2, <2>1, <2>2, <2>3 DEF Locked, Shape, NoPing, Alone
  <2>5. load.pings = 0 => StatSN = sentSN + 1 /\ sentSN \in Nat
    BY <2>3 DEF Numbered, Holding
  <2>6. Numbered'
    BY <1>1, <2>1, <2>2, <2>3, <2>5 DEF Numbered, Alone, Holding
  <2> QED BY <2>1, <2>4, <2>6
<1>4. CASE Respond(w)
  <2>1. /\ lw[w].pc = "respond" /\ sentSN' = lw[w].sn /\ lw' = [lw EXCEPT ![w].pc = "freeHeader"]
        /\ UNCHANGED <<statsLock, StatSN>>
    BY <1>4 DEF Respond, Send, At, Goto
  <2>2. Alone(w) /\ lw'[w].pc = "freeHeader"
    BY <2>1 DEF Alone, Shape, WorkerFields
  <2>3. statsLock = w /\ \A v \in Workers \ {w} : lw[v].pc # "respond"
    BY <2>1 DEF Locked, Holding
  <2>4. Locked' /\ Shape' /\ NoPing'
    BY <1>1, <1>2, <2>1, <2>2, <2>3 DEF Locked, Shape, NoPing, Alone
  <2>5. load.pings = 0 => sentSN' = sentSN + 1 /\ StatSN = sentSN + 2 /\ sentSN \in Nat
    BY <2>1 DEF Numbered
  <2>6. Numbered'
    BY <1>1, <2>1, <2>2, <2>3, <2>5 DEF Numbered, Alone
  <2> QED BY <2>4, <2>5, <2>6
<1>5. CASE FreeCmd(w)
  <2>1. /\ lw[w].pc = "freeCmd" /\ lw' = [lw EXCEPT ![w].pc = "cleanup"] /\ UNCHANGED <<StatSN, sentSN>>
    BY <1>5 DEF FreeCmd, At, Goto
  <2>2. Alone(w) /\ lw'[w].pc = "cleanup"
    BY <2>1 DEF Alone, Shape, WorkerFields
  <2>3. statsLock = w /\ \A v \in Workers \ {w} : lw[v].pc \notin Holding
    BY <2>1 DEF Locked, Holding
  <2>4. Locked' /\ Shape' /\ NoPing'
    BY <1>1, <1>2, <2>2, <2>3 DEF Locked, Shape, NoPing, Alone, Holding
  <2>5. Numbered'
    BY <1>1, <2>1, <2>2, <2>3 DEF Numbered, Alone
  <2> QED BY <2>1, <2>4, <2>5
<1>6. CASE ~LockStats(w) /\ ~Respond(w) /\ ~FreeCmd(w)
  <2>1. UNCHANGED <<StatSN, sentSN, statsLock>>
    BY <1>6 DEF LunWorker, Check, RemoveCmd, prepare_write, FreeHeader, CleanUp, ZeroLength, ClearWork
  <2>2. /\ Alone(w) /\ lw[w].pc # "respond"
        /\ lw'[w].pc \in Holding => lw[w].pc = "freeHeader" /\ lw'[w].pc = "freeCmd"
    <3>1. CASE RemoveCmd(w)
      BY <3>1 DEF RemoveCmd, At, Goto, Alone, Shape, WorkerFields, Holding
    <3>2. CASE Check(w)
      BY <3>2 DEF Check, At, Goto, Alone, Shape, WorkerFields, Holding
    <3>3. CASE prepare_write(w)
      BY <3>3 DEF prepare_write, At, Goto, Alone, Shape, WorkerFields, Holding
    <3>4. CASE FreeHeader(w) \/ CleanUp(w) \/ ZeroLength(w) \/ ClearWork(w)
      BY <3>4 DEF FreeHeader, CleanUp, ZeroLength, ClearWork, At, Goto, Alone, Shape, WorkerFields, Holding
    <3> QED BY <1>6, <3>1, <3>2, <3>3, <3>4 DEF LunWorker
  <2> QED BY <1>2, <2>1, <2>2, WorkerFrame DEF Holding
<1> QED BY <1>3, <1>4, <1>5, <1>6

LEMMA NextSN ==
    ASSUME SNInv, [Next]_vars
    PROVE  SNInv' /\ (load.pings = 0 /\ sentSN' # sentSN => sentSN' = sentSN + 1)
<1>1. CASE UNCHANGED vars
  BY <1>1 DEF vars, iniVars, SNInv, Shape, NoPing, Locked, Numbered, Workers
<1>2. CASE Next
  BY <1>2, SessionKeeps, WorkerKeeps DEF Next
<1> QED BY <1>1, <1>2

\* Without pings, responses go out in the order of their status sequence numbers.
THEOREM ResponsesInOrder == Spec => StatSNInOrder
<1>1. SNInv /\ [Next]_vars => SNInv'
  BY NextSN
<1>2. SNInv /\ [Next]_vars => [load.pings = 0 /\ sentSN' # sentSN => sentSN' = sentSN + 1]_vars
  BY NextSN
<1> QED BY InitSN, <1>1, <1>2, PTL DEF Spec, StatSNInOrder

-----------------------------------------------------------------------------
(***************************************************************************)
(* The pools suffice, and with one LUN worker a structure and a buffer serve *)
(* one command at a time                                                     *)
(***************************************************************************)

\* The pools are larger than the initiator's depth, as 65 is than 64.
Room == PoolSize > Depth

Owning == {"prepare", "done"} \cup Holding
WkPcs == {"header", "recv", "scan", "signal", "nop", "failed"}
LunPcs == {"check", "blocked", "remove", "cleanup", "zero", "clear"} \cup Owning

Typed ==
    /\ load \in Loads
    /\ wk \in [pc : WkPcs, i : Nat, sn : Nat]
    /\ i2t \in Seq({"write", "ping"})
    /\ outstanding \in Int /\ outstanding <= Depth
    /\ hdrs \in Nat
    /\ {pool, lunq, staging} \subseteq Seq(Slots)
    /\ slot \in [Slots -> [len : 0..1, buf : Slots \cup {None}, gen : Nat]]
    /\ lw \in [Workers -> [pc : LunPcs, cmd : Slots \cup {None}, gen : Nat, sn : Nat]]
    /\ \A w \in Workers : lw[w].pc = "cleanup" => lw[w].cmd \in Slots
    /\ StatSN \in Nat /\ statsLock \in Workers \cup {None}

NoRepeat(s) == \A i, j \in 1..Len(s) : s[i] = s[j] => i = j
Lacks(s, x) == \A i \in 1..Len(s) : s[i] # x

\* A structure is in the pool, on the LUN's queue or with one worker.
OneOwner ==
    /\ NoRepeat(pool) /\ NoRepeat(lunq)
    /\ \A j \in 1..Len(lunq) : Lacks(pool, lunq[j])
    /\ \A w \in Workers : lw[w].pc \in Owning =>
         /\ lw[w].cmd \in Slots /\ Lacks(pool, lw[w].cmd) /\ Lacks(lunq, lw[w].cmd)
         /\ \A v \in Workers \ {w} : lw[v].pc \in Owning => lw[v].cmd # lw[w].cmd

One(b) == IF b THEN 1 ELSE 0
SomeAt(pcs) == \E w \in Workers : lw[w].pc \in pcs

\* The session worker has a header, and numbers a NOP-IN with it; a LUN worker has just
\* answered a command, and still has its header, or its structure.
InHand == One(wk.pc \in {"recv", "nop"})
Pinging == One(wk.pc = "nop")
HeaderOwed == One(SomeAt({"freeHeader"}))
CmdOwed == One(SomeAt({"freeHeader", "freeCmd"}))

\* What is not in the pools is in hand, owed, or of a command that is not answered.
\* The command for which the session found no structure, and failed, is gone.
Gone == outstanding + CmdOwed - (PoolSize - Len(pool) + Len(i2t) + Pinging)
Headers == PoolSize - hdrs + Len(i2t) + Pinging = InHand + outstanding + HeaderOwed
Counted == Headers /\ (Gone = 0 \/ (Gone = 1 /\ wk.pc = "failed"))

PoolInv == Typed /\ OneOwner /\ Counted

\* The one worker has a buffer from prepare_write to the end of command_done, and until
\* it forgets a structure that it gave back, this is the last one of the pool.
Buffered == {"done", "cleanup"} \cup Holding
LastGiven == {"cleanup", "zero"}
Single ==
    LET w == 1
        s == lw[1].cmd
    IN  /\ NoRepeat(staging)
        /\ Len(staging) = PoolSize - One(lw[w].pc \in Buffered)
        /\ \A j \in 1..Len(lunq) : slot[lunq[j]].len = 1
        /\ lw[w].pc \in Owning => slot[s].len = 1
        /\ lw[w].pc \in Owning \cup LastGiven => slot[s].gen = lw[w].gen
        /\ lw[w].pc \in Buffered => slot[s].buf \in Slots /\ Lacks(staging, slot[s].buf)
        /\ lw[w].pc \in LastGiven => pool # <<>> /\ pool[Len(pool)] = s

SingleInv == PoolInv /\ (Room /\ load.workers = 1 => Single)

\* A list of structures without repetition is no longer than the pool, and shorter if it
\* lacks one.
LEMMA NoMoreThanSlots ==
    ASSUME NEW s \in Seq(Slots), NoRepeat(s)
    PROVE  Len(s) <= PoolSize /\ \A x \in Slots : Lacks(s, x) => Len(s) < PoolSize
<1>1. /\ IsFiniteSet(Slots) /\ Cardinality(Slots) = PoolSize
      /\ Len(s) \in Nat /\ Cardinality(1..Len(s)) = Len(s)
  <2>1. PoolSize \in Int /\ PoolSize >= 1 /\ Len(s) \in Nat
    BY SizesAssumption
  <2>2. IsFiniteSet(1..PoolSize) /\ Cardinality(1..PoolSize) = PoolSize
    BY <2>1, FS_Interval
  <2>3. Cardinality(1..Len(s)) = Len(s)
    <3>1. 1 \in Int /\ Len(s) \in Int
      BY <2>1
    <3>2. Cardinality(1..Len(s)) = IF 1 > Len(s) THEN 0 ELSE Len(s) - 1 + 1
      BY <3>1, FS_Interval, Zenon
    <3> QED BY <2>1, <3>2
  <2> QED BY <2>1, <2>2, <2>3 DEF Slots
<1>2. s \in [1..Len(s) -> Slots]
  BY LenProperties
<1>3. s \in Injection(1..Len(s), Slots)
  BY <1>2 DEF Injection, IsInjective, NoRepeat
<1>4. Len(s) <= PoolSize
  BY <1>1, <1>3, FS_Injection
<1>5. ASSUME NEW x \in Slots, Lacks(s, x) PROVE Len(s) < PoolSize
  <2>1. s \in [1..Len(s) -> Slots \ {x}]
    BY <1>2, <1>5 DEF Lacks
  <2>2. s \in Injection(1..Len(s), Slots \ {x})
    BY <2>1 DEF Injection, IsInjective, NoRepeat
  <2>3. IsFiniteSet(Slots \ {x}) /\ Cardinality(Slots \ {x}) = PoolSize - 1
    BY <1>1, <1>5, FS_RemoveElement
  <2>4. Len(s) <= PoolSize - 1
    BY <1>1, <2>2, <2>3, FS_Injection
  <2> QED BY <1>1, <2>4, SizesAssumption
<1> QED BY <1>4, <1>5

LEMMA WithoutFirst ==
    ASSUME NEW s \in Seq(Slots), s # <<>>
    PROVE  /\ Head(s) \in Slots /\ Tail(s) \in Seq(Slots) /\ Len(Tail(s)) = Len(s) - 1
           /\ Len(s) >= 1 /\ Head(s) = s[1]
           /\ \A i \in 1..Len(Tail(s)) : Tail(s)[i] = s[i + 1]
           /\ NoRepeat(s) => NoRepeat(Tail(s)) /\ Lacks(Tail(s), Head(s))
           /\ \A x : Lacks(s, x) => Lacks(Tail(s), x) /\ x # Head(s)
<1>1. /\ Head(s) \in Slots /\ Tail(s) \in Seq(Slots) /\ Len(Tail(s)) = Len(s) - 1
      /\ Len(s) \in Nat /\ Len(s) >= 1 /\ Head(s) = s[1]
      /\ \A i \in 1..Len(Tail(s)) : Tail(s)[i] = s[i + 1]
  OBVIOUS
<1>2. \A i \in 1..Len(Tail(s)) : i + 1 \in 1..Len(s) /\ i + 1 # 1
  BY <1>1
<1>3. ASSUME NoRepeat(s) PROVE NoRepeat(Tail(s)) /\ Lacks(Tail(s), Head(s))
  <2>1. ASSUME NEW i \in 1..Len(Tail(s)), NEW j \in 1..Len(Tail(s)), Tail(s)[i] = Tail(s)[j]
        PROVE  i = j
    <3>1. i + 1 = j + 1
      BY <1>1, <1>2, <1>3, <2>1 DEF NoRepeat
    <3> QED BY <3>1, <1>1
  <2>2. ASSUME NEW i \in 1..Len(Tail(s)) PROVE Tail(s)[i] # Head(s)
    BY <1>1, <1>2, <1>3 DEF NoRepeat
  <2> QED BY <2>1, <2>2 DEF NoRepeat, Lacks
<1>4. ASSUME NEW x, Lacks(s, x) PROVE Lacks(Tail(s), x) /\ x # Head(s)
  BY <1>1, <1>2, <1>4 DEF Lacks
<1> QED BY <1>1, <1>3, <1>4

LEMMA WithLast ==
    ASSUME NEW s \in Seq(Slots), NEW e \in Slots
    PROVE  /\ Append(s, e) \in Seq(Slots) /\ Len(Append(s, e)) = Len(s) + 1
           /\ Append(s, e)[Len(Append(s, e))] = e /\ Append(s, e) # <<>>
           /\ \A i \in 1..Len(s) : Append(s, e)[i] = s[i]
           /\ NoRepeat(s) /\ Lacks(s, e) => NoRepeat(Append(s, e))
           /\ \A x : Lacks(s, x) /\ x # e => Lacks(Append(s, e), x)
<1>1. /\ Append(s, e) \in Seq(Slots) /\ Len(Append(s, e)) = Len(s) + 1 /\ Len(s) \in Nat
      /\ Append(s, e)[Len(s) + 1] = e
      /\ \A i \in 1..Len(s) : Append(s, e)[i] = s[i]
  OBVIOUS
<1>2. \A i \in 1..Len(Append(s, e)) : i \in 1..Len(s) \/ i = Len(s) + 1
  BY <1>1
<1>3. Append(s, e) # <<>>
  BY <1>1
<1>4. ASSUME NoRepeat(s), Lacks(s, e) PROVE NoRepeat(Append(s, e))
  BY <1>1, <1>2, <1>4 DEF NoRepeat, Lacks
<1>5. ASSUME NEW x, Lacks(s, x), x # e PROVE Lacks(Append(s, e), x)
  BY <1>1, <1>2, <1>5 DEF Lacks
<1> QED BY <1>1, <1>3, <1>4, <1>5

\* What the count says of the free headers and structures
LEMMA Bounds ==
    ASSUME SNInv, PoolInv
    PROVE  /\ hdrs \in 0..PoolSize /\ Len(pool) <= PoolSize /\ outstanding \in 0..Depth
           /\ wk.pc = "header" /\ hdrs = 0 => outstanding >= PoolSize - 1
           /\ wk.pc = "recv" /\ i2t # <<>> => Len(pool) >= PoolSize - outstanding + 1 - CmdOwed
           /\ SomeAt({"respond"}) => outstanding >= 1
           /\ wk.pc = "nop" => outstanding >= 1
<1> USE DEF PoolInv
<1>1. /\ PoolSize \in Nat /\ Depth \in Nat
      /\ Len(i2t) \in Nat /\ Len(pool) \in Nat /\ (i2t # <<>> => Len(i2t) >= 1)
      /\ outstanding \in Int /\ outstanding <= Depth /\ hdrs \in Nat
  BY SizesAssumption DEF Typed
<1>2. Len(pool) <= PoolSize
  BY NoMoreThanSlots DEF Typed, OneOwner
<1>3. SomeAt(Owning) => Len(pool) < PoolSize
  BY NoMoreThanSlots DEF Typed, OneOwner, SomeAt
<1>4. /\ SomeAt({"respond"}) => SomeAt(Owning) /\ ~SomeAt({"freeHeader", "freeCmd"})
      /\ SomeAt({"freeHeader"}) => SomeAt({"freeHeader", "freeCmd"})
      /\ SomeAt({"freeHeader", "freeCmd"}) => SomeAt(Owning)
  BY DEF SomeAt, SNInv, Locked, Owning, Holding
<1>5. /\ InHand \in 0..1 /\ Pinging \in 0..1 /\ HeaderOwed \in 0..1 /\ CmdOwed \in 0..1
      /\ HeaderOwed <= CmdOwed /\ Pinging <= InHand
      /\ CmdOwed = 1 => Len(pool) < PoolSize
      /\ SomeAt({"respond"}) => CmdOwed = 0 /\ Len(pool) < PoolSize
      /\ wk.pc = "nop" => Pinging = 1
      /\ wk.pc = "header" => InHand = 0
      /\ wk.pc = "recv" => InHand = 1 /\ Pinging = 0
  BY <1>3, <1>4 DEF One, InHand, Pinging, HeaderOwed, CmdOwed
<1>6. outstanding >= 0
  BY <1>1, <1>2, <1>5 DEF Counted, Headers, Gone
<1>7. hdrs <= PoolSize
  BY <1>1, <1>2, <1>5 DEF Counted, Headers, Gone
<1>8. /\ wk.pc = "header" /\ hdrs = 0 => outstanding >= PoolSize - 1
      /\ wk.pc = "recv" /\ i2t # <<>> => Len(pool) >= PoolSize - outstanding + 1 - CmdOwed
  BY <1>1, <1>2, <1>5 DEF Counted, Headers, Gone
<1>9. /\ SomeAt({"respond"}) => outstanding >= 1
      /\ wk.pc = "nop" => outstanding >= 1
  BY <1>1, <1>2, <1>5 DEF Counted, Headers, Gone
<1> QED BY <1>1, <1>2, <1>6, <1>7, <1>8, <1>9

LEMMA InitPool == Init => Typed /\ OneOwner /\ Counted
<1> SUFFICES ASSUME Init PROVE Typed /\ OneOwner /\ Counted
  OBVIOUS
<1>1. /\ load \in Loads /\ load.workers \in Nat \ {0} /\ PoolSize \in Nat \ {0} /\ Depth \in Nat
  BY SizesAssumption, LoadsAssumption DEF Init
<1>2. /\ outstanding = 0 /\ i2t = <<>> /\ hdrs = PoolSize /\ lunq = <<>>
      /\ pool = [i \in Slots |-> i] /\ staging = [i \in Slots |-> i]
      /\ wk = [pc |-> "header", i |-> 0, sn |-> 0] /\ statsLock = None /\ StatSN = 1
      /\ slot = [s \in Slots |-> [len |-> 0, buf |-> None, gen |-> 0]]
      /\ lw = [w \in Workers |-> [pc |-> "check", cmd |-> None, gen |-> 0, sn |-> 0]]
  BY DEF Init
<1>3. pool \in Seq(Slots) /\ Len(pool) = PoolSize /\ \A i \in 1..Len(pool) : pool[i] = i
  BY <1>1, <1>2 DEF Slots
<1>4. \A w \in Workers : lw[w].pc = "check"
  BY <1>2
<1>5. Typed
  <2>1. lw \in [Workers -> [pc : LunPcs, cmd : Slots \cup {None}, gen : Nat, sn : Nat]]
    BY <1>2 DEF LunPcs
  <2>2. slot \in [Slots -> [len : 0..1, buf : Slots \cup {None}, gen : Nat]]
    BY <1>2
  <2>3. wk \in [pc : WkPcs, i : Nat, sn : Nat]
    BY <1>2 DEF WkPcs
  <2>4. staging = pool /\ lunq \in Seq(Slots) /\ i2t \in Seq({"write", "ping"})
    BY <1>2
  <2> QED BY <1>1, <1>2, <1>3, <2>1, <2>2, <2>3, <2>4 DEF Typed
<1>6. OneOwner
  BY <1>2, <1>3, <1>4 DEF OneOwner, NoRepeat, Owning, Holding
<1>7. Counted
  BY <1>1, <1>2, <1>3, <1>4 DEF Counted, Headers, Gone, One, SomeAt, InHand, Pinging, HeaderOwed, CmdOwed
<1> QED BY <1>5, <1>6, <1>7

\* Only the one that has the lock is between its number and the free structure.
LEMMA OnlyHolder ==
    ASSUME SNInv, NEW w \in Workers, lw[w].pc \in Holding
    PROVE  \A v \in Workers \ {w} : lw[v].pc \notin Holding
BY DEF SNInv, Locked

\* No structure gets a new owner.
LEMMA OwnerFrame ==
    ASSUME OneOwner, UNCHANGED <<load, pool, lunq>>,
           \A w \in Workers : lw'[w].pc \in Owning => lw[w].pc \in Owning /\ lw'[w].cmd = lw[w].cmd
    PROVE  OneOwner'
<1>1. Workers' = Workers
  BY DEF Workers
<1>2. ASSUME NEW w \in Workers, lw'[w].pc \in Owning
      PROVE  /\ lw'[w].cmd \in Slots /\ Lacks(pool', lw'[w].cmd) /\ Lacks(lunq', lw'[w].cmd)
             /\ \A v \in Workers \ {w} : lw'[v].pc \in Owning => lw'[v].cmd # lw'[w].cmd
  BY <1>2 DEF OneOwner
<1> QED BY <1>1, <1>2 DEF OneOwner

\* The terms of the count
LEMMA Hands == {InHand, Pinging, HeaderOwed, CmdOwed} \subseteq 0..1
BY DEF InHand, Pinging, HeaderOwed, CmdOwed, One

LEMMA StillCounted ==
    ASSUME Counted, Headers', Gone' = Gone, wk.pc # "failed" \/ wk' = wk
    PROVE  Counted'
BY DEF Counted

\* LUN workers that do not begin or end to answer owe what they owed.
LEMMA SameHands ==
    ASSUME UNCHANGED load,
           \A w \in Workers : lw'[w].pc = lw[w].pc \/ {lw'[w].pc, lw[w].pc} \cap {"freeHeader", "freeCmd"} = {}
    PROVE  /\ UNCHANGED <<HeaderOwed, CmdOwed>>
           /\ UNCHANGED wk => UNCHANGED <<InHand, Pinging>>
<1>1. Workers' = Workers
  BY DEF Workers
<1> QED BY <1>1 DEF HeaderOwed, CmdOwed, InHand, Pinging, One, SomeAt

LEMMA IssueKeeps ==
    ASSUME SNInv, PoolInv, Issue, UNCHANGED load
    PROVE  Typed' /\ OneOwner' /\ Counted'
<1> USE DEF PoolInv
<1>1. /\ UNCHANGED <<hdrs, pool, slot, wk, lunq, lw, statsLock, staging, StatSN, load>>
      /\ outstanding' = outstanding + 1 /\ outstanding < Depth
      /\ i2t' = Append(i2t, "write") \/ i2t' = Append(i2t, "ping")
  BY DEF Issue, poolVars, lunVars
<1>2. i2t' \in Seq({"write", "ping"}) /\ Len(i2t') = Len(i2t) + 1 /\ Len(i2t) \in Nat
  <2>1. i2t \in Seq({"write", "ping"}) /\ "write" \in {"write", "ping"} /\ "ping" \in {"write", "ping"}
    BY DEF Typed
  <2> QED BY <1>1, <2>1, AppendProperties
<1>3. Workers' = Workers
  BY <1>1 DEF Workers
<1>4. Typed'
  <2>1. outstanding' \in Int /\ outstanding' <= Depth
    <3>1. outstanding \in Int
      BY DEF Typed
    <3> QED BY <1>1, <3>1, SizesAssumption
  <2>2. Typed
    OBVIOUS
  <2> HIDE DEF PoolInv
  <2> QED BY <1>1, <1>2, <1>3, <2>1, <2>2 DEF Typed
<1>5. OneOwner'
  BY <1>1, OwnerFrame
<1>6. Counted'
  <2>1. UNCHANGED <<InHand, Pinging, HeaderOwed, CmdOwed>>
    BY <1>1, SameHands
  <2>2. hdrs \in Nat /\ outstanding \in Int /\ Len(pool) \in Nat /\ PoolSize \in Nat
    BY SizesAssumption DEF Typed
  <2>3. Counted /\ Headers
    BY DEF Counted
  <2>6. /\ Pinging \in Int /\ CmdOwed \in Int /\ Pinging' = Pinging /\ CmdOwed' = CmdOwed
        /\ pool' = pool /\ outstanding' = outstanding + 1
    BY <1>1, <2>1, Hands
  <2>4. Gone' = Gone
    BY <1>2, <2>2, <2>6 DEF Gone
  <2>5. Headers'
    BY <1>1, <1>2, <2>1, <2>2, <2>3, Hands DEF Headers
  <2> QED BY <1>1, <2>3, <2>4, <2>5, StillCounted
<1> QED BY <1>4, <1>5, <1>6

\* The session worker, but for the structure it takes
LEMMA SessionPools ==
    ASSUME SNInv, PoolInv, SessionWorker, ~scsi_command_t, UNCHANGED load
    PROVE  Typed' /\ OneOwner' /\ Counted'
<1> Typed /\ OneOwner /\ Counted
  BY DEF PoolInv
<1>1. UNCHANGED <<pool, slot, lunq, statsLock, staging, load>>
  BY DEF SessionWorker, TakeHeader, ScanWorkers, SignalWorker, NopOut, NopIn, poolVars, lunVars
<1>2. Workers' = Workers
  BY DEF Workers
<1>3. lw \in [Workers -> [pc : LunPcs, cmd : Slots \cup {None}, gen : Nat, sn : Nat]]
  BY DEF Typed
<1>4. /\ lw' \in [Workers -> [pc : LunPcs, cmd : Slots \cup {None}, gen : Nat, sn : Nat]]
      /\ \A w \in Workers : /\ lw'[w].cmd = lw[w].cmd
                            /\ lw'[w].pc # lw[w].pc => lw[w].pc = "blocked" /\ lw'[w].pc = "remove"
  <2>1. CASE UNCHANGED lw
    BY <1>3, <2>1
  <2>2. CASE SignalWorker
    BY <1>3, <2>2 DEF SignalWorker, LunPcs
  <2> QED BY <2>1, <2>2 DEF SessionWorker, TakeHeader, ScanWorkers, NopOut, NopIn
<1>5. OneOwner'
  BY <1>1, <1>4, OwnerFrame DEF Owning, Holding
<1>6. UNCHANGED <<HeaderOwed, CmdOwed>>
  BY <1>1, <1>4, SameHands
<1>7. /\ i2t \in Seq({"write", "ping"}) /\ outstanding <= Depth /\ Depth \in Nat /\ StatSN \in Nat
      /\ wk \in [pc : WkPcs, i : Nat, sn : Nat]
  BY SizesAssumption DEF Typed
<1>10. /\ Len(i2t) \in Nat /\ Len(pool) \in Nat /\ PoolSize \in Nat
       /\ hdrs \in Nat /\ outstanding \in Int
       /\ HeaderOwed \in Int /\ CmdOwed \in Int
  BY SizesAssumption, Hands DEF Typed
<1>11. Counted
  OBVIOUS
<1>8. /\ wk' \in [pc : WkPcs, i : Nat, sn : Nat]
      /\ i2t' \in Seq({"write", "ping"}) /\ hdrs' \in Nat /\ StatSN' \in Nat
      /\ outstanding' \in Int /\ outstanding' <= Depth
      /\ Counted'
  <2>1. CASE TakeHeader
    <3>1. /\ wk.pc = "header" /\ UNCHANGED <<pool, outstanding, i2t, StatSN>>
          /\ \/ hdrs = 0 /\ wk' = [wk EXCEPT !.pc = "failed"] /\ hdrs' = 0
             \/ hdrs # 0 /\ wk' = [wk EXCEPT !.pc = "recv"] /\ hdrs' = hdrs - 1
      BY <1>1, <1>7, <2>1 DEF TakeHeader, iniVars
    <3>2. InHand = 0 /\ Pinging = 0 /\ Pinging' = 0 /\ wk' \in [pc : WkPcs, i : Nat, sn : Nat]
      BY <1>7, <3>1 DEF InHand, Pinging, One, WkPcs
    <3>3. /\ hdrs' \in Nat
          /\ (hdrs' = hdrs /\ InHand' = 0) \/ (hdrs' = hdrs - 1 /\ InHand' = 1)
      BY <1>7, <1>10, <3>1 DEF InHand, One
    <3>5. outstanding' = outstanding /\ Len(i2t') = Len(i2t) /\ HeaderOwed' = HeaderOwed
      BY <1>6, <3>1
    <3>4. Counted'
      <4>1. Counted /\ Headers
        BY DEF Counted
      <4>2. Headers'
        <5>1. CASE hdrs' = hdrs /\ InHand' = 0
          BY <1>10, <3>2, <3>5, <4>1, <5>1 DEF Headers
        <5>2. CASE hdrs' = hdrs - 1 /\ InHand' = 1
          BY <1>10, <3>2, <3>5, <4>1, <5>2 DEF Headers
        <5> QED BY <3>3, <5>1, <5>2
      <4>3. Gone' = Gone
        BY <1>6, <1>10, <3>1, <3>2, <3>3, Hands DEF Gone
      <4> QED BY <4>1, <4>2, <4>3, <3>1, StillCounted
    <3> QED BY <1>7, <1>10, <3>1, <3>2, <3>3, <3>4
  <2>2. CASE NopOut
    <3>1. /\ wk.pc = "recv" /\ wk' = [wk EXCEPT !.pc = "nop", !.sn = StatSN] /\ StatSN' = StatSN + 1
          /\ i2t # <<>> /\ i2t' = Tail(i2t) /\ UNCHANGED <<outstanding, hdrs>>
      BY <2>2 DEF NopOut, iniVars, poolVars
    <3>2. InHand = 1 /\ InHand' = 1 /\ Pinging = 0 /\ Pinging' = 1
      BY <1>7, <3>1 DEF InHand, Pinging, One
    <3>3. i2t' \in Seq({"write", "ping"}) /\ Len(i2t') = Len(i2t) - 1
      BY <1>7, <3>1, HeadTailProperties
    <3>4. Len(i2t') = Len(i2t) - 1 /\ UNCHANGED <<pool, outstanding, hdrs>>
      BY <1>1, <3>1, <3>3
    <3>5. Counted'
      <4>1. Counted /\ Headers
        BY DEF Counted
      <4>2. Headers'
        BY <4>1, <1>6, <1>10, <3>2, <3>4 DEF Headers
      <4>3. Gone' = Gone
        BY <1>6, <1>10, <3>2, <3>4 DEF Gone
      <4> QED BY <4>1, <4>2, <4>3, <3>1, StillCounted
    <3>6. wk' \in [pc : WkPcs, i : Nat, sn : Nat]
      BY <1>7, <3>1 DEF WkPcs
    <3>7. StatSN' \in Nat
      BY <1>7, <3>1
    <3> QED BY <1>7, <1>10, <3>3, <3>4, <3>5, <3>6, <3>7
  <2>3. CASE NopIn
    <3>1. /\ wk.pc = "nop" /\ wk' = [wk EXCEPT !.pc = "header"] /\ hdrs' = hdrs + 1
          /\ outstanding' = outstanding - 1 /\ UNCHANGED <<i2t, StatSN>>
      BY <2>3 DEF NopIn, Send
    <3>2. InHand = 1 /\ InHand' = 0 /\ Pinging = 1 /\ Pinging' = 0
      BY <1>7, <3>1 DEF InHand, Pinging, One
    <3>3. hdrs' = hdrs + 1 /\ outstanding' = outstanding - 1 /\ UNCHANGED <<pool, i2t>>
      BY <1>1, <3>1
    <3>4. Counted'
      <4>1. Counted /\ Headers
        BY DEF Counted
      <4>2. Headers'
        BY <4>1, <1>6, <1>10, <3>2, <3>3 DEF Headers
      <4>3. Gone' = Gone
        BY <1>6, <1>10, <3>2, <3>3 DEF Gone
      <4> QED BY <4>1, <4>2, <4>3, <3>1, StillCounted
    <3>5. wk' \in [pc : WkPcs, i : Nat, sn : Nat]
      BY <1>7, <3>1 DEF WkPcs
    <3>6. hdrs' \in Nat /\ outstanding' \in Int /\ outstanding' <= Depth
      BY <1>7, <1>10, <3>1
    <3>7. i2t' \in Seq({"write", "ping"}) /\ StatSN' \in Nat
      BY <1>7, <3>1
    <3> QED BY <3>4, <3>5, <3>6, <3>7
  <2>4. CASE ScanWorkers \/ SignalWorker
    <3>1. /\ wk.pc \in {"scan", "signal"} /\ wk'.pc \in {"scan", "signal", "header"}
          /\ UNCHANGED <<hdrs, outstanding, i2t, StatSN>>
          /\ wk' \in [pc : WkPcs, i : Nat, sn : Nat]
      BY <1>7, <2>4 DEF ScanWorkers, SignalWorker, iniVars, poolVars, WkPcs
    <3>2. UNCHANGED <<InHand, Pinging>>
      BY <3>1 DEF InHand, Pinging, One
    <3>3. Counted'
      <4>1. Counted /\ Headers
        BY DEF Counted
      <4>2. Headers'
        BY <4>1, <1>1, <1>6, <3>1, <3>2 DEF Headers
      <4>3. Gone' = Gone
        BY <1>1, <1>6, <3>1, <3>2 DEF Gone
      <4> QED BY <4>1, <4>2, <4>3, <3>1, StillCounted
    <3> QED BY <1>7, <1>10, <3>1, <3>3
  <2> QED BY <2>1, <2>2, <2>3, <2>4 DEF SessionWorker
<1>9. Typed'
  BY <1>1, <1>2, <1>4, <1>8 DEF Typed
<1> QED BY <1>5, <1>8, <1>9

\* scsi_command_t: a structure goes from the pool to the LUN's queue.
LEMMA CommandPools ==
    ASSUME SNInv, PoolInv, scsi_command_t, pool # <<>>, UNCHANGED load
    PROVE  /\ Typed' /\ OneOwner' /\ Counted'
           /\ pool' = Tail(pool) /\ lunq' = Append(lunq, Head(pool))
           /\ slot' = [slot EXCEPT ![Head(pool)] = [len |-> 1, buf |-> None, gen |-> @.gen + 1]]
<1> USE DEF PoolInv
<1>1. /\ wk.pc = "recv" /\ i2t # <<>> /\ i2t' = Tail(i2t)
      /\ UNCHANGED <<hdrs, outstanding, lw, statsLock, staging, StatSN, load>>
  BY DEF scsi_command_t, iniVars
<1>2. pool \in Seq(Slots) /\ lunq \in Seq(Slots)
  BY DEF Typed
<1>3. /\ pool' = Tail(pool) /\ lunq' = Append(lunq, Head(pool))
      /\ slot' = [slot EXCEPT ![Head(pool)] = [len |-> 1, buf |-> None, gen |-> @.gen + 1]]
      /\ wk' = [wk EXCEPT !.pc = "scan", !.i = 1]
  BY <1>2 DEF scsi_command_t
<1>4. Workers' = Workers
  BY DEF Workers
<1>5. /\ pool' \in Seq(Slots) /\ Len(pool') = Len(pool) - 1 /\ Head(pool) \in Slots
      /\ NoRepeat(pool') /\ Lacks(pool', Head(pool))
      /\ \A x : Lacks(pool, x) => Lacks(pool', x) /\ x # Head(pool)
  BY <1>2, <1>3, WithoutFirst DEF OneOwner
<1>6. Lacks(lunq, Head(pool))
  BY <1>5 DEF OneOwner, Lacks
<1>7. /\ lunq' \in Seq(Slots) /\ Len(lunq') = Len(lunq) + 1 /\ NoRepeat(lunq')
      /\ lunq'[Len(lunq')] = Head(pool) /\ \A i \in 1..Len(lunq) : lunq'[i] = lunq[i]
      /\ \A x : Lacks(lunq, x) /\ x # Head(pool) => Lacks(lunq', x)
  BY <1>2, <1>3, <1>5, <1>6, WithLast DEF OneOwner
<1>8. OneOwner'
  <2>1. ASSUME NEW j \in 1..Len(lunq') PROVE Lacks(pool', lunq'[j])
    <3>1. Len(lunq) \in Nat /\ (j \in 1..Len(lunq) \/ j = Len(lunq'))
      BY <1>2, <1>7
    <3> QED BY <1>5, <1>7, <3>1 DEF OneOwner
  <2>2. ASSUME NEW w \in Workers, lw[w].pc \in Owning
        PROVE  Lacks(pool', lw[w].cmd) /\ Lacks(lunq', lw[w].cmd)
    BY <1>5, <1>7, <2>2 DEF OneOwner
  <2> QED BY <1>1, <1>4, <1>5, <1>7, <2>1, <2>2 DEF OneOwner
<1>9. i2t' \in Seq({"write", "ping"}) /\ Len(i2t') = Len(i2t) - 1 /\ Len(i2t) \in Nat
  <2>1. i2t \in Seq({"write", "ping"})
    BY DEF Typed
  <2> QED BY <1>1, <2>1, HeadTailProperties, LenProperties
<1>10. wk' \in [pc : WkPcs, i : Nat, sn : Nat] /\ wk'.pc = "scan"
  BY <1>3 DEF Typed, WkPcs
<1>11. slot' \in [Slots -> [len : 0..1, buf : Slots \cup {None}, gen : Nat]]
  BY <1>3, <1>5 DEF Typed
<1>12. Typed'
  BY <1>1, <1>4, <1>5, <1>7, <1>9, <1>10, <1>11 DEF Typed
<1>13. Counted'
  <2>1. InHand = 1 /\ Pinging = 0 /\ InHand' = 0 /\ Pinging' = 0
    BY <1>1, <1>10 DEF InHand, Pinging, One
  <2>2. UNCHANGED <<HeaderOwed, CmdOwed>> /\ HeaderOwed \in Int /\ CmdOwed \in Int
    BY <1>1, SameHands, Hands
  <2>3. hdrs \in Nat /\ outstanding \in Int /\ Len(pool) \in Nat /\ PoolSize \in Nat
    BY SizesAssumption DEF Typed
  <2>4. Counted /\ Headers
    BY DEF Counted
  <2>5. Headers'
    BY <1>1, <1>5, <1>9, <2>1, <2>2, <2>3, <2>4 DEF Headers
  <2>6. Gone' = Gone
    BY <1>1, <1>5, <1>9, <2>1, <2>2, <2>3 DEF Gone
  <2> QED BY <1>1, <2>4, <2>5, <2>6, StillCounted
<1> QED BY <1>2, <1>3, <1>8, <1>12, <1>13

\* Without a structure the session ends, and the command is gone.
LEMMA NoCommandPools ==
    ASSUME SNInv, PoolInv, scsi_command_t, pool = <<>>, UNCHANGED load
    PROVE  /\ Typed' /\ OneOwner' /\ Counted'
           /\ UNCHANGED <<slot, lunq, pool, staging, lw>>
<1> Typed /\ OneOwner /\ Counted
  BY DEF PoolInv
<1>1. /\ wk.pc = "recv" /\ i2t # <<>> /\ i2t' = Tail(i2t) /\ wk' = [wk EXCEPT !.pc = "failed"]
      /\ UNCHANGED <<hdrs, outstanding, lw, pool, slot, lunq, statsLock, staging, StatSN, load>>
  BY DEF scsi_command_t, iniVars
<1>2. Workers' = Workers
  BY DEF Workers
<1>3. i2t' \in Seq({"write", "ping"}) /\ Len(i2t') = Len(i2t) - 1 /\ Len(i2t) \in Nat
  <2>1. i2t \in Seq({"write", "ping"})
    BY DEF Typed
  <2> QED BY <1>1, <2>1, HeadTailProperties, LenProperties
<1>4. wk' \in [pc : WkPcs, i : Nat, sn : Nat] /\ wk'.pc = "failed"
  BY <1>1 DEF Typed, WkPcs
<1>5. Typed'
  BY <1>1, <1>2, <1>3, <1>4 DEF Typed
<1>6. OneOwner'
  BY <1>1, OwnerFrame
<1>7. Counted'
  <2>1. InHand = 1 /\ Pinging = 0 /\ InHand' = 0 /\ Pinging' = 0
    BY <1>1, <1>4 DEF InHand, Pinging, One
  <2>2. UNCHANGED <<HeaderOwed, CmdOwed>> /\ HeaderOwed \in Int /\ CmdOwed \in Int
    BY <1>1, SameHands, Hands
  <2>3. hdrs \in Nat /\ outstanding \in Int /\ Len(pool) \in Nat /\ PoolSize \in Nat
    BY SizesAssumption DEF Typed
  <2>4. Headers /\ Gone = 0
    BY <1>1 DEF Counted
  <2>7. hdrs' = hdrs /\ outstanding' = outstanding /\ pool' = pool /\ Len(i2t') = Len(i2t) - 1
    BY <1>1, <1>3
  <2>5. Headers'
    BY <1>3, <2>1, <2>2, <2>3, <2>4, <2>7 DEF Headers
  <2>6. Gone' = 1
    BY <1>3, <2>1, <2>2, <2>3, <2>4, <2>7 DEF Gone
  <2> QED BY <1>4, <2>5, <2>6 DEF Counted
<1> QED BY <1>1, <1>5, <1>6, <1>7

LWType == [pc : LunPcs, cmd : Slots \cup {None}, gen : Nat, sn : Nat]

LEMMA Moves ==
    ASSUME NEW w \in Workers, lw \in [Workers -> LWType], NEW p \in LunPcs, Goto(w, p)
    PROVE  /\ lw' \in [Workers -> LWType] /\ \A v \in Workers \ {w} : lw'[v] = lw[v]
           /\ lw'[w].pc = p /\ lw'[w].cmd = lw[w].cmd /\ lw'[w].gen = lw[w].gen
<1>1. lw' = [lw EXCEPT ![w] = [lw[w] EXCEPT !.pc = p]]
  BY DEF Goto
<1>2. [lw[w] EXCEPT !.pc = p] \in LWType
  BY DEF LWType
<1> QED BY <1>1, <1>2 DEF LWType

\* A LUN worker that neither takes a command nor answers one
LEMMA QuietPools ==
    ASSUME SNInv, PoolInv, NEW w \in Workers, UNCHANGED load,
           Check(w) \/ prepare_write(w) \/ LockStats(w) \/ CleanUp(w) \/ ZeroLength(w) \/ ClearWork(w)
              \/ (RemoveCmd(w) /\ lunq = <<>>)
    PROVE  Typed' /\ OneOwner' /\ Counted'
<1> Typed /\ OneOwner /\ Counted
  BY DEF PoolInv
<1>1. /\ UNCHANGED <<outstanding, i2t, hdrs, pool, lunq, wk, load>> /\ Workers' = Workers
  BY DEF Check, prepare_write, LockStats, CleanUp, ZeroLength, ClearWork, RemoveCmd, iniVars, poolVars,
     lunVars, Workers
<1>2. lw[w] \in LWType /\ lw \in [Workers -> LWType] /\ StatSN \in Nat
  BY DEF Typed, LWType
<1>3. /\ lw' \in [Workers -> LWType] /\ \A v \in Workers \ {w} : lw'[v] = lw[v]
      /\ {lw[w].pc, lw'[w].pc} \cap {"freeHeader", "freeCmd"} = {}
      /\ lw'[w].pc \in Owning => lw[w].pc \in Owning /\ lw'[w].cmd = lw[w].cmd
      /\ lw'[w].pc # "cleanup"
  <2>1. CASE Check(w)
    <3>1. lw[w].pc = "check" /\ \E p \in {"remove", "blocked"} : Goto(w, p)
      BY <2>1 DEF Check, At
    <3> QED BY <1>2, <3>1, Moves DEF LunPcs, Owning, Holding
  <2>2. CASE prepare_write(w)
    <3>1. lw[w].pc = "prepare" /\ \E p \in {"zero", "done"} : Goto(w, p)
      BY <2>2 DEF prepare_write, At
    <3> QED BY <1>2, <3>1, Moves DEF LunPcs, Owning, Holding
  <2>3. CASE LockStats(w)
    BY <1>2, <2>3 DEF LockStats, At, LWType, LunPcs, Owning, Holding
  <2>4. CASE CleanUp(w) \/ ZeroLength(w) \/ ClearWork(w)
    <3>1. lw[w].pc \in {"cleanup", "zero", "clear"} /\ \E p \in {"zero", "clear", "check"} : Goto(w, p)
      BY <2>4 DEF CleanUp, ZeroLength, ClearWork, At
    <3> QED BY <1>2, <3>1, Moves DEF LunPcs, Owning, Holding
  <2>5. CASE RemoveCmd(w) /\ lunq = <<>>
    <3>1. lw[w].pc = "remove" /\ Goto(w, "clear")
      BY <2>5 DEF RemoveCmd, At
    <3> QED BY <1>2, <3>1, Moves DEF LunPcs, Owning, Holding
  <2> QED BY <2>1, <2>2, <2>3, <2>4, <2>5
<1>4. /\ slot' \in [Slots -> [len : 0..1, buf : Slots \cup {None}, gen : Nat]]
      /\ staging' \in Seq(Slots) /\ StatSN' \in Nat /\ statsLock' \in Workers \cup {None}
  <2>1. /\ slot \in [Slots -> [len : 0..1, buf : Slots \cup {None}, gen : Nat]]
        /\ staging \in Seq(Slots) /\ statsLock \in Workers \cup {None}
    BY DEF Typed
  <2>2. CASE prepare_write(w)
    <3>1. staging # <<>> => Head(staging) \in Slots /\ Tail(staging) \in Seq(Slots)
      BY <2>1, WithoutFirst
    <3>2. UNCHANGED <<StatSN, statsLock>>
      BY <2>2 DEF prepare_write
    <3>3. staging' \in Seq(Slots)
      BY <2>1, <2>2, <3>1 DEF prepare_write
    <3>4. slot' \in [Slots -> [len : 0..1, buf : Slots \cup {None}, gen : Nat]]
      BY <2>1, <2>2, <3>1 DEF prepare_write
    <3> QED BY <1>2, <2>1, <3>2, <3>3, <3>4
  <2>3. CASE CleanUp(w)
    <3>1. UNCHANGED <<StatSN, statsLock, slot>>
      BY <2>3 DEF CleanUp, poolVars
    <3>2. ASSUME slot[lw[w].cmd].buf # None PROVE staging' = Append(staging, slot[lw[w].cmd].buf)
      BY <2>3, <3>2 DEF CleanUp
    <3>3. slot[lw[w].cmd].buf \in Slots \cup {None}
      BY <2>1, <2>3 DEF CleanUp, At, Typed
    <3>4. staging' \in Seq(Slots)
      BY <2>1, <2>3, <3>2, <3>3, WithLast DEF CleanUp
    <3> QED BY <1>2, <2>1, <3>1, <3>4
  <2>4. CASE ZeroLength(w)
    <3>1. slot' = [slot EXCEPT ![lw[w].cmd].len = 0] /\ UNCHANGED <<staging, StatSN, statsLock>>
      BY <2>4 DEF ZeroLength
    <3>2. slot' \in [Slots -> [len : 0..1, buf : Slots \cup {None}, gen : Nat]]
      <4>1. \A c \in Slots : [slot[c] EXCEPT !.len = 0] \in [len : 0..1, buf : Slots \cup {None}, gen : Nat]
        BY <2>1
      <4> QED BY <2>1, <3>1, <4>1
    <3> QED BY <1>2, <2>1, <3>1, <3>2
  <2>5. CASE LockStats(w)
    BY <1>2, <2>1, <2>5 DEF LockStats, poolVars
  <2>6. CASE Check(w) \/ ClearWork(w) \/ RemoveCmd(w)
    <3>1. UNCHANGED <<StatSN, statsLock, slot, staging>>
      BY <2>6 DEF Check, ClearWork, RemoveCmd, poolVars
    <3> QED BY <1>2, <2>1, <3>1
  <2> QED BY <2>2, <2>3, <2>4, <2>5, <2>6
<1>5. Typed'
  BY <1>1, <1>3, <1>4 DEF Typed, LWType
<1>6. OneOwner'
  BY <1>1, <1>3, OwnerFrame
<1>7. UNCHANGED <<InHand, Pinging, HeaderOwed, CmdOwed>>
  BY <1>1, <1>3, SameHands
<1>8. Counted'
  <2>1. Counted /\ Headers
    BY DEF Counted
  <2>2. Headers'
    BY <2>1, <1>1, <1>7 DEF Headers
  <2>3. Gone' = Gone
    BY <1>1, <1>7 DEF Gone
  <2> QED BY <2>1, <2>2, <2>3, <1>1, StillCounted
<1> QED BY <1>5, <1>6, <1>8

\* RemoveCmd: a structure goes from the LUN's queue to the worker.
LEMMA RemovePools ==
    ASSUME SNInv, PoolInv, NEW w \in Workers, UNCHANGED load, RemoveCmd(w), lunq # <<>>
    PROVE  /\ Typed' /\ OneOwner' /\ Counted'
           /\ lunq' = Tail(lunq) /\ lw'[w].pc = "prepare"
           /\ lw'[w].cmd = lunq[1] /\ lw'[w].gen = slot[lunq[1]].gen
<1> Typed /\ OneOwner /\ Counted
  BY DEF PoolInv
<1>1. /\ lw[w].pc = "remove" /\ lunq' = Tail(lunq)
      /\ lw' = [lw EXCEPT ![w] = [pc |-> "prepare", cmd |-> Head(lunq), gen |-> slot[Head(lunq)].gen, sn |-> 0]]
      /\ UNCHANGED <<outstanding, i2t, hdrs, pool, slot, wk, load, staging, StatSN, statsLock>>
      /\ Workers' = Workers
  BY DEF RemoveCmd, At, iniVars, poolVars, Workers
<1>2. /\ lunq' \in Seq(Slots) /\ Len(lunq') = Len(lunq) - 1 /\ Head(lunq) \in Slots /\ Head(lunq) = lunq[1]
      /\ Len(lunq) \in Nat /\ Len(lunq) >= 1 /\ \A i \in 1..Len(lunq') : lunq'[i] = lunq[i + 1]
      /\ NoRepeat(lunq') /\ Lacks(lunq', Head(lunq))
      /\ \A x : Lacks(lunq, x) => Lacks(lunq', x) /\ x # Head(lunq)
  <2>1. lunq \in Seq(Slots) /\ NoRepeat(lunq)
    BY DEF Typed, OneOwner
  <2> QED BY <1>1, <2>1, WithoutFirst
<1>3. /\ lw \in [Workers -> LWType] /\ slot[Head(lunq)].gen \in Nat
  BY <1>2 DEF Typed, LWType
<1>4. /\ lw' \in [Workers -> LWType] /\ \A v \in Workers \ {w} : lw'[v] = lw[v]
      /\ lw'[w].pc = "prepare" /\ lw'[w].cmd = Head(lunq) /\ lw'[w].gen = slot[Head(lunq)].gen
  <2> DEFINE r == [pc |-> "prepare", cmd |-> Head(lunq), gen |-> slot[Head(lunq)].gen, sn |-> 0]
  <2>1. r \in LWType
    BY <1>2, <1>3 DEF LWType, LunPcs, Owning
  <2>2. r.pc = "prepare" /\ r.cmd = Head(lunq) /\ r.gen = slot[Head(lunq)].gen
    OBVIOUS
  <2>3. lw' = [lw EXCEPT ![w] = r]
    BY <1>1
  <2> HIDE DEF r
  <2> QED BY <1>3, <2>1, <2>2, <2>3
<1>5. Typed'
  BY <1>1, <1>2, <1>4 DEF Typed, LWType
<1>6. OneOwner'
  <2>1. ASSUME NEW j \in 1..Len(lunq') PROVE Lacks(pool', lunq'[j])
    <3>1. j + 1 \in 1..Len(lunq) /\ lunq'[j] = lunq[j + 1]
      BY <1>2
    <3> QED BY <1>1, <3>1 DEF OneOwner
  <2>2. Lacks(pool', Head(lunq))
    <3>1. 1 \in 1..Len(lunq)
      BY <1>2
    <3> QED BY <1>1, <1>2, <3>1 DEF OneOwner
  <2>3. ASSUME NEW v \in Workers \ {w}, lw[v].pc \in Owning
        PROVE  /\ lw[v].cmd \in Slots /\ Lacks(pool', lw[v].cmd) /\ Lacks(lunq', lw[v].cmd)
               /\ lw[v].cmd # Head(lunq)
               /\ \A u \in Workers \ {v, w} : lw[u].pc \in Owning => lw[u].cmd # lw[v].cmd
    BY <1>1, <1>2, <2>3 DEF OneOwner
  <2> QED BY <1>1, <1>2, <1>4, <2>1, <2>2, <2>3 DEF OneOwner
<1>7. UNCHANGED <<InHand, Pinging, HeaderOwed, CmdOwed>>
  BY <1>1, <1>4, SameHands
<1>8. Counted'
  <2>1. Counted /\ Headers
    BY DEF Counted
  <2>2. Headers'
    BY <2>1, <1>1, <1>7 DEF Headers
  <2>3. Gone' = Gone
    BY <1>1, <1>7 DEF Gone
  <2> QED BY <2>1, <2>2, <2>3, <1>1, StillCounted
<1> QED BY <1>1, <1>2, <1>4, <1>5, <1>6, <1>8

\* The worker answers, and owes the header and the structure until it gives them back.
LEMMA AnswerPools ==
    ASSUME SNInv, PoolInv, NEW w \in Workers, UNCHANGED load,
           Respond(w) \/ FreeHeader(w) \/ FreeCmd(w)
    PROVE  Typed' /\ OneOwner' /\ Counted'
<1> Typed /\ OneOwner /\ Counted
  BY DEF PoolInv
<1>1. UNCHANGED <<i2t, slot, lunq, wk, load, staging, StatSN>> /\ Workers' = Workers
  BY DEF Respond, FreeHeader, FreeCmd, iniVars, poolVars, lunVars, Workers
<1>2. lw \in [Workers -> LWType] /\ lw[w].pc \in Holding
  BY DEF Typed, LWType, Respond, FreeHeader, FreeCmd, At, Holding
<1>3. \A v \in Workers \ {w} : lw[v].pc \notin Holding
  BY <1>2, OnlyHolder
<1>4. /\ lw' \in [Workers -> LWType] /\ \A v \in Workers \ {w} : lw'[v] = lw[v]
      /\ lw'[w].cmd = lw[w].cmd /\ lw[w].cmd \in Slots
      /\ Respond(w) => lw[w].pc = "respond" /\ lw'[w].pc = "freeHeader"
      /\ FreeHeader(w) => lw[w].pc = "freeHeader" /\ lw'[w].pc = "freeCmd"
      /\ FreeCmd(w) => lw[w].pc = "freeCmd" /\ lw'[w].pc = "cleanup"
  <2>1. lw[w].cmd \in Slots
    BY <1>2 DEF OneOwner, Owning
  <2>2. CASE Respond(w)
    <3>1. lw[w].pc = "respond" /\ Goto(w, "freeHeader")
      BY <2>2 DEF Respond, At
    <3> QED BY <1>2, <2>1, <3>1, Moves DEF LunPcs, Owning, Holding, FreeHeader, FreeCmd, At
  <2>3. CASE FreeHeader(w)
    <3>1. lw[w].pc = "freeHeader" /\ Goto(w, "freeCmd")
      BY <2>3 DEF FreeHeader, At
    <3> QED BY <1>2, <2>1, <3>1, Moves DEF LunPcs, Owning, Holding, Respond, FreeCmd, At
  <2>4. CASE FreeCmd(w)
    <3>1. lw[w].pc = "freeCmd" /\ Goto(w, "cleanup")
      BY <2>4 DEF FreeCmd, At
    <3> QED BY <1>2, <2>1, <3>1, Moves DEF LunPcs, Owning, Holding, Respond, FreeHeader, At
  <2> QED BY <2>2, <2>3, <2>4
<1>5. \A pcs : pcs \subseteq Holding => /\ SomeAt(pcs) <=> lw[w].pc \in pcs
                                        /\ SomeAt(pcs)' <=> lw'[w].pc \in pcs
  BY <1>1, <1>3, <1>4 DEF SomeAt
<1>6. UNCHANGED <<InHand, Pinging>>
  BY <1>1 DEF InHand, Pinging
<1>7. /\ Len(i2t) \in Nat /\ Len(pool) \in Nat /\ PoolSize \in Nat /\ pool \in Seq(Slots)
      /\ hdrs \in Nat /\ outstanding \in Int /\ outstanding <= Depth /\ Depth \in Nat
      /\ InHand \in Int /\ Pinging \in Int
  BY SizesAssumption, Hands DEF Typed
<1>8. CASE Respond(w)
  <2>1. /\ outstanding' = outstanding - 1 /\ UNCHANGED <<hdrs, pool, statsLock>>
    BY <1>8 DEF Respond, Send, poolVars
  <2>2. HeaderOwed = 0 /\ CmdOwed = 0 /\ HeaderOwed' = 1 /\ CmdOwed' = 1
    BY <1>4, <1>5, <1>8 DEF HeaderOwed, CmdOwed, One, Holding
  <2>3. Counted'
    <3>1. Counted /\ Headers
      BY DEF Counted
    <3>2. Headers'
      BY <3>1, <1>1, <1>6, <1>7, <2>1, <2>2 DEF Headers
    <3>3. Gone' = Gone
      BY <1>1, <1>6, <1>7, <2>1, <2>2 DEF Gone
    <3> QED BY <3>1, <3>2, <3>3, <1>1, StillCounted
  <2>4. OneOwner'
    BY <1>1, <1>4, <1>8, <2>1, OwnerFrame DEF Owning, Holding
  <2>5. outstanding' \in Int /\ outstanding' <= Depth /\ hdrs' \in Nat /\ UNCHANGED <<pool, statsLock>>
    BY <1>7, <2>1
  <2>6. \A v \in Workers : lw'[v].pc = "cleanup" => lw'[v].cmd \in Slots
    BY <1>4, <1>8 DEF Typed
  <2>7. Typed'
    BY <1>1, <1>4, <2>5, <2>6 DEF Typed, LWType
  <2> QED BY <2>3, <2>4, <2>7
<1>9. CASE FreeHeader(w)
  <2>1. hdrs' = hdrs + 1 /\ UNCHANGED <<outstanding, pool, statsLock>>
    BY <1>9 DEF FreeHeader, iniVars
  <2>2. HeaderOwed = 1 /\ CmdOwed = 1 /\ HeaderOwed' = 0 /\ CmdOwed' = 1
    BY <1>4, <1>5, <1>9 DEF HeaderOwed, CmdOwed, One, Holding
  <2>3. Counted'
    <3>1. Counted /\ Headers
      BY DEF Counted
    <3>2. Headers'
      BY <3>1, <1>1, <1>6, <1>7, <2>1, <2>2 DEF Headers
    <3>3. Gone' = Gone
      BY <1>1, <1>6, <1>7, <2>1, <2>2 DEF Gone
    <3> QED BY <3>1, <3>2, <3>3, <1>1, StillCounted
  <2>4. OneOwner'
    BY <1>1, <1>4, <1>9, <2>1, OwnerFrame DEF Owning, Holding
  <2>5. outstanding' \in Int /\ outstanding' <= Depth /\ hdrs' \in Nat /\ UNCHANGED <<pool, statsLock>>
    BY <1>7, <2>1
  <2>6. \A v \in Workers : lw'[v].pc = "cleanup" => lw'[v].cmd \in Slots
    BY <1>4, <1>9 DEF Typed
  <2>7. Typed'
    BY <1>1, <1>4, <2>5, <2>6 DEF Typed, LWType
  <2> QED BY <2>3, <2>4, <2>7
<1>10. CASE FreeCmd(w)
  <2>1. /\ pool' = Append(pool, lw[w].cmd) /\ statsLock' = None /\ UNCHANGED <<outstanding, hdrs>>
    BY <1>10 DEF FreeCmd, iniVars
  <2>2. HeaderOwed = 0 /\ CmdOwed = 1 /\ HeaderOwed' = 0 /\ CmdOwed' = 0
    BY <1>4, <1>5, <1>10 DEF HeaderOwed, CmdOwed, One, Holding
  <2>3. Lacks(pool, lw[w].cmd) /\ Lacks(lunq, lw[w].cmd) /\ NoRepeat(pool) /\ lw[w].cmd \in Slots
    BY <1>2 DEF OneOwner, Owning
  <2>4. /\ pool' \in Seq(Slots) /\ Len(pool') = Len(pool) + 1 /\ NoRepeat(pool')
        /\ \A x : Lacks(pool, x) /\ x # lw[w].cmd => Lacks(pool', x)
    BY <1>7, <2>1, <2>3, WithLast
  <2>5. Counted'
    <3>1. Counted /\ Headers
      BY DEF Counted
    <3>2. Headers'
      BY <3>1, <1>1, <1>6, <1>7, <2>1, <2>2, <2>4 DEF Headers
    <3>3. Gone' = Gone
      BY <1>1, <1>6, <1>7, <2>1, <2>2, <2>4 DEF Gone
    <3> QED BY <3>1, <3>2, <3>3, <1>1, StillCounted
  <2>6. OneOwner'
    <3>1. ASSUME NEW j \in 1..Len(lunq) PROVE Lacks(pool', lunq[j])
      BY <2>3, <2>4 DEF OneOwner, Lacks
    <3>2. ASSUME NEW v \in Workers \ {w}, lw[v].pc \in Owning PROVE Lacks(pool', lw[v].cmd)
      BY <1>2, <2>4, <3>2 DEF OneOwner, Owning
    <3>3. lw'[w].pc \notin Owning
      BY <1>4, <1>10 DEF Owning, Holding
    <3> QED BY <1>1, <1>4, <2>4, <3>1, <3>2, <3>3 DEF OneOwner
  <2>7. Typed'
    BY <1>1, <1>4, <1>7, <1>10, <2>1, <2>4 DEF Typed, LWType
  <2> QED BY <2>5, <2>6, <2>7
<1> QED BY <1>8, <1>9, <1>10

LEMMA NextPool ==
    ASSUME SNInv, PoolInv, [Next]_vars
    PROVE  Typed' /\ OneOwner' /\ Counted'
<1>1. CASE UNCHANGED vars
  BY <1>1 DEF vars, iniVars, poolVars, lunVars, PoolInv, Typed, OneOwner, Counted, Headers, Gone, Workers, SomeAt, InHand,
     Pinging, HeaderOwed, CmdOwed
<1>2. CASE Issue /\ UNCHANGED load
  BY <1>2, IssueKeeps
<1>3. CASE SessionWorker /\ UNCHANGED load
  BY <1>3, SessionPools, CommandPools, NoCommandPools
<1>4. ASSUME NEW w \in Workers, LunWorker(w), UNCHANGED load PROVE Typed' /\ OneOwner' /\ Counted'
  BY <1>4, QuietPools, RemovePools, AnswerPools DEF LunWorker
<1> QED BY <1>1, <1>2, <1>3, <1>4 DEF Next

LEMMA Pools == Spec => [](SNInv /\ PoolInv)
<1>1. Init => SNInv /\ PoolInv
  BY InitSN, InitPool DEF PoolInv
<1>2. SNInv /\ PoolInv /\ [Next]_vars => SNInv' /\ PoolInv'
  BY NextSN, NextPool DEF PoolInv
<1> QED BY <1>1, <1>2, PTL DEF Spec

\* Whatever the sizes of the pools, the number of LUN workers and the load: the session
\* ends for want of a header only with PoolSize - 1 commands outstanding or more, and
\* for want of a structure only with PoolSize (target.c:1968, 774).
THEOREM PoolsNeverRunOut == Spec => []PoolsSuffice
<1>1. SNInv /\ PoolInv => PoolsSuffice
  <2> SUFFICES ASSUME SNInv, PoolInv PROVE PoolsSuffice
    OBVIOUS
  <2>1. /\ hdrs \in 0..PoolSize /\ Len(pool) <= PoolSize /\ outstanding \in 0..Depth
        /\ wk.pc = "header" /\ hdrs = 0 => outstanding >= PoolSize - 1
        /\ wk.pc = "recv" /\ i2t # <<>> => Len(pool) >= PoolSize - outstanding + 1 - CmdOwed
    BY Bounds
  <2>2. Range(pool) \subseteq Slots /\ Range(lunq) \subseteq Slots
    <3>1. pool \in Seq(Slots) /\ lunq \in Seq(Slots)
      BY DEF PoolInv, Typed
    <3>2. pool \in [1..Len(pool) -> Slots] /\ lunq \in [1..Len(lunq) -> Slots]
      BY <3>1, LenProperties
    <3> QED BY <3>2 DEF Range
  <2>3. TypeOK
    BY <2>1, <2>2 DEF PoolInv, Typed, TypeOK
  <2>4. wk.pc = "recv" /\ i2t # <<>> /\ pool = <<>> => outstanding >= PoolSize
    <3>1. CmdOwed \in 0..1 /\ outstanding \in Int /\ PoolSize \in Nat
      BY Hands, SizesAssumption DEF PoolInv, Typed
    <3>2. pool = <<>> => Len(pool) = 0
      OBVIOUS
    <3> QED BY <2>1, <3>1, <3>2
  <2> QED BY <2>1, <2>3, <2>4 DEF PoolsSuffice
<1> QED BY <1>1, Pools, PTL

LEMMA NoRepeatInjective ==
    ASSUME NEW s \in Seq(Slots), NEW t \in Seq(Slots), NoRepeat(s), NoRepeat(t),
           \A j \in 1..Len(t) : Lacks(s, t[j])
    PROVE  /\ IsInjective(s \o t)
           /\ \A x : Lacks(s, x) /\ Lacks(t, x) => x \notin Range(s \o t)
<1>1. /\ Len(s) \in Nat /\ Len(t) \in Nat /\ DOMAIN (s \o t) = 1..(Len(s) + Len(t))
      /\ \A i \in 1..(Len(s) + Len(t)) : (s \o t)[i] = IF i <= Len(s) THEN s[i] ELSE t[i - Len(s)]
  <2>1. Len(s) \in Nat /\ Len(t) \in Nat
    BY LenProperties
  <2> QED BY <2>1, ConcatProperties
<1>2. \A i \in 1..(Len(s) + Len(t)) : IF i <= Len(s) THEN i \in 1..Len(s) ELSE i - Len(s) \in 1..Len(t)
  BY <1>1
<1>3. ASSUME NEW i \in 1..(Len(s) + Len(t)), NEW j \in 1..(Len(s) + Len(t)),
             (s \o t)[i] = (s \o t)[j]
      PROVE  i = j
  <2>1. CASE i <= Len(s) /\ j <= Len(s)
    BY <1>1, <1>2, <1>3, <2>1 DEF NoRepeat
  <2>2. CASE i > Len(s) /\ j > Len(s)
    <3>1. t[i - Len(s)] = t[j - Len(s)] /\ i - Len(s) \in 1..Len(t) /\ j - Len(s) \in 1..Len(t)
      BY <1>1, <1>2, <1>3, <2>2
    <3>2. i - Len(s) = j - Len(s)
      BY <3>1 DEF NoRepeat
    <3> QED BY <1>1, <3>2
  <2>3. CASE i <= Len(s) /\ j > Len(s)
    BY <1>1, <1>2, <1>3, <2>3 DEF Lacks
  <2>4. CASE i > Len(s) /\ j <= Len(s)
    BY <1>1, <1>2, <1>3, <2>4 DEF Lacks
  <2> QED BY <1>1, <2>1, <2>2, <2>3, <2>4
<1>4. IsInjective(s \o t)
  BY <1>1, <1>3 DEF IsInjective
<1>5. ASSUME NEW x, Lacks(s, x), Lacks(t, x) PROVE x \notin Range(s \o t)
  BY <1>1, <1>2, <1>5 DEF Range, Lacks
<1> QED BY <1>4, <1>5

\* Whatever the sizes of the pools, the number of LUN workers and the load: a structure is
\* in the pool, on the LUN's queue or with one worker, until it is given back
\* (target.c:774, 759).
THEOREM OneOwnerEach == Spec => []StructureExclusive
<1>1. SNInv /\ PoolInv => StructureExclusive
  <2> SUFFICES ASSUME SNInv, PoolInv PROVE StructureExclusive
    OBVIOUS
  <2>1. /\ pool \in Seq(Slots) /\ lunq \in Seq(Slots) /\ NoRepeat(pool) /\ NoRepeat(lunq)
        /\ \A j \in 1..Len(lunq) : Lacks(pool, lunq[j])
    BY DEF PoolInv, Typed, OneOwner
  <2>2. \A w \in Executing : w \in Workers /\ lw[w].pc \in Owning
    BY DEF Executing, Owning, Holding
  <2>3. \A w \in Executing : lw[w].cmd \notin Range(pool \o lunq)
    BY <2>1, <2>2, NoRepeatInjective DEF PoolInv, OneOwner
  <2>4. \A w, v \in Executing : lw[v].cmd = lw[w].cmd => v = w
    BY <2>2 DEF PoolInv, OneOwner
  <2> QED BY <2>1, <2>3, <2>4, NoRepeatInjective DEF StructureExclusive
<1> QED BY <1>1, Pools, PTL

-----------------------------------------------------------------------------
\* What is assumed of a step of a LUN with one worker
OneWorker == SNInv /\ PoolInv /\ Room /\ load.workers = 1 /\ Single

LEMMA OneWorkerFacts ==
    ASSUME OneWorker
    PROVE  /\ Workers = {1} /\ lw[1] \in LWType /\ lw \in [Workers -> LWType]
           /\ Typed /\ OneOwner /\ Counted
           /\ {pool, lunq, staging} \subseteq Seq(Slots)
           /\ slot \in [Slots -> [len : 0..1, buf : Slots \cup {None}, gen : Nat]]
           /\ \A j \in 1..Len(lunq) : lunq[j] \in Slots /\ Lacks(pool, lunq[j])
           /\ lw[1].pc \in Owning => lw[1].cmd \in Slots /\ Lacks(pool, lw[1].cmd) /\ Lacks(lunq, lw[1].cmd)
<1>1. Workers = {1} /\ Typed /\ OneOwner /\ Counted
  BY DEF OneWorker, Workers, PoolInv
<1>2. \A j \in 1..Len(lunq) : lunq[j] \in Slots
  BY <1>1 DEF Typed
<1> QED BY <1>1, <1>2 DEF Typed, OneOwner, LWType

\* Steps that touch neither structures nor buffers
LEMMA SingleFrame ==
    ASSUME OneWorker, UNCHANGED <<slot, lunq, pool, staging>>,
           lw'[1].cmd = lw[1].cmd, lw'[1].gen = lw[1].gen,
           \/ lw'[1].pc \notin Owning \cup LastGiven \cup Buffered /\ lw[1].pc \notin Buffered
           \/ lw[1].pc \in Holding \cup {"done"} /\ lw'[1].pc \in Holding \cup {"done"}
           \/ lw'[1].pc = lw[1].pc
    PROVE  Single'
<1>1. /\ lw'[1].pc \in Buffered <=> lw[1].pc \in Buffered
      /\ lw'[1].pc \in Owning => lw[1].pc \in Owning
      /\ lw'[1].pc \in LastGiven => lw[1].pc \in LastGiven
  BY DEF Owning, LastGiven, Buffered, Holding
<1> QED BY <1>1 DEF OneWorker, Single, One

LEMMA SessionSingle ==
    ASSUME OneWorker, Issue \/ SessionWorker, UNCHANGED load
    PROVE  Single'
<1>4. CASE scsi_command_t /\ pool = <<>>
  <2>1. UNCHANGED <<slot, lunq, pool, staging, lw>>
    BY <1>4, NoCommandPools DEF OneWorker
  <2> QED BY <2>1, SingleFrame
<1>1. CASE scsi_command_t /\ pool # <<>>
  <2>1. /\ pool' = Tail(pool) /\ lunq' = Append(lunq, Head(pool))
        /\ slot' = [slot EXCEPT ![Head(pool)] = [len |-> 1, buf |-> None, gen |-> @.gen + 1]]
        /\ UNCHANGED <<lw, staging>>
    BY <1>1, CommandPools DEF OneWorker, scsi_command_t
  <2>2. /\ pool \in Seq(Slots) /\ lunq \in Seq(Slots) /\ pool # <<>> /\ Len(pool) \in Nat /\ Len(lunq) \in Nat
        /\ NoRepeat(pool)
    BY <1>1, OneWorkerFacts DEF OneOwner
  <2>3. /\ Head(pool) \in Slots /\ Head(pool) = pool[1] /\ Len(pool') = Len(pool) - 1
        /\ \A i \in 1..Len(pool') : pool'[i] = pool[i + 1]
        /\ \A x : Lacks(pool, x) => x # Head(pool)
    BY <2>1, <2>2, WithoutFirst
  <2>4. /\ Len(lunq') = Len(lunq) + 1 /\ lunq'[Len(lunq')] = Head(pool)
        /\ \A i \in 1..Len(lunq) : lunq'[i] = lunq[i]
    BY <2>1, <2>2, <2>3, WithLast
  <2>5. slot'[Head(pool)].len = 1 /\ \A x \in Slots \ {Head(pool)} : slot'[x] = slot[x]
    BY <2>1, <2>3, OneWorkerFacts
  <2>6. \A j \in 1..Len(lunq') : slot'[lunq'[j]].len = 1
    <3>1. ASSUME NEW j \in 1..Len(lunq) PROVE slot'[lunq'[j]].len = 1
      BY <2>3, <2>4, <2>5, OneWorkerFacts DEF OneWorker, Single
    <3> QED BY <2>2, <2>4, <2>5, <3>1
  <2>7. lw[1].pc \in Owning => lw[1].cmd \in Slots \ {Head(pool)}
    BY <2>3, OneWorkerFacts
  <2>8. lw[1].pc \in LastGiven =>
           /\ lw[1].cmd \in Slots \ {Head(pool)} /\ pool' # <<>> /\ pool'[Len(pool')] = lw[1].cmd
    <3> SUFFICES ASSUME lw[1].pc \in LastGiven
                 PROVE  lw[1].cmd \in Slots \ {Head(pool)} /\ pool' # <<>> /\ pool'[Len(pool')] = lw[1].cmd
      OBVIOUS
    <3>1. pool[Len(pool)] = lw[1].cmd
      BY DEF OneWorker, Single
    <3>6. Len(pool) \in Nat /\ Len(pool) >= 2 /\ Len(pool') = Len(pool) - 1
      <4>1. CmdOwed = 0
        BY OneWorkerFacts DEF CmdOwed, One, SomeAt, LastGiven
      <4>2. Len(pool) >= PoolSize - outstanding + 1 - CmdOwed /\ outstanding \in 0..Depth
        BY <1>1, Bounds DEF OneWorker, scsi_command_t
      <4>3. PoolSize \in Nat /\ Depth \in Nat /\ PoolSize > Depth
        BY SizesAssumption DEF OneWorker, Room
      <4> QED BY <2>2, <2>3, <4>1, <4>2, <4>3
    <3>2. Len(pool) \in 1..Len(pool) /\ 1 \in 1..Len(pool) /\ Len(pool) # 1 /\ Len(pool') \in 1..Len(pool')
      BY <3>6
    <3>3. pool[Len(pool)] \in Slots /\ pool[Len(pool)] # pool[1]
      <4>1. pool \in [1..Len(pool) -> Slots]
        BY <2>2, LenProperties
      <4>2. pool[Len(pool)] \in Slots
        BY <3>2, <4>1
      <4>3. pool[Len(pool)] # pool[1]
        BY <2>2, <3>2 DEF NoRepeat
      <4> QED BY <4>2, <4>3
    <3>4. pool'[Len(pool')] = pool[Len(pool)]
      BY <2>2, <2>3, <3>2
    <3>5. pool' # <<>>
      BY <3>6
    <3> QED BY <2>3, <3>1, <3>3, <3>4, <3>5
  <2>9. lw[1].pc \in Buffered => lw[1].pc \in Owning \cup LastGiven
    BY DEF Buffered, Owning, LastGiven
  <2>10. lw[1].pc \in Owning \cup LastGiven => slot'[lw[1].cmd] = slot[lw[1].cmd]
    BY <2>5, <2>7, <2>8
  <2> QED BY <2>1, <2>6, <2>8, <2>9, <2>10 DEF OneWorker, Single
<1>2. CASE SignalWorker
  <2>1. UNCHANGED <<slot, lunq, pool, staging>> /\ lw' = [lw EXCEPT ![wk.i].pc = IF @ = "blocked" THEN "remove" ELSE @]
    BY <1>2 DEF SignalWorker, poolVars
  <2>2. /\ lw'[1].cmd = lw[1].cmd /\ lw'[1].gen = lw[1].gen
        /\ lw'[1].pc = lw[1].pc \/ (lw[1].pc = "blocked" /\ lw'[1].pc = "remove")
    BY <2>1, OneWorkerFacts DEF LWType
  <2> QED BY <2>1, <2>2, SingleFrame DEF Owning, LastGiven, Buffered, Holding
<1>3. CASE Issue \/ TakeHeader \/ ScanWorkers \/ NopOut \/ NopIn
  <2>1. UNCHANGED <<slot, lunq, pool, staging, lw>>
    BY <1>3 DEF Issue, TakeHeader, ScanWorkers, NopOut, NopIn, poolVars, lunVars
  <2> QED BY <2>1, SingleFrame
<1> QED BY <1>1, <1>2, <1>3, <1>4 DEF SessionWorker

LEMMA WorkerSingle ==
    ASSUME OneWorker, LunWorker(1), UNCHANGED load
    PROVE  Single'
<1> DEFINE s == lw[1].cmd
<1>1. /\ 1 \in Workers /\ lw \in [Workers -> LWType] /\ staging \in Seq(Slots) /\ pool \in Seq(Slots)
      /\ lunq \in Seq(Slots)
      /\ Len(staging) \in Nat /\ Len(lunq) \in Nat /\ PoolSize \in Nat \ {0}
  BY OneWorkerFacts, SizesAssumption
<1>2. CASE Check(1) \/ ClearWork(1) \/ (RemoveCmd(1) /\ lunq = <<>>)
  <2>1. /\ UNCHANGED <<slot, lunq, pool, staging>> /\ lw[1].pc \in {"check", "clear", "remove"}
        /\ \E p \in {"check", "blocked", "remove", "clear"} : Goto(1, p)
    BY <1>2 DEF Check, ClearWork, RemoveCmd, At, poolVars, lunVars
  <2> QED BY <1>1, <2>1, Moves, SingleFrame DEF Owning, LastGiven, Buffered, Holding, LunPcs
<1>3. CASE LockStats(1)
  <2>1. /\ UNCHANGED <<slot, lunq, pool, staging>> /\ lw[1].pc = "done"
        /\ lw' = [lw EXCEPT ![1].pc = "respond", ![1].sn = StatSN]
    BY <1>3 DEF LockStats, At, poolVars, lunVars
  <2>2. lw'[1].pc = "respond" /\ lw'[1].cmd = lw[1].cmd /\ lw'[1].gen = lw[1].gen
    BY <1>1, <2>1 DEF LWType
  <2> QED BY <2>1, <2>2, SingleFrame DEF Holding
<1>4. CASE Respond(1) \/ FreeHeader(1)
  <2>1. /\ UNCHANGED <<slot, lunq, pool, staging>> /\ lw[1].pc \in {"respond", "freeHeader"}
        /\ \E p \in {"freeHeader", "freeCmd"} : Goto(1, p)
    BY <1>4 DEF Respond, FreeHeader, At, poolVars, lunVars
  <2> QED BY <1>1, <2>1, Moves, SingleFrame DEF Holding, LunPcs, Owning
<1>5. CASE RemoveCmd(1) /\ lunq # <<>>
  <2>1. /\ lunq' = Tail(lunq) /\ lw'[1].pc = "prepare" /\ lw'[1].cmd = lunq[1] /\ lw'[1].gen = slot[lunq[1]].gen
        /\ lw[1].pc = "remove"
        /\ UNCHANGED <<slot, pool, staging>>
    BY <1>1, <1>5, RemovePools DEF OneWorker, RemoveCmd, At, poolVars
  <2>2. Len(lunq) >= 1 /\ Len(lunq') = Len(lunq) - 1 /\ \A i \in 1..Len(lunq') : lunq'[i] = lunq[i + 1]
    BY <1>1, <1>5, <2>1, WithoutFirst
  <2>3. \A j \in 1..Len(lunq') : slot[lunq'[j]].len = 1
    <3>1. \A j \in 1..Len(lunq') : j + 1 \in 1..Len(lunq)
      BY <1>1, <2>2
    <3> QED BY <2>2, <3>1 DEF OneWorker, Single
  <2>4. slot[lunq[1]].len = 1
    <3>1. 1 \in 1..Len(lunq)
      BY <1>1, <2>2
    <3> QED BY <3>1 DEF OneWorker, Single
  <2> QED BY <2>1, <2>3, <2>4 DEF OneWorker, Single, Buffered, LastGiven, Holding, One
<1>6. CASE prepare_write(1)
  <2>1. lw[1].pc = "prepare" /\ s \in Slots /\ slot[s].len = 1 /\ slot[s].gen = lw[1].gen
    BY <1>6, OneWorkerFacts DEF prepare_write, At, OneWorker, Single, Owning
  <2>2. Len(staging) = PoolSize /\ NoRepeat(staging)
    BY <1>1, <2>1 DEF OneWorker, Single, Buffered, Holding, One
  <2>3. staging # <<>>
    BY <1>1, <2>2
  <2>4. /\ staging' = Tail(staging) /\ slot' = [slot EXCEPT ![s].buf = Head(staging)] /\ Goto(1, "done")
        /\ UNCHANGED <<pool, lunq>>
    BY <1>6, <2>1, <2>3 DEF prepare_write, lunVars
  <2>5. /\ Head(staging) \in Slots /\ Len(staging') = Len(staging) - 1
        /\ NoRepeat(staging') /\ Lacks(staging', Head(staging))
    BY <1>1, <2>2, <2>3, <2>4, WithoutFirst
  <2>6. lw'[1].pc = "done" /\ lw'[1].cmd = s /\ lw'[1].gen = lw[1].gen
    BY <1>1, <2>4, Moves DEF LunPcs, Owning
  <2>7. /\ slot'[s].buf = Head(staging)
        /\ \A x \in Slots : slot'[x].len = slot[x].len /\ slot'[x].gen = slot[x].gen
    BY <2>1, <2>4, <2>5, OneWorkerFacts
  <2>8. \A j \in 1..Len(lunq') : slot'[lunq'[j]].len = 1
    BY <2>4, <2>7, OneWorkerFacts DEF OneWorker, Single
  <2>9. Len(staging') = PoolSize - 1
    BY <2>2, <2>5
  <2> QED BY <2>1, <2>5, <2>6, <2>7, <2>8, <2>9 DEF Single, Buffered, LastGiven, Holding, One
<1>7. CASE FreeCmd(1)
  <2>1. /\ lw[1].pc = "freeCmd" /\ pool' = Append(pool, s) /\ Goto(1, "cleanup")
        /\ UNCHANGED <<slot, staging, lunq>>
    BY <1>7 DEF FreeCmd, At, lunVars
  <2>2. s \in Slots
    BY <2>1, OneWorkerFacts DEF Owning, Holding
  <2>3. pool' # <<>> /\ pool'[Len(pool')] = s
    BY <1>1, <2>1, <2>2, WithLast
  <2>4. lw'[1].pc = "cleanup" /\ lw'[1].cmd = s /\ lw'[1].gen = lw[1].gen
    BY <1>1, <2>1, Moves DEF LunPcs, Owning
  <2> QED BY <2>1, <2>3, <2>4 DEF OneWorker, Single, Buffered, LastGiven, Holding, Owning, One
<1>8. CASE CleanUp(1)
  <2>1. lw[1].pc = "cleanup" /\ Goto(1, "zero") /\ UNCHANGED <<slot, pool, lunq>>
    BY <1>8 DEF CleanUp, At, poolVars, lunVars
  <2>2. slot[s].buf \in Slots /\ Lacks(staging, slot[s].buf) /\ NoRepeat(staging) /\ Len(staging) = PoolSize - 1
    BY <2>1 DEF OneWorker, Single, Buffered, One
  <2>3. staging' = Append(staging, slot[s].buf)
    BY <1>8, <2>2 DEF CleanUp, None, Slots
  <2>4. NoRepeat(staging') /\ Len(staging') = PoolSize
    BY <1>1, <2>2, <2>3, WithLast
  <2>5. lw'[1].pc = "zero" /\ lw'[1].cmd = s /\ lw'[1].gen = lw[1].gen
    BY <1>1, <2>1, Moves DEF LunPcs, Owning
  <2>6. Len(staging') = PoolSize - One(lw'[1].pc \in Buffered)
    BY <1>1, <2>4, <2>5 DEF Buffered, Holding, One
  <2> QED BY <2>1, <2>4, <2>5, <2>6 DEF OneWorker, Single, Buffered, LastGiven, Holding, Owning
<1>9. CASE ZeroLength(1)
  <2>1. /\ lw[1].pc = "zero" /\ slot' = [slot EXCEPT ![s].len = 0] /\ Goto(1, "clear")
        /\ UNCHANGED <<pool, staging, lunq>>
    BY <1>9 DEF ZeroLength, At, lunVars
  <2>2. pool # <<>> /\ pool[Len(pool)] = s
    BY <2>1 DEF OneWorker, Single, LastGiven
  <2>3. Len(pool) \in 1..Len(pool)
    BY <1>1, <2>2
  <2>4. \A j \in 1..Len(lunq) : lunq[j] \in Slots \ {s}
    BY <2>2, <2>3, OneWorkerFacts DEF Lacks
  <2>5. \A j \in 1..Len(lunq') : slot'[lunq'[j]].len = 1
    BY <2>1, <2>4, OneWorkerFacts DEF OneWorker, Single
  <2>6. lw'[1].pc = "clear"
    BY <1>1, <2>1, Moves DEF LunPcs
  <2> QED BY <2>1, <2>5, <2>6 DEF OneWorker, Single, Buffered, LastGiven, Holding, Owning, One
<1> QED BY <1>2, <1>3, <1>4, <1>5, <1>6, <1>7, <1>8, <1>9 DEF LunWorker

LEMMA InitSingle == Init => SNInv /\ SingleInv
<1> SUFFICES ASSUME Init, Room, load.workers = 1 PROVE Single
  BY InitSN, InitPool DEF SingleInv, PoolInv
<1>1. lw[1].pc = "check" /\ staging = [i \in Slots |-> i] /\ lunq = <<>> /\ PoolSize \in Nat
  BY SizesAssumption DEF Init, Workers
<1>2. Len(staging) = PoolSize /\ NoRepeat(staging)
  BY <1>1 DEF Slots, NoRepeat
<1> QED BY <1>1, <1>2 DEF Single, Buffered, LastGiven, Owning, Holding, One

LEMMA NextSingle == SNInv /\ SingleInv /\ [Next]_vars => SNInv' /\ SingleInv'
<1> SUFFICES ASSUME SNInv, SingleInv, [Next]_vars PROVE SNInv' /\ SingleInv'
  OBVIOUS
<1>1. (Room' <=> Room) /\ load' = load
  BY DEF Room, Next, vars
<1>2. SNInv' /\ PoolInv'
  BY <1>1, NextSN, NextPool DEF SingleInv, PoolInv
<1>3. ASSUME Room, load.workers = 1 PROVE Single'
  <2>1. OneWorker
    BY <1>3 DEF SingleInv, OneWorker
  <2>2. CASE UNCHANGED vars
    BY <2>1, <2>2, SingleFrame DEF vars, poolVars, lunVars
  <2>3. CASE Next
    BY <2>1, <2>3, OneWorkerFacts, SessionSingle, WorkerSingle DEF Next
  <2> QED BY <2>2, <2>3
<1> QED BY <1>1, <1>2, <1>3 DEF SingleInv

\* With one worker the structure in its hands is the one that left the pool last.
LEMMA SingleMeans == SNInv /\ SingleInv => (Room /\ load.workers = 1 => StagingExclusive /\ StillItsCommand)
<1> SUFFICES ASSUME OneWorker PROVE StagingExclusive /\ StillItsCommand
  BY DEF SingleInv, OneWorker
<1>1. Workers = {1} /\ staging \in Seq(Slots)
  BY OneWorkerFacts
<1>2. DOMAIN staging = 1..Len(staging)
  BY <1>1, LenProperties
<1>3. IsInjective(staging)
  BY <1>2 DEF OneWorker, Single, NoRepeat, IsInjective
<1>4. \A w \in InUse : w = 1 /\ lw[1].pc \in Buffered
  BY <1>1 DEF InUse, Buffered, Holding
<1>5. lw[1].pc \in Buffered => slot[lw[1].cmd].buf \notin Range(staging)
  BY <1>2 DEF OneWorker, Single, Lacks, Range
<1>6. StagingExclusive
  BY <1>3, <1>4, <1>5 DEF StagingExclusive
<1>7. StillItsCommand
  BY <1>1 DEF StillItsCommand, OneWorker, Single, LastGiven
<1> QED BY <1>6, <1>7

\* With ONE LUN worker (disk-alpha.c's default is 16), and pools larger than the depth, a
\* staging buffer is free once or with one command: no data of a write is placed over
\* another's (disk-alpha.c 1169, 1539).
THEOREM OneWorkerExclusive == Spec => [](Room /\ load.workers = 1 => StagingExclusive)
  BY InitSingle, NextSingle, SingleMeans, PTL DEF Spec

\* With ONE LUN worker, and pools larger than the depth, the structure is still the
\* worker's when device_command clears it after the answer that gave it back.
THEOREM OneWorkerStructure == Spec => [](Room /\ load.workers = 1 => StillItsCommand)
  BY InitSingle, NextSingle, SingleMeans, PTL DEF Spec
=============================================================================
