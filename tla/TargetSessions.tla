--------------------------- MODULE TargetSessions ---------------------------
(***************************************************************************)
(* The connections of the target (target.c): the listener takes a session   *)
(* structure, accepts and starts a session worker; the worker serves the    *)
(* connection until it breaks, logs out or a handler fails, and gives the   *)
(* structure back; LUN workers answer commands on the structure's socket;   *)
(* the SIGINT handler, which runs on the listener's thread, shuts down.     *)
(*                                                                         *)
(* A socket is a file descriptor, and a closed one's number is used again.  *)
(* What a login or a command says is in Negotiation and TargetCommands.     *)
(* After exit() or TARGET_SHUT_DOWN nothing more is modelled.               *)
(***************************************************************************)
EXTENDS HashTable

CONSTANTS
    NSess,      \* bound of CONFIG_TARGET_MAX_SESSIONS
    Hdrs,       \* CONFIG_TARGET_MAX_QUEUE: headers, and commands, of a session
    MaxConns,   \* bound: the connections that initiators make
    MaxPdus     \* bound: commands of all initiators

ASSUME TargetSizes == NSess \in Nat \ {0} /\ Hdrs \in Nat \ {0}
ASSUME TargetBounds == MaxConns \in Nat /\ MaxPdus \in Nat

Ids == 0..(NSess - 1)
Conns == 1..MaxConns    \* in the order they are made
Fds == 1..MaxConns
NoConn == 0
NoFd == 0

VARIABLES
    nsess,      \* CONFIG_TARGET_MAX_SESSIONS: does not change
    g_state,    \* TARGET_INITIALIZED, TARGET_SHUTTING_DOWN or TARGET_SHUT_DOWN
    lst,        \* listener: where it is, the session structure it has taken
    stop,       \* SIGINT handler: where it is, the session it is at
    freeq,      \* g_session_q
    sess,       \* g_session[]: IsLoggedIn, sock, worker.state, cmds and cmds.n # 0
    thr,        \* session worker of a connection: pc, session, failed handler
    fds,        \* file descriptors: the connection behind one
    net,        \* connections: state, shut for writing by the target, PDUs, number sent, logout sent
    pdus,       \* commands sent so far
    awaited,    \* tags a connection's initiator has no answer for
    hdrs, pool, \* number of elements in g_header_q[] and g_cmd_q[]
    dev,        \* commands at the LUNs: session, connection, tag, answered
    exited      \* the process has called exit(1)

envVars == <<net, pdus, awaited>>
poolVars == <<hdrs, pool>>
vars == <<nsess, g_state, lst, stop, freeq, sess, thr, fds, net, pdus, awaited, hdrs, pool, dev, exited>>

Cleared == [in |-> FALSE, fd |-> NoFd, flags |-> {}, hashed |-> FALSE, cmds |-> hash_init]

\* target_init
Init ==
    /\ g_state = "initialized"
    /\ lst = [pc |-> "take", s |-> 0]
    /\ stop = [pc |-> "no", s |-> 0]
    /\ nsess \in 1..NSess /\ freeq = [i \in 1..nsess |-> i - 1]
    /\ sess = [s \in Ids |-> Cleared]
    /\ thr = [c \in Conns |-> [pc |-> "none", s |-> 0, failed |-> FALSE]]
    /\ fds = [f \in Fds |-> NoConn]
    /\ net = [c \in Conns |-> [st |-> "none", half |-> FALSE, in |-> <<>>, n |-> 0, out |-> FALSE]]
    /\ pdus = 0 /\ awaited = [c \in Conns |-> {}]
    /\ hdrs = [s \in Ids |-> Hdrs] /\ pool = [s \in Ids |-> Hdrs]
    /\ dev = {}
    /\ exited = FALSE

Running == ~exited /\ g_state # "shut down"

-----------------------------------------------------------------------------
(***************************************************************************)
(* The initiators                                                          *)
(***************************************************************************)

\* The connection waits in the backlog with the initiator's login.
Connect(c) ==
    /\ net[c].st = "none" /\ \A b \in 1..(c - 1) : net[b].st # "none"
    /\ net' = [net EXCEPT ![c].st = "backlog", ![c].in = <<[op |-> "login"]>>, ![c].n = 1]
    /\ UNCHANGED <<g_state, lst, stop, freeq, sess, thr, fds, pdus, awaited, poolVars, dev, exited>>

\* Tags go up, here all in one chain; those of two initiators may be the same.
NewTag(c) == NBuckets * net[c].n

\* When the login is answered, commands; a logout when everything is answered
SendPdu(c) ==
    /\ net[c].st = "open" /\ ~net[c].half /\ ~net[c].out
    /\ \A i \in DOMAIN net[c].in : net[c].in[i].op # "login"
    /\ \/ /\ pdus < MaxPdus /\ pdus' = pdus + 1
          /\ net' = [net EXCEPT ![c].in = Append(@, [op |-> "command", tag |-> NewTag(c)]),
                                ![c].n = @ + 1]
          /\ awaited' = [awaited EXCEPT ![c] = @ \union {NewTag(c)}]
       \/ /\ awaited[c] = {}
          /\ net' = [net EXCEPT ![c].in = Append(@, [op |-> "logout"]), ![c].out = TRUE]
          /\ UNCHANGED <<pdus, awaited>>
    /\ UNCHANGED <<g_state, lst, stop, freeq, sess, thr, fds, poolVars, dev, exited>>

\* The connection ends at the initiator's side: it logged out, gave up or broke.
Close(c) ==
    /\ net[c].st = "open"
    /\ net' = [net EXCEPT ![c].st = "closed", ![c].n = 0, ![c].out = FALSE]
    /\ awaited' = [awaited EXCEPT ![c] = {}]
    /\ UNCHANGED <<pdus, g_state, lst, stop, freeq, sess, thr, fds, poolVars, dev, exited>>

\* Whether sending on fd f may succeed and may fail: the first send after the
\* peer has closed succeeds, later ones fail.
SendsOn(f) == f # NoFd /\ fds[f] # NoConn /\ ~net[fds[f]].half
MayFailOn(f) == SendsOn(f) => net[fds[f]].st = "closed"

-----------------------------------------------------------------------------
(***************************************************************************)
(* target_listen                                                           *)
(***************************************************************************)

\* The handler runs on this thread.
Listening == lst.pc # "done" /\ stop.pc = "no"

\* A structure, taken before there is a connection for it and cleared; none: the
\* listener ends for good.
ListenerTake ==
    /\ Listening /\ lst.pc = "take"
    /\ IF freeq = <<>>
       THEN lst' = [lst EXCEPT !.pc = "done"] /\ UNCHANGED <<freeq, sess>>
       ELSE /\ lst' = [pc |-> "accept", s |-> Head(freeq)]
            /\ freeq' = Tail(freeq)
            /\ sess' = [sess EXCEPT ![Head(freeq)] = Cleared]
    /\ UNCHANGED <<g_state, stop, thr, fds, envVars, poolVars, dev, exited>>

\* accept: the connection gets the least free file descriptor.  Then
\* START_WORKER_NO_JOIN_ELSE clears sess->worker and creates the thread ...
ListenerAccept(c) ==
    /\ Listening /\ lst.pc = "accept" /\ net[c].st = "backlog"
    /\ \E f \in Fds :
          /\ fds[f] = NoConn /\ \A g \in Fds : g < f => fds[g] # NoConn
          /\ fds' = [fds EXCEPT ![f] = c]
          /\ sess' = [sess EXCEPT ![lst.s].fd = f, ![lst.s].flags = {}]
    /\ net' = [net EXCEPT ![c].st = "open"]
    /\ thr' = [thr EXCEPT ![c].pc = "start", ![c].s = lst.s]
    /\ lst' = [lst EXCEPT !.pc = "started"]
    /\ UNCHANGED <<g_state, stop, freeq, pdus, awaited, poolVars, dev, exited>>

\* ... and wait until it runs.
ListenerStarted ==
    /\ Listening /\ lst.pc = "started" /\ "STARTED" \in sess[lst.s].flags
    /\ lst' = [pc |-> IF "ERROR" \in sess[lst.s].flags THEN "done" ELSE "take", s |-> 0]
    /\ UNCHANGED <<g_state, stop, freeq, sess, thr, fds, envVars, poolVars, dev, exited>>

-----------------------------------------------------------------------------
(***************************************************************************)
(* worker_proc_t                                                           *)
(***************************************************************************)

Goto(c, pc) == thr' = [thr EXCEPT ![c].pc = pc]

\* The thread goes on after a handler or the loop has failed.
Fails(c, pc) == thr' = [thr EXCEPT ![c].pc = pc, ![c].failed = TRUE]

\* START_ELSE, the parameters, hash_init
ThreadStart(c) ==
    /\ thr[c].pc = "start"
    /\ LET s == thr[c].s IN
         sess' = [sess EXCEPT ![s].flags = @ \union {"STARTED"}, ![s].hashed = TRUE,
                              ![s].cmds = hash_init]
    /\ Goto(c, "loop")
    /\ UNCHANGED <<g_state, lst, stop, freeq, fds, envVars, poolVars, dev, exited>>

\* The loop's head: the end, a header to receive into, or WORKER_FAILURE, which
\* neither closes the socket nor gives the structure back
ThreadLoop(c) ==
    /\ thr[c].pc = "loop"
    /\ LET s == thr[c].s IN
       \/ /\ "STOPPING" \in sess[s].flags
          /\ Goto(c, "close")
          /\ UNCHANGED <<sess, hdrs>>
       \/ /\ "STOPPING" \notin sess[s].flags /\ hdrs[s] > 0
          /\ Goto(c, "recv")
          /\ hdrs' = [hdrs EXCEPT ![s] = @ - 1]
          /\ UNCHANGED sess
       \/ /\ "STOPPING" \notin sess[s].flags /\ hdrs[s] = 0
          /\ sess' = [sess EXCEPT ![s].in = FALSE, ![s].flags = @ \union {"ERROR", "STOPPED"}]
          /\ Fails(c, "lost")
          /\ UNCHANGED hdrs
    /\ UNCHANGED <<g_state, lst, stop, freeq, fds, envVars, pool, dev, exited>>

\* Mutated form: the header is not given back.
BreakWithHeader(c) ==
    /\ thr[c].pc = "recv" /\ net[c].st = "closed"
    /\ Goto(c, "close")
    /\ UNCHANGED <<g_state, lst, stop, freeq, sess, fds, envVars, poolVars, dev, exited>>

\* iscsi_sock_msg fails: the header goes back, the session ends.
ThreadRecvFails(c) ==
    /\ thr[c].pc = "recv" /\ net[c].st = "closed"
    /\ hdrs' = [hdrs EXCEPT ![thr[c].s] = @ + 1]
    /\ Goto(c, "close")
    /\ UNCHANGED <<g_state, lst, stop, freeq, sess, fds, envVars, pool, dev, exited>>

Received(c, op) ==
    /\ thr[c].pc = "recv" /\ net[c].in # <<>> /\ Head(net[c].in).op = op
    /\ net' = [net EXCEPT ![c].in = Tail(@)]

\* execute_t is done with the PDU: the header goes back, the thread to pc.
Handled(c, pc) ==
    /\ hdrs' = [hdrs EXCEPT ![thr[c].s] = @ + 1]
    /\ Goto(c, pc)

\* execute_t returns -1: the session ends, the header is forgotten.
HandlerFails(c) == Fails(c, "close") /\ UNCHANGED hdrs

\* login_command_t: logged in before or after the answer, here with it
ThreadLogin(c) ==
    /\ Received(c, "login")
    /\ LET s == thr[c].s IN
       \/ /\ SendsOn(sess[s].fd)
          /\ Handled(c, "loop") /\ sess' = [sess EXCEPT ![s].in = TRUE]
       \/ /\ MayFailOn(sess[s].fd)
          /\ HandlerFails(c) /\ sess' = [sess EXCEPT ![s].in = TRUE]
    /\ UNCHANGED <<g_state, lst, stop, freeq, fds, pdus, awaited, pool, dev, exited>>

\* scsi_command_t: a command structure, the hash unless the tag is there, the LUN.
ThreadCommand(c) ==
    /\ Received(c, "command")
    /\ LET s == thr[c].s
           t == Head(net[c].in).tag
       IN  IF pool[s] = 0
           THEN HandlerFails(c) /\ UNCHANGED <<sess, pool, dev>>
           ELSE /\ pool' = [pool EXCEPT ![s] = @ - 1]
                /\ sess' = [sess EXCEPT ![s].cmds = hash_insert(@, [key |-> t, ptr |-> c])]
                /\ dev' = dev \union {[s |-> s, c |-> c, tag |-> t, sent |-> FALSE]}
                /\ Goto(c, "loop")
                /\ UNCHANGED hdrs
    /\ UNCHANGED <<g_state, lst, stop, freeq, fds, pdus, awaited, exited>>

\* logout_command_t
ThreadLogout(c) ==
    /\ Received(c, "logout")
    /\ LET s == thr[c].s IN
       \/ /\ SendsOn(sess[s].fd)
          /\ Handled(c, "close") /\ sess' = [sess EXCEPT ![s].in = FALSE]
       \/ MayFailOn(sess[s].fd) /\ HandlerFails(c) /\ UNCHANGED sess
    /\ UNCHANGED <<g_state, lst, stop, freeq, fds, pdus, awaited, pool, dev, exited>>

\* iscsi_sock_close(sess->sock)
ThreadClose(c) ==
    /\ thr[c].pc = "close"
    /\ fds' = [fds EXCEPT ![sess[thr[c].s].fd] = NoConn]
    /\ net' = [net EXCEPT ![fds[sess[thr[c].s].fd]] =
                             [st |-> "closed", half |-> FALSE, in |-> <<>>, n |-> 0, out |-> FALSE]]
    /\ awaited' = [awaited EXCEPT ![c] = {}]
    /\ Goto(c, "drain")
    /\ UNCHANGED <<pdus, g_state, lst, stop, freeq, sess, poolVars, dev, exited>>

\* hash_remove_head until it is empty, hash_destroy, param_list_destroy, the cookie
ThreadDrain(c) ==
    /\ thr[c].pc = "drain"
    /\ LET s == thr[c].s IN
       IF hash_remove_head(sess[s].cmds) # sess[s].cmds
       THEN sess' = [sess EXCEPT ![s].cmds = hash_remove_head(@)] /\ UNCHANGED thr
       ELSE sess' = [sess EXCEPT ![s].hashed = FALSE] /\ Goto(c, "return")
    /\ UNCHANGED <<g_state, lst, stop, freeq, fds, envVars, poolVars, dev, exited>>

\* Mutated form: a session that ends by a handler's error is not made available.
ReturnIfOrderly(c) ==
    /\ thr[c].pc = "return"
    /\ freeq' = IF thr[c].failed THEN freeq ELSE Append(freeq, thr[c].s)
    /\ Goto(c, "clear")
    /\ UNCHANGED <<g_state, lst, stop, sess, fds, envVars, poolVars, dev, exited>>

\* "make session available"
ThreadReturn(c) ==
    /\ thr[c].pc = "return"
    /\ freeq' = Append(freeq, thr[c].s)
    /\ Goto(c, "clear")
    /\ UNCHANGED <<g_state, lst, stop, sess, fds, envVars, poolVars, dev, exited>>

\* Mutated form: the socket is closed when the session is available already.
ClearAndClose(c) ==
    /\ thr[c].pc = "clear"
    /\ LET s == thr[c].s IN
       /\ sess' = [sess EXCEPT ![s].in = FALSE]
       /\ fds' = [f \in Fds |-> IF f = sess[s].fd THEN NoConn ELSE fds[f]]
    /\ Goto(c, "exit")
    /\ UNCHANGED <<g_state, lst, stop, freeq, envVars, poolVars, dev, exited>>

\* Only now is IsLoggedIn reset; the structure may have another connection.
ThreadClear(c) ==
    /\ thr[c].pc = "clear"
    /\ sess' = [sess EXCEPT ![thr[c].s].in = FALSE]
    /\ Goto(c, "exit")
    /\ UNCHANGED <<g_state, lst, stop, freeq, fds, envVars, poolVars, dev, exited>>

\* Mutated form: the thread returns without EXIT.
ExitUnsaid(c) ==
    /\ thr[c].pc = "exit"
    /\ Goto(c, "gone")
    /\ UNCHANGED <<g_state, lst, stop, freeq, sess, fds, envVars, poolVars, dev, exited>>

\* EXIT(me, 0)
ThreadExit(c) ==
    /\ thr[c].pc = "exit"
    /\ sess' = [sess EXCEPT ![thr[c].s].flags = @ \union {"STOPPED"}]
    /\ Goto(c, "gone")
    /\ UNCHANGED <<g_state, lst, stop, freeq, fds, envVars, poolVars, dev, exited>>

-----------------------------------------------------------------------------
(***************************************************************************)
(* A LUN worker completes a command: device_command_done, which command_done *)
(* calls and whose failure ends the process                                 *)
(***************************************************************************)

\* The response goes to whatever connection sess->sock is by now.
Respond(d) ==
    /\ d \in dev /\ ~d.sent
    /\ LET f == sess[d.s].fd IN
       \/ /\ SendsOn(f)
          /\ awaited' = [awaited EXCEPT ![fds[f]] = @ \ {d.tag}]
          /\ dev' = (dev \ {d}) \union {[d EXCEPT !.sent = TRUE]}
          /\ UNCHANGED exited
       \/ MayFailOn(f) /\ exited' = TRUE /\ UNCHANGED <<awaited, dev>>
    /\ UNCHANGED <<pdus, g_state, lst, stop, freeq, sess, thr, fds, net, poolVars>>

\* Mutated form: the command stays in the hash.
ForgetKept(d) ==
    /\ d \in dev /\ d.sent
    /\ hdrs' = [hdrs EXCEPT ![d.s] = @ + 1]
    /\ pool' = [pool EXCEPT ![d.s] = @ + 1]
    /\ dev' = dev \ {d}
    /\ UNCHANGED <<g_state, lst, stop, freeq, sess, thr, fds, envVars, exited>>

\* HASH_REMOVE_ELSE(.., exit(1)), then the header and the structure go back.
Forget(d) ==
    /\ d \in dev /\ d.sent
    /\ IF ~sess[d.s].hashed \/ ~Holds(sess[d.s].cmds, d.tag)
       THEN exited' = TRUE /\ UNCHANGED <<sess, poolVars, dev>>
       ELSE /\ sess' = [sess EXCEPT ![d.s].cmds = hash_remove(@, d.tag)]
            /\ hdrs' = [hdrs EXCEPT ![d.s] = @ + 1]
            /\ pool' = [pool EXCEPT ![d.s] = @ + 1]
            /\ dev' = dev \ {d}
            /\ UNCHANGED exited
    /\ UNCHANGED <<g_state, lst, stop, freeq, thr, fds, envVars>>

-----------------------------------------------------------------------------
(***************************************************************************)
(* target_shutdown, in utarget.c's handler                                 *)
(***************************************************************************)

Interrupt ==
    /\ stop.pc = "no" /\ g_state = "initialized"
    /\ g_state' = "shutting down"
    /\ stop' = [pc |-> "sessions", s |-> 0]
    /\ UNCHANGED <<lst, freeq, sess, thr, fds, envVars, poolVars, dev, exited>>

\* "destroy all sessions": those logged in are told to stop.  iscsi_sock_shutdown
\* shuts the sending side only.
StopSession ==
    /\ stop.pc = "sessions" /\ stop.s < nsess
    /\ LET f == sess[stop.s].fd IN
       IF sess[stop.s].in
       THEN /\ sess' = [sess EXCEPT ![stop.s].flags = @ \union {"STOPPING"}]
            /\ net' = IF f # NoFd /\ fds[f] # NoConn
                      THEN [net EXCEPT ![fds[f]].half = TRUE] ELSE net
            /\ stop' = [stop EXCEPT !.pc = "wait"]
       ELSE stop' = [stop EXCEPT !.s = @ + 1] /\ UNCHANGED <<sess, net>>
    /\ UNCHANGED <<g_state, lst, freeq, thr, fds, pdus, awaited, poolVars, dev, exited>>

StopWait ==
    /\ stop.pc = "wait" /\ "STOPPED" \in sess[stop.s].flags
    /\ stop' = [pc |-> "sessions", s |-> stop.s + 1]
    /\ UNCHANGED <<g_state, lst, freeq, sess, thr, fds, envVars, poolVars, dev, exited>>

\* The listening socket and the queues go.
ShutDown ==
    /\ stop.pc = "sessions" /\ stop.s = nsess
    /\ stop' = [stop EXCEPT !.pc = "end"]
    /\ g_state' = "shut down"
    /\ UNCHANGED <<lst, freeq, sess, thr, fds, envVars, poolVars, dev, exited>>

-----------------------------------------------------------------------------
Initiators == \E c \in Conns : Connect(c) \/ SendPdu(c) \/ Close(c)

Listener == ListenerTake \/ ListenerStarted
            \/ \E c \in Conns : ListenerAccept(c)

Thread(c) ==
    \/ ThreadStart(c) \/ ThreadLoop(c) \/ ThreadRecvFails(c) \/ ThreadLogin(c)
    \/ ThreadCommand(c) \/ ThreadLogout(c) \/ ThreadClose(c)
    \/ ThreadDrain(c) \/ ThreadReturn(c) \/ ThreadClear(c) \/ ThreadExit(c)

Luns == \E d \in dev : Respond(d) \/ Forget(d)

Handler == StopSession \/ StopWait \/ ShutDown

Step(action) == Running /\ action /\ UNCHANGED nsess

Next ==
    Step(\/ Initiators \/ Listener \/ Luns \/ Interrupt \/ Handler
         \/ \E c \in Conns : Thread(c))

\* Threads run; an initiator that sees the end of the target's data closes.
Spec ==
    /\ Init /\ [][Next]_vars
    /\ WF_vars(Step(Listener)) /\ WF_vars(Step(Luns)) /\ WF_vars(Step(Handler))
    /\ \A c \in Conns : WF_vars(Step(Thread(c))) /\ WF_vars(Step(net[c].half /\ Close(c)))

-----------------------------------------------------------------------------
(***************************************************************************)
(* Properties                                                              *)
(***************************************************************************)

Ended == {"clear", "exit", "gone"}
Serving == {"start", "loop", "recv", "close", "drain", "return", "lost"}

\* Types; a command at a LUN holds one header and one structure of its session.
TypeOK ==
    /\ nsess \in 1..NSess
    /\ g_state \in {"initialized", "shutting down", "shut down"} /\ exited \in BOOLEAN
    /\ lst \in [pc : {"take", "accept", "started", "done"}, s : Ids]
    /\ stop \in [pc : {"no", "sessions", "wait", "end"}, s : 0..NSess]
    /\ freeq \in Seq(Ids)
    /\ \A s \in Ids : /\ sess[s].in \in BOOLEAN /\ sess[s].fd \in Fds \union {NoFd}
                      /\ sess[s].flags \subseteq {"STARTED", "STOPPING", "STOPPED", "ERROR"}
                      /\ WellFormed(sess[s].cmds, Conns)
    /\ thr \in [Conns -> [pc : Serving \union Ended \union {"none"}, s : Ids,
                          failed : BOOLEAN]]
    /\ fds \in [Fds -> Conns \union {NoConn}]
    /\ dev \subseteq [s : Ids, c : Conns, tag : Nat, sent : BOOLEAN]
    /\ \A s \in Ids : LET n == Cardinality({d \in dev : d.s = s}) IN
          hdrs[s] + n \in 0..Hdrs /\ pool[s] + n \in 0..Hdrs

\* The types hold, and a session structure is in one place: in g_session_q once, with the listener or
\* with one connection, whose thread gives it back after its last use of the
\* socket, the hash and the parameters.  None is lost but by WORKER_FAILURE.
Accounted ==
    /\ TypeOK
    /\ \A s \in 0..(nsess - 1) :
         Cardinality({i \in DOMAIN freeq : freeq[i] = s})
         + (IF lst.pc = "accept" /\ lst.s = s THEN 1 ELSE 0)
         + Cardinality({c \in Conns : thr[c].pc \in Serving /\ thr[c].s = s}) = 1

\* Until it closes it, a thread's socket is the connection it was started for,
\* however the structures and the file descriptors are used again.
SockIsMine ==
    \A c \in Conns : thr[c].pc \in {"start", "loop", "recv", "close"} =>
       sess[thr[c].s].fd # NoFd /\ fds[sess[thr[c].s].fd] = c

\* When a structure has no connection, no command of it is at a LUN and no handler
\* of its past connections failed, all headers and commands are back in its pools.
PoolsRefilled ==
    \A s \in Ids :
       (/\ \A d \in dev : d.s # s
        /\ \A c \in Conns : thr[c].pc # "none" /\ thr[c].s = s =>
              thr[c].pc \in {"close", "drain", "return"} \union Ended /\ ~thr[c].failed)
       => hdrs[s] = Hdrs /\ pool[s] = Hdrs

\* What the hash of a session holds is at a LUN: a WRITE-DATA PDU that finds its
\* command there finds one that is still in use.
HashIsAtLun ==
    \A s \in Ids : \A e \in Contents(sess[s].cmds) :
       \E d \in dev : d.s = s /\ d.tag = e.key

\* SIGINT ends the target, if all initiators go when the target's data ends: no
\* session worker is waited for that has no one to wake it.
ShutdownFinishes == g_state = "shutting down" ~> (g_state = "shut down" \/ exited)

\* target.c:2032 "clean up any outstanding commands": after it no command of the
\* connection is at a LUN.
CleanedUp ==
    \A c \in Conns : thr[c].pc \in {"return"} \union Ended => \A d \in dev : d.c # c
=============================================================================
