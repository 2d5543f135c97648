------------------------- MODULE MCInitiatorSession -------------------------
(***************************************************************************)
(* InitiatorSession for TLC: three reads whose callers wait for a session   *)
(* that is ready and loses its connection; two reads and a write whose      *)
(* callers do not wait, over connections that break at any time; and the    *)
(* same with queues that the callers can fill.                              *)
(***************************************************************************)
EXTENDS InitiatorSession

CONSTANTS c1, c2, c3

MCCmds == {c1, c2, c3}
MCEarly(depth) == [writes |-> {c1}, earlyDrops |-> TRUE, earlyCalls |-> TRUE, depth |-> depth]
MCScenes ==
    { [writes |-> {}, earlyDrops |-> FALSE, earlyCalls |-> FALSE, depth |-> 4],
      MCEarly(4), MCEarly(2) }
=============================================================================
