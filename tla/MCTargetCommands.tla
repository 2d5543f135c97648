-------------------------- MODULE MCTargetCommands --------------------------
(***************************************************************************)
(* Loads for TargetCommands: one worker with writes enough for every         *)
(* structure of the pool to come back, and a ping; two workers, with writes   *)
(* for each structure once, and with one more; and few writes with a ping.    *)
(***************************************************************************)
EXTENDS TargetCommands

MCLoads == { [workers |-> 1, reqs |-> 5, pings |-> 1],
             [workers |-> 2, reqs |-> 3, pings |-> 0],
             [workers |-> 2, reqs |-> 4, pings |-> 0] }
MCPing == { [workers |-> 1, reqs |-> 1, pings |-> 1] }
MCFull == { [workers |-> 1, reqs |-> 3, pings |-> 0] }
=============================================================================
