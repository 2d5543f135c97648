---------------------------- MODULE MCAlarmQueue ----------------------------
(***************************************************************************)
(* AlarmQueue for TLC: several threads whose answers all come; one thread    *)
(* whose answers can be late or lost and whose enqueue can fail; two threads *)
(* whose answers can be late or lost.                                        *)
(***************************************************************************)
EXTENDS AlarmQueue

CONSTANTS a, b, c

MCElems == {a, b, c}
MCUses == { [callers |-> {a, b, c}, most |-> 2, faults |-> {}],
            [callers |-> {a}, most |-> 2, faults |-> Faults],
            [callers |-> {a, b}, most |-> 1, faults |-> {"timeout"}] }
=============================================================================
