-------------------------- MODULE MCWriteTransfer --------------------------
(***************************************************************************)
(* Instances of WriteTransfer for TLC.                                       *)
(***************************************************************************)
EXTENDS WriteTransfer

CONSTANTS c1, c2

MCCmds == {c1, c2}

\* Immediate data that the target would refuse is left out (see ParamsAssumption).
Acceptable(p) ==
    p.immediate /\ p.first # 0 =>
        (IF p.seg = 0 THEN p.transLen <= p.first
         ELSE p.seg <= p.first \/ p.transLen <= p.first)

With(p, cmds, bad) ==
    [seg |-> p.seg, first |-> p.first, max |-> p.max, initialR2T |-> p.initialR2T,
     immediate |-> p.immediate, transLen |-> p.transLen, cmds |-> cmds, bad |-> bad]

\* One write, with every split that up to five units and one R2T can have.
OneWrite ==
    { With(p, {c1}, {}) :
      p \in { q \in [seg : 0..3, first : {0, 2, 3}, max : {5}, initialR2T : BOOLEAN,
                     immediate : BOOLEAN, transLen : 1..5] : Acceptable(q) } }

\* Two writes at a time, the second of which the device may refuse, with the
\* splits of three and four units.
TwoWrites ==
    { With(p, {c1, c2}, {c2}) :
      p \in { q \in [seg : 0..2, first : {0, 2, 3}, max : {4}, initialR2T : BOOLEAN,
                     immediate : BOOLEAN, transLen : 3..4] : Acceptable(q) } }

OneR2T == OneWrite \cup TwoWrites

\* A transfer of twice the maximum burst: the target asks with two R2Ts.
TwoR2Ts ==
    { [seg |-> 0, first |-> 2, max |-> 2, initialR2T |-> TRUE,
       immediate |-> FALSE, transLen |-> 4, cmds |-> {c1}, bad |-> {}] }
=============================================================================
