CONSTANTS
    c1 = c1
    c2 = c2
    Cmds <- MCCmds
    Params <- TwoR2Ts
SPECIFICATION Spec
CHECK_DEADLOCK FALSE
INVARIANT GoodMeansPlaced
