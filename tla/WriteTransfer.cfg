CONSTANTS
    c1 = c1
    c2 = c2
    Cmds <- MCCmds
    Params <- OneR2T
SPECIFICATION Spec
CHECK_DEADLOCK FALSE
INVARIANTS NoSessionError FreeWhenDone GoodMeansPlaced
PROPERTY WritesComplete
