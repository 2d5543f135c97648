CONSTANTS
    c1 = c1
    c2 = c2
    Cmds <- TwoCmds
    Requests <- SomeRequests
    Segs = {0, 3}
    DiskTypes = {"fs", "sg"}
    IoErrors <- SecondCmd
    NumLuns = 2
    NumBlocks = 3
    MaxBurst = 8
    NStaging = 1
    MayBreak = TRUE
SPECIFICATION Spec
INVARIANTS NeverMisplaced GoodMeansRead StagingBack
