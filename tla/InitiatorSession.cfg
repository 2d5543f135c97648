CONSTANTS
    c1 = c1
    c2 = c2
    c3 = c3
    Cmds <- MCCmds
    Scenes <- MCScenes
    Login = login
    NoCmd = nocmd
    Callers = 3
    MaxDrops = 3
SPECIFICATION Spec
CHECK_DEADLOCK FALSE
INVARIANTS TypeOK NothingLost DoneIsForgotten ThreadsStopped
PROPERTIES SessionKeptAlive CommandsComplete
