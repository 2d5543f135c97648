CONSTANTS
    PoolSize = 3
    Depth = 2
    Loads <- MCFull
SPECIFICATION Spec
CHECK_DEADLOCK FALSE
INVARIANT OneLessIsEnough
