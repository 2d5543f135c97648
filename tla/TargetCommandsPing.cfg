CONSTANTS
    PoolSize = 3
    Depth = 2
    Loads <- MCPing
SPECIFICATION Spec
CHECK_DEADLOCK FALSE
PROPERTY PingInOrder
