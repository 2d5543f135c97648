CONSTANTS
    NULL = NULL
    OK = OK
    FAIL = FAIL
    a = a
    b = b
    c = c
    Depth = 4
    Elems <- MCElems
    Uses <- MCUses
SPECIFICATION ASpec
CHECK_DEADLOCK FALSE
INVARIANTS AlarmEntries NeverExits RingInv
PROPERTIES FifoSpec CallReturns
