CONSTANTS
    Numbers = {0, 1, 3, 5}
    Limit = 3
    Default = 2
    Others = {}
SPECIFICATION Spec
INVARIANTS SameParameters WithinLimits BothProved 
