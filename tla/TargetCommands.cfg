CONSTANTS
    PoolSize = 3
    Depth = 2
    Loads <- MCLoads
SPECIFICATION Spec
CHECK_DEADLOCK FALSE
INVARIANTS PoolsSuffice StructureExclusive StagingExclusive StillItsCommand
PROPERTIES StatSNInOrder EveryCommandAnswered
