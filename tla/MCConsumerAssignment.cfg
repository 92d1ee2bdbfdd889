SPECIFICATION MCSpec
CONSTANTS
    Partition = {p1, p2}
    Topics = {topicsA, topicsB}
    NoTopics = none
    AnyRefusal = TRUE
    MaxHazards = 2
    p1 = p1
    p2 = p2
    topicsA = topicsA
    topicsB = topicsB
    none = none
    SeekPartitions = {1, 2}
    MaxOffset = 2
    MaxOps = 2
    MaxAssignments = 2
INVARIANTS CallbacksTellAll ManualAssignmentKept SeekTakesEffect
PROPERTIES PauseReachesAll EveryCallReturns
CHECK_DEADLOCK FALSE
