SPECIFICATION Spec
CONSTANTS
    Partition = {p1, p2}
    Topics = {topicsA}
    NoTopics = none
    AnyRefusal = FALSE
    MaxHazards = 2
PROPERTIES PauseSuspendsAll
CHECK_DEADLOCK FALSE
