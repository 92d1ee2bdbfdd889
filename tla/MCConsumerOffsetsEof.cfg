SPECIFICATION Spec
CONSTANTS
    Partition = {p1}
    MaxPollRecords = 2
    MaxOffset = 2
    MaxInflight = 2
    MaxFailures = 0
    EventSets = {{"eof", "crash"}}
    p1 = p1
    p2 = p2
INVARIANT AtLeastOnce
CHECK_DEADLOCK FALSE
