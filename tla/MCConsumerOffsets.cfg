SPECIFICATION FairSpec
CONSTANTS
    Partition = {p1, p2}
    MaxPollRecords = 2
    MaxOffset = 2
    MaxInflight = 2
    MaxFailures = 1
    EventSets = {{}, {"crash"}, {"subscribe"}, {"fatal"}}
    p1 = p1
    p2 = p2
INVARIANTS AtLeastOnce ClosedCommitted
PROPERTIES GroupNeverGoesBack CommittedUnlessRefused
CHECK_DEADLOCK FALSE
