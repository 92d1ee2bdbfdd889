SPECIFICATION AddonsSpec
CONSTANTS
    Offsets <- MCOffsets
    MaxPendingAcks = 3
    Elements = {1, 2, 3, 4}
    MaxSize = 6
    Keys = {"a", "b"}
    WILDCARD = "*"
    Documents <- MCDocuments
    MaxPath = 4
    StringKeys = {"client.id"}
    nonStringValueKeys = {"log_cb", "error_cb"}
    Contents = {1, 2}
    MaxObjects = 2
INVARIANTS CommitNeverPassesUnacked FindsWhatMatches ValueSemantics
PROPERTY ImplementsPriorityQueue
CHECK_DEADLOCK FALSE
