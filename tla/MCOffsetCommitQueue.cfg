SPECIFICATION FairCommitsSpec
CONSTANTS
    Offsets <- MCOffsets
    MaxCommits = 3
    MaxErrors = 2
INVARIANTS NoUndefinedRead CallbackOncePerCommit GroupFollowsAcks
PROPERTIES CommittedGrows ImplementsOffsetCommitter EveryCallbackCalled
CHECK_DEADLOCK FALSE
