SPECIFICATION RSpec
CONSTANTS
    Record = {r1, r2}
    Thread = {t1, t2}
    PollThread = poll
    None = none
    Modes <- MCModes
    UseSyncSend = FALSE
    MaxCalls = 2
    MaxFatalErrors = 2
    r1 = r1
    r2 = r2
    t1 = t1
    t2 = t2
    poll = poll
    none = none
PROPERTIES ProducerDestroyedUnused RecordsReported RecoveryCompletes RCloseCompletes
CHECK_DEADLOCK FALSE
