SPECIFICATION RSpec
CONSTANTS
    Record = {r1}
    Thread = {t1}
    PollThread = poll
    None = none
    Modes <- MCModes
    UseSyncSend = TRUE
    MaxCalls = 1
    MaxFatalErrors = 1
    r1 = r1
    r2 = r2
    t1 = t1
    t2 = t2
    poll = poll
    none = none
PROPERTIES LockedSyncSendReturns
CHECK_DEADLOCK FALSE
