SPECIFICATION MCSpec
CONSTANTS
    Record = {r1, r2}
    Thread = {t1, t2}
    PollThread = poll
    None = none
    Modes <- MCModes
    r1 = r1
    r2 = r2
    t1 = t1
    t2 = t2
    poll = poll
    none = none
    MaxTransactions = 2
    MaxSends = 2
    MaxTimeouts = 2
    MaxFatal = 2
    Styles = {"documented", "abort"}
INVARIANTS OpaqueDeletedOnce AllReportedWhenClosed SyncCallerWaits PollableOutlivesPolling
    AllOrNothing
PROPERTIES EveryRecordReported CloseCompletes TransactionResolved
CHECK_DEADLOCK FALSE
