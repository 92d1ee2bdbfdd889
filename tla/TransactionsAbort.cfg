SPECIFICATION FairTransactionsSpec
CONSTANTS
    MaxTransactions = 2
    MaxSends = 2
    MaxTimeouts = 2
    MaxFatal = 2
    Styles = {"documented", "abort"}
INVARIANT AbortableNotGivenUp
CHECK_DEADLOCK FALSE
