SPECIFICATION ToolsSpec
CONSTANTS
    ta = ta
    tb = tb
    Topic <- MCTopic
    Named = ta
    MaxCalls = 2
    Lines <- MCLines
    Inputs <- MCInputs
    MaxRecords = 3
    Throughputs = {1, 2}
    Interval = 1
    MaxClock = 4
    MaxBatch = 2
    MaxRead = 3
    MaxSignals = 3
INVARIANTS SoleCommitter ReportedIsInForce CallbacksReady ExitStatusIsReal LinesAddUp
    ConsoleTellsTruth
PROPERTIES ResultIsReal CallReturns EveryToolEnds
CHECK_DEADLOCK FALSE
