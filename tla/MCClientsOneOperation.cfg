SPECIFICATION ToolSpec
CONSTANTS
    ta = ta
    tb = tb
    Topic <- MCTopic
    Named = ta
    MaxCalls = 2
    Lines <- MCLines
    Inputs <- MCInputs
INVARIANTS OneOperationOnly
CHECK_DEADLOCK FALSE
