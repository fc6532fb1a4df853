\* One run of two activities under any order of transactions.
SPECIFICATION StoreSpec
CONSTANTS
    NULL = NULL
    r1 = r1
    o1 = o1
    o2 = o2
    Workflows = {"charge"}
    Definition <- TwoActivities
    MaxSteps = 2
    DefaultRetries = 1
    Owners = {o1, o2}
    Keys = {}
    Runs = {r1}
    LeaseDuration = 1
    MaxBackoff = 1
    AttemptLimit = 3
    MaxReplays = 1
SYMMETRY OwnerSymmetry
INVARIANTS StoreTypeOK RunShape HandOff OneCompletionEvent HistoryTellsState
PROPERTIES FinalRunsFrozen ImplementsWorkflowRun
CHECK_DEADLOCK FALSE
