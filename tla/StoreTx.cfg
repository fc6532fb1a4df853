\* Two connections, one run of an activity and a timer, every mix of transactions.
SPECIFICATION TxSpec
CONSTANTS
    NULL = NULL
    r1 = r1
    o1 = o1
    o2 = o2
    c1 = c1
    c2 = c2
    Workflows = {"charge"}
    Definition <- ThenTimer
    MaxSteps = 2
    DefaultRetries = 1
    Owners = {o1, o2}
    Keys = {}
    Runs = {r1}
    LeaseDuration = 1
    MaxBackoff = 0
    AttemptLimit = 1
    MaxReplays = 1
    Conns = {c1, c2}
INVARIANTS HistoryInCommitOrder DeadlockNeedsCancel
PROPERTIES TxImplementsStore TxEnds
CHECK_DEADLOCK FALSE
