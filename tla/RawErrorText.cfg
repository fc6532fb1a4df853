\* A handler error whose text is not JSON once quoted.
SPECIFICATION Spec
CONSTANTS
    NULL = NULL
    r1 = r1
    p1 = p1
    p2 = p2
    w1 = w1
    w2 = w2
    o1 = o1
    o2 = o2
    Workflows = {"charge"}
    Definition <- TwoActivities
    MaxSteps = 2
    DefaultRetries = 1
    Owners = {o1, o2}
    Keys = {}
    Runs = {r1}
    LeaseDuration = 1
    MaxBackoff = 1
    AttemptLimit = 5
    MaxReplays = 1
    Procs = {p1, p2}
    Workers = {w1, w2}
    ProcOf <- TwoProcesses
    OwnerId <- DistinctIds
    BackoffBase = 2
    DurationBits = 3
    FaultKinds = {"payload"}
    MaxFaults = 1
PROPERTIES ErrorsAreConcluded
