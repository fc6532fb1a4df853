\* The built-in workflows on one process that is told to stop or stalls.
SPECIFICATION DemoSpec
CONSTANTS
    NULL = NULL
    r1 = r1
    p1 = p1
    w1 = w1
    w2 = w2
    o1 = o1
    o2 = o2
    Workflows = {"order_processing", "timer_demo", "retry_demo", "dlq_demo", "bench_noop"}
    Definition <- DemoDefinition
    MaxSteps = 3
    DefaultRetries = 5
    Owners = {o1, o2}
    Keys = {}
    Runs = {r1}
    LeaseDuration = 1
    MaxBackoff = 1
    AttemptLimit = 8
    MaxReplays = 0
    Procs = {p1}
    Workers = {w1, w2}
    ProcOf <- OneProcess
    OwnerId <- DistinctIds
    BackoffBase = 1
    DurationBits = 2
    FaultKinds = {"sigterm", "stall"}
    MaxFaults = 2
    FailTimes = 1
INVARIANTS BackoffCapped NoAbandonedLease LeasesAccountedFor
PROPERTIES DrainTerminates DemosEndAsMeant
