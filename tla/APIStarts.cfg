\* Starts with and without a key, racing, failing and retried.
SPECIFICATION APISpec
CONSTANTS
    NULL = NULL
    r1 = r1
    r2 = r2
    o1 = o1
    k1 = k1
    q1 = q1
    q2 = q2
    q3 = q3
    Workflows = {"charge", "empty"}
    Definition <- OneActivity
    MaxSteps = 1
    DefaultRetries = 1
    Owners = {o1}
    Keys = {k1}
    Runs = {r1, r2}
    LeaseDuration = 1
    MaxBackoff = 0
    AttemptLimit = 1
    MaxReplays = 0
    Requests = {q1, q2, q3}
    Ops = {"start"}
    Unreliable = TRUE
SYMMETRY StartSymmetry
INVARIANTS SameKeySameRun
CHECK_DEADLOCK FALSE
