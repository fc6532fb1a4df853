\* Two starts with one key between whose look-up and insert the other commits.
SPECIFICATION APISpec
CONSTANTS
    NULL = NULL
    r1 = r1
    r2 = r2
    o1 = o1
    k1 = k1
    q1 = q1
    q2 = q2
    q3 = q3
    Workflows = {"charge", "empty"}
    Definition <- OneActivity
    MaxSteps = 1
    DefaultRetries = 1
    Owners = {o1}
    Keys = {k1}
    Runs = {r1, r2}
    LeaseDuration = 1
    MaxBackoff = 0
    AttemptLimit = 1
    MaxReplays = 0
    Requests = {q1, q2}
    Ops = {"start"}
    Unreliable = FALSE
SYMMETRY StartSymmetry
INVARIANTS StartsReturnARun
CHECK_DEADLOCK FALSE
