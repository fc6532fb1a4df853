\* One run read, cancelled and replayed while workers go on.
SPECIFICATION APISpec
CONSTANTS
    NULL = NULL
    r1 = r1
    r2 = r2
    o1 = o1
    k1 = k1
    q1 = q1
    q2 = q2
    q3 = q3
    Workflows = {"charge"}
    Definition <- TwoActivities
    MaxSteps = 2
    DefaultRetries = 1
    Owners = {o1}
    Keys = {k1}
    Runs = {r1}
    LeaseDuration = 1
    MaxBackoff = 0
    AttemptLimit = 1
    MaxReplays = 2
    Requests = {q1, q2, q3}
    Ops = {"start", "get", "cancel", "replay"}
    Unreliable = TRUE
SYMMETRY RequestSymmetry
INVARIANTS APITypeOK AnswersFitTogether CancelledStaysDown OneReplayPerDeath
PROPERTIES APIImplementsStore
CHECK_DEADLOCK FALSE
