\* The page of one run, two loads at a time, two failed requests.
SPECIFICATION DashboardSpec
CONSTANTS
    NULL = NULL
    r1 = r1
    o1 = o1
    l1 = l1
    l2 = l2
    Workflows = {"charge"}
    Definition <- OneActivity
    MaxSteps = 1
    DefaultRetries = 1
    Owners = {o1}
    Keys = {}
    Runs = {r1}
    LeaseDuration = 1
    MaxBackoff = 0
    AttemptLimit = 1
    MaxReplays = 1
    Loads = {l1, l2}
    MaxFailures = 2
PROPERTIES CancelShown CancelEnds PageConverges
CHECK_DEADLOCK FALSE
