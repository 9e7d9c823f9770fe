SPECIFICATION Spec
CONSTANTS
    c1 = c1
    c2 = c2
    Client = {c1, c2}
    Job = {j1}
    Delay = {}
    MaxCalls = 1
    MaxTime = 0
    Jitter = 1
    Roles <- BothPost
    JobHolds = "none"
    looper = looper
    None = None
PROPERTY JobsRun
CHECK_DEADLOCK FALSE
