SPECIFICATION Spec
CONSTANTS
    c1 = c1
    c2 = c2
    Client = {c1}
    Job = {j1}
    Delay = {}
    MaxCalls = 1
    MaxTime = 0
    Jitter = 1
    Roles <- PostAndRelease
    JobHolds = "own"
    looper = looper
    None = None
PROPERTY LastReleaseTerminates
CHECK_DEADLOCK FALSE
