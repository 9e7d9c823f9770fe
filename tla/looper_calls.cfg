SPECIFICATION Spec
CONSTANTS
    c1 = c1
    c2 = c2
    Client = {c1, c2}
    Job = {j1}
    Delay = {1, 3}
    MaxCalls = 3
    MaxTime = 3
    Jitter = 1
    Roles <- Scenarios
    JobHolds = "none"
    looper = looper
    None = None
INVARIANTS
    TypeOK
    TasksConserved
    WorkIsNoticed
    JobsInOrder
    ExitDrains
PROPERTIES
    JobsOfOneMoverRun
    LastReleaseTerminates
CHECK_DEADLOCK FALSE
