SPECIFICATION Spec
CONSTANTS
    c1 = c1
    c2 = c2
    Client = {c1, c2}
    j1 = j1
    j2 = j2
    Job = {j1, j2}
    Delay = {2}
    MaxCalls = 3
    MaxTime = 2
    Jitter = 1
    Roles <- Scenarios
    None = None
INVARIANTS
    TypeOK
    QueueIsServed
    TasksConserved
    SignalsFindTheirSync
    ExitDrains
PROPERTIES
    SyncMeansRun
    JobsRun
    CallsReturn
CHECK_DEADLOCK FALSE
