SPECIFICATION MCSpec
CONSTANTS
    c1 = c1
    c2 = c2
    c3 = c3
    Client = {c1, c2, c3}
    creator = c1
    Calls <- AnyOrder
    JobJoins = TRUE
    native = native
    main = main
    Threads = {main, c1, c2}
    NoOne = NoOne
    Budgets <- SomeBudgets
INVARIANTS
    JoinMeansDone
    AbortsOnMisuse
    ThreadInv
    MainLooperIsSafe
PROPERTIES
    StateAdvances
    CallsReturn
    MainLoopEnds
CHECK_DEADLOCK FALSE
