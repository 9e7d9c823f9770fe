SPECIFICATION MCSpec
CONSTANTS
    c1 = c1
    c2 = c2
    c3 = c3
    Client = {c1, c2}
    creator = c1
    Calls <- RunHereJoinThere
    JobJoins = FALSE
    native = native
    main = main
    Threads = {main, c1, c2}
    NoOne = NoOne
    Budgets = {}
INVARIANT JoinWaitsForJob
CHECK_DEADLOCK FALSE
