SPECIFICATION MCSpec
CONSTANTS
    Threads = {t1, t2}
    Handles = {h1, h2}
    Buffers = {b1, b2, b3, b4}
    Values = {"x"}
    Junk = "?"
    MaxSize = 2
    Storages = {k1, k2, k3}
    NULL = NULL
    Lost = Lost
    Key <- MCKey
    Hash <- MCHash
    Vectors = {v1, v2}
    Lists = {l1, l2}
    Tables = {m1, m2}
    Elements = {2, 3, 4}
    Capacities = {1}
    MaxItems = 4
    MaxNodes = 3
    MaxSorted = 6
    Keys = {0, 2, 8}
    TableValues = {x, y}
    Lengths = {2}
    MaxElements = 4
    Width = 3
    mSize = 9
    Words = {1, 7697312}
    BitLengths = {1, 5, 12}
    MaxWrites = 2
    Raw = Raw
INVARIANTS
    VectorGuardsIntact
CHECK_DEADLOCK FALSE
