SPECIFICATION MCSpec
CONSTANTS
    Threads = {t1, t2}
    Slots = {s1, s2, s3}
    Objects = {o1, o2}
    NULL = NULL
    Strings = {v1, v2}
    Buffers = {b1, b2, b3, b4}
    Junk = "?"
    Literals <- MCLiterals
    Spaces = {" "}
    NUL = "0"
    MaxChars = 3
    Messages = {m1, m2}
    Names = {n1, n2}
    Data = {7}
    Texts = {t}
    Blocks = {k1, k2, k3}
    MaxRefs = 4
    Capacities = {2, 4}
    Bytes = {"x", "y"}
    Raw = "?"
    MaxTransfer = 3
    Contents <- MCContents
    Places = {0, 1, 2, 4}
    BlockLength = 2
    MaxLength = 4
INVARIANTS
    ObjectsAreCounted
    NoUseAfterFree
    StringsKeepTheirText
    MessagesKeepTheirEntries
    BuffersReadInOrder
    ContentIsTheFiles
CHECK_DEADLOCK FALSE
