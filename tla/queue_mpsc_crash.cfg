SPECIFICATION Spec
CONSTANTS
    Producers = {p1, p2}
    Consumers = {c1}
    Node = {n1, n2, n3}
    NULL = NULL
    None = None
    MaxPush = 1
    SizeMod = 8
    Variants = {"N"}
INVARIANT NoBadAccess
