SPECIFICATION FairSpec
CONSTANTS
    Producers = {p1}
    Consumers = {c1}
    Node = {n1, n2, n3, n4}
    NULL = NULL
    None = None
    MaxPush = 3
    SizeMod = 8
    Variants = {"1", "N"}
INVARIANTS TypeOK NoBadAccess
PROPERTIES EmptyMeansDrained ImplementsFifo
