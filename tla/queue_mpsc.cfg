SPECIFICATION Spec
CONSTANTS
    Producers = {p1, p2}
    Consumers = {c1}
    Node = {n1, n2, n3, n4, n5}
    NULL = NULL
    None = None
    MaxPush = 2
    SizeMod = 8
    Variants = {"N"}
INVARIANTS Fifo ProducersAreSafe
SYMMETRY ThreadSymmetry
CHECK_DEADLOCK FALSE
