SPECIFICATION Spec
CONSTANTS
    Node = {n1, n2, n3, n4, n5, n6}
    NULL = NULL
SYMMETRY Symmetry
CHECK_DEADLOCK FALSE
INVARIANTS
    TypeOK
    Linked
    PrevInBlocks
