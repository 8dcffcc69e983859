SPECIFICATION TSpec
CONSTANTS
    NULL = NULL
    Programs <- AllPrograms
    Input <- InputSeq
CHECK_DEADLOCK FALSE
INVARIANTS
    TypeOK
    MeansTheSame
    TempsDefined
    BlocksAsAllocated
PROPERTIES
    Halts
