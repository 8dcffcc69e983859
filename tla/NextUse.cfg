SPECIFICATION Spec
CONSTANTS
    Operand = {a, b}
    MaxLen = 4
CHECK_DEADLOCK FALSE
INVARIANTS
    TypeOK
    NextUseExact
    CleanBetweenBlocks
    MultiBlockExact
PROPERTIES
    AllPrinted
