SPECIFICATION FittingSpec
CONSTANTS
    Var = {v1, v2}
    Temp = {t1, t2, t3}
    Cross = {x1}
    Const = {c1}
    None = None
    T9 = 1
    S7 = 3
    MaxLen = 6
SYMMETRY Symmetry
CHECK_DEADLOCK FALSE
INVARIANTS
    TypeOK
    DescriptorSound
    ExitsEmpty
    DescriptorExact
    OperandsFresh
    LoadsHaveHome
    HomesAtExit
    HomesAtBranch
    ValuesKept
