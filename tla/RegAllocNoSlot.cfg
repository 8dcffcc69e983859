SPECIFICATION Spec
CONSTANTS
    Var = {v1}
    Temp = {t1, t2, t3}
    Cross = {x1}
    Const = {c1}
    None = None
    T9 = 1
    S7 = 2
    MaxLen = 5
SYMMETRY Symmetry
CHECK_DEADLOCK FALSE
INVARIANT LoadsHaveHome
