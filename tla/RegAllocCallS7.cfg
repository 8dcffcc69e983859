SPECIFICATION Spec
CONSTANTS
    Var = {v1}
    Temp = {t1, t2, t3}
    Cross = {x1}
    Const = {}
    None = None
    T9 = 1
    S7 = 3
    MaxLen = 6
SYMMETRY Symmetry
CHECK_DEADLOCK FALSE
PROPERTY CallKeepsValues
