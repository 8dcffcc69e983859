SPECIFICATION Spec
CONSTANTS
    v = v
    a = a
    t = t
    u = u
    Fixed = {v, a}
    Size <- SizeFun
    Temp = {t, u}
    Shapes <- ShapeSet
    NBlocks = 3
    FRAMESIZE = 3
    MaxDepth = 16
CHECK_DEADLOCK FALSE
INVARIANT SpAtTop
