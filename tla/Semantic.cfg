SPECIFICATION Spec
CONSTANT
    Menus <- TheMenus
CHECK_DEADLOCK FALSE
INVARIANTS
    TypeOK
    NoUseAfterFree
    NullAfterError
    ChecksExact
    CallsStayRight
