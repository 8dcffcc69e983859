SPECIFICATION Spec
CONSTANT
    Menus <- AnnotatedMenus
CHECK_DEADLOCK FALSE
INVARIANT AnnotatedReported
