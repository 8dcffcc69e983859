SPECIFICATION Spec
CONSTANTS
    a = a
    b = b
    c = c
    h1 = h1
    h2 = h2
    Name = {a, b, c}
    Long = {}
    Bucket = {h1, h2}
    Hash <- HashFun
    Sym = {s1, s2, s3}
    Env = {e1, e2, e3}
    NULL = NULL
INVARIANTS
    TypeOK
    ChainsExact
    DeletesHead
    FindsInnermost
    NoDuplicates
    NothingLeft
PROPERTIES
    Returns
    Implements
