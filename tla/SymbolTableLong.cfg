SPECIFICATION Spec
CONSTANTS
    a = a
    b = b
    c = c
    h1 = h1
    h2 = h2
    Name = {a, c}
    Long = {c}
    Bucket = {h1, h2}
    Hash <- HashFun
    Sym = {s1, s2}
    Env = {e1, e2}
    NULL = NULL
SYMMETRY Symmetry
INVARIANT DeclaredFound
