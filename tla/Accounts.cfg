SPECIFICATION Spec
CONSTANTS
    NoOne = NoOne
    k1 = k1
    k2 = k2
    t1 = t1
    Req = {r1, r2}
    Mixes <- MCMixes
    Key = {k1, k2}
    Author = k1
    Visitor <- MCVisitor
    Nonce = {n1, n2}
    Token = {t1, t2}
    Handle = {h1, h2}
    Slot = {d1, d2}
    Metered = {"challenge"}
    Max = 1
    Window = 1
    NonceTtl = 1
    Cap = 1
    MirrorCap = 3
    MaxEvent = 7
    End = 2
SYMMETRY Symmetry
CHECK_DEADLOCK FALSE
INVARIANTS
    TypeOK
    NonceOpensOne
    LimitBounded
    PostCapBounded
    NoGap
PROPERTIES
    ClaimsFinal
