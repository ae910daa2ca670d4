SPECIFICATION FairSpec
CONSTANTS
    r = r
    a = a
    b = b
    c = c
    d = d
    e = e
    T = 1
    Problems = {r, a, b, c, d, e}
    Root = r
    Children <- Tree
    Direct <- TreeDirect
    Under <- TreeUnder
    LB <- TreeLB
    Value <- TreeValue
    Polished <- TreePolished
    Terms <- TreeTerms
    Key <- BoundSum
    Inf = 9
    MpiInf = 8
    NoProblem = NoProblem
INVARIANTS OptimumSafe BoundsAreCuts NoEarlyFinish
PROPERTY SearchEnds
