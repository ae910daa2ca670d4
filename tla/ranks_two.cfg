SPECIFICATION FairSpec
CONSTANTS
    r = r
    a = a
    b = b
    c = c
    d = d
    M = 2
    Problems = {r, a, b, c, d}
    Root = r
    Children <- Tree
    Direct = {d}
    Under <- TreeUnder
    LB <- TreeLB
    Value <- TreeValue
    Polished <- TreePolished
    Terms <- TreeTerms
    Inf = 9
    NoProblem = NoProblem
INVARIANTS StopsWhenEmpty ResultFound LightestElected
PROPERTY RanksEnd
