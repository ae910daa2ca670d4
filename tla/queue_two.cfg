SPECIFICATION FairSpec
CONSTANTS
    a = a
    b = b
    c = c
    T = 2
    Problems = {a, b, c}
    LB <- FallingLB
    Key <- OtherKey
    Inf = 9
    Bounds <- TwoBounds
    Calls = 1
    NoProblem = NoProblem
INVARIANTS SizesAgree
PROPERTY CallsReturn
