SPECIFICATION Spec
CONSTANTS
    a = a
    b = b
    c = c
    T = 1
    Problems = {a, b, c}
    LB <- FallingLB
    Key <- OtherKey
    Inf = 9
    Bounds <- TwoBounds
    Calls = 3
    NoProblem = NoProblem
INVARIANTS NothingLost NothingTwice NoNullProblem EmptyHanded
