SPECIFICATION Spec
CONSTANTS
    N = 5
    Threads = {t1, t2}
    Ops <- KiteOps
    Block <- KiteBlock
INVARIANT AllJoined
