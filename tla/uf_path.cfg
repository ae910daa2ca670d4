SPECIFICATION FairSpec
CONSTANTS
    N = 6
    Threads = {t1, t2}
    Ops <- PathOps
    Block <- PathBlock
INVARIANTS TypeOK NoOvermerge AllJoined
PROPERTY LoopEnds
