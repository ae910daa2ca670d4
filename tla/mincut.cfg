SPECIFICATION ParSpec
CONSTANTS
    t1 = t1
    t2 = t2
    Threads = {t1, t2}
    Graphs <- MCGraphs
    Programs <- MCPrograms
    Orders <- MCOrders
    SmallGraph = 3
    SmallSample = 2
SYMMETRY Swapped
INVARIANTS ReturnsACut EveryMinimumCut AnswersMinimum
PROPERTIES EveryRoundMerges MergesKeepMinimum
CHECK_DEADLOCK FALSE
