SPECIFICATION Calls
CONSTANTS
    Starts <- Graphs
    Weights = {3}
    Nodes = {1, 2, 3, 4, 5, 6}
    Span = 1
    QueueStarts <- Filled
    QueueCalls = 4
CHECK_DEADLOCK FALSE
INVARIANTS Linked DegreesAgree Placed IndexAgrees
PROPERTIES IsContracted IsMaxQueue
