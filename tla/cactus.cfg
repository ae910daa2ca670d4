SPECIFICATION DynamicSpec
CONSTANTS Graphs <- MCGraphs
 Streams <- MCStreams
 EdgeSelections = {"heavy", "random", "central", "heavy_weighted"}
 MaxCacheSize = 1
 HighDegree = 2
 MiddleDegree = 2
INVARIANTS NeverExits ExactlyTheMinimumCuts MostBalanced Canonical UpdatesAreExact
CHECK_DEADLOCK FALSE
