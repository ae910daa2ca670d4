SPECIFICATION Spec
CONSTANTS
    Inputs <- All
    RandomFlows = 1
    HighDistanceFlows = 1
INVARIANTS KeepsOptimum BoundsHold
