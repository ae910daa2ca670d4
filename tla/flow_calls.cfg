SPECIFICATION Spec
CONSTANTS
    Problems <- Calls
    Work = 51
CHECK_DEADLOCK FALSE
INVARIANTS Preflow Labelled ReturnsMinCut
PROPERTY FlowEnds
