\* Three tasks under two keys, so that a key is used again, on two windows.
SPECIFICATION Spec
CONSTANTS
    Keys = {k1, k2}
    Windows = {w1, w2}
    LaneSets = {{browser}, {w1}, {w2}}
    Browser = browser
    NoTask = NoTask
    MAX_ADMITTED_BROWSER_OPERATIONS = 2
    MAX_SEQUENCE = 3
SYMMETRY Symmetry
INVARIANTS
    OverlapExclusion
    RunsAfterPredecessors
    StatusIsHonest
    OneLiveTaskPerKey
    ClosedMeansSettled
PROPERTIES
    ServedInOrder
CHECK_DEADLOCK FALSE
