\* Two calls at a time, again and again, over two models and two capability states.
SPECIFICATION Spec
CONSTANTS
    Callers = {c1, c2}
    Keys = {k1}
    Asks <- MCAsks
    BrowserCodes = {"TIMEOUT", "PROTOCOL_NOT_READY"}
    MAX_RETAINED_SNAPSHOTS = 1
    MaxRevision = 2
    MaxCapability = 2
    MaxIssued = 3
INVARIANTS
    ReferencesHold
PROPERTIES
    ResultsAgree
    RefusedOnlyIfOvertaken
SYMMETRY MCSymmetry
CHECK_DEADLOCK FALSE
