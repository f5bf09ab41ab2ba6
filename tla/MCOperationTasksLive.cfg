\* Three tasks on one lane wait for one another.
SPECIFICATION Spec
CONSTANTS
    Keys = {k1, k2}
    Windows = {w1, w2}
    LaneSets = {{w1}}
    Browser = browser
    NoTask = NoTask
    MAX_ADMITTED_BROWSER_OPERATIONS = 2
    MAX_SEQUENCE = 3
PROPERTIES
    EveryTaskSettles
    ShutdownStopsBodies
CHECK_DEADLOCK FALSE
