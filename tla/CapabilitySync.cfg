\* Two connections, three capability states, one snapshot, under fair scheduling.
SPECIFICATION FairSpec
CONSTANTS
    Requests = {r1}
    MaxPorts = 2
    MaxFacts = 3
INVARIANTS
    StatesInOrder
PROPERTIES
    EventuallyCurrent
    EventuallyAnswered
CHECK_DEADLOCK FALSE
