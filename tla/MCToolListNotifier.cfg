\* Two subscriptions, or one and a legacy session; the handshake and one change.
SPECIFICATION PairSpec
CONSTANTS
    Legacy = {l1}
    Subscriptions = {s1, s2}
    MaxDiscovery = 2
    Keys = {}
    Classes = {}
    Policies = {}
    Sizes = {}
    aggregate_max_bytes = 0
    USIZE_MAX = 0
    MAX_NOW = 0
INVARIANTS
    NoLostUpdate
    OwnReceiver
PROPERTIES
    EveryClientCatchesUp
CHECK_DEADLOCK FALSE
