\* Four keys in two classes; a reference size of 15 makes the first sum overflow.
SPECIFICATION RetentionSpec
CONSTANTS
    Keys = {k1, k2, k3, k4}
    Classes = {snapshot, plan}
    Policies <- MCPolicies
    Sizes = {1, 2, 3, 15}
    aggregate_max_bytes = 6
    USIZE_MAX = 15
    MAX_NOW = 2
    Legacy = {}
    Subscriptions = {}
    MaxDiscovery = 0
SYMMETRY Symmetry
INVARIANTS
    BooksBalance
PROPERTIES
    LeavesWhenItMust
CHECK_DEADLOCK FALSE
