\* Ten builds of the extension and every capability state; arrangements of four tabs.
SPECIFICATION ContentsSpec
CONSTANTS
    Bytes <- MCBytes
    BlankNames = {""}
    BadMethods = {"Bad!"}
    Methods <- MCMethods
    INTERNAL_PROTOCOL_VERSION = 3
    PROTOCOL_ABI_REVISION = 1
    READ_DEADLINE_MS = 10
    MAX_IMPLEMENTATION_ENTRIES = 4
    Builds <- MCBuilds
    FactSets <- MCFactSets
    Errors <- MCErrors
    Budgets = {1, 11}
    MaxRevision = 2
    RequestIds = {"request 1", "request 2"}
    NoKey = ""
    TextContains <- MCContains
    DEFAULT_LIMIT = 2
    MAX_LIMIT = 3
    MAX_TARGET_TABS = 2
    MAX_QUERY_BYTES = 5
    MAX_CURSOR_RECORDS = 2
    MAX_BASELINE_BYTES = 100
    MAX_RESULT_BYTES = 20
    MAX_RETAINED_BYTES = 40
    browser_instance_id = "browser"
    Tabs = 4
    LooseTabs = 3
INVARIANTS
    PeersAgree
    MixedBuildsNeverReady
    PagesAreExact
CHECK_DEADLOCK FALSE
