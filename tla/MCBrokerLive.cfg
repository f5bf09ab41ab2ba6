\* Two calls compete for one permit; the second can only wait.
SPECIFICATION LiveSpec
CONSTANTS
    Requests = {r1, r2}
    Timed = {r1}
    Ack = Ack
    MAX_TERMINAL_REQUESTS = 1
    MAX_PENDING_BROWSER_REQUESTS = 1
    NATIVE_QUEUE_CAPACITY = 1
    HTTP_MAY_STOP = TRUE
INVARIANTS
    RegisteredBounded
PROPERTIES
    EveryCallReturns
    ShutdownCompletes
