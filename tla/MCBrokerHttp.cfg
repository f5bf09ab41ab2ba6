\* The HTTP task ends while the handshake is under way.
SPECIFICATION Spec
CONSTANTS
    Requests = {r1, r2}
    Timed = {r1, r2}
    Ack = Ack
    MAX_TERMINAL_REQUESTS = 1
    MAX_PENDING_BROWSER_REQUESTS = 1
    NATIVE_QUEUE_CAPACITY = 1
    HTTP_MAY_STOP = TRUE
PROPERTIES
    NoDispatchAfterClear
