\* Two calls dispatched at the same time through a queue with room for one.
SPECIFICATION Spec
CONSTANTS
    Requests = {r1, r2}
    Timed = {r1, r2}
    Ack = Ack
    MAX_TERMINAL_REQUESTS = 1
    MAX_PENDING_BROWSER_REQUESTS = 2
    NATIVE_QUEUE_CAPACITY = 1
    HTTP_MAY_STOP = FALSE
SYMMETRY Symmetry
INVARIANTS
    LifecycleConsistent
    PhaseIsHonest
    UndispatchedNeverWritten
    AckWrittenFirst
    NoStrandedWaiter
PROPERTIES
    OnlyWaitedForIsDispatched
    NoDispatchAfterClear
    ImplementsService
