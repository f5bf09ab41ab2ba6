------------------------------- MODULE Broker -------------------------------
(***************************************************************************)
(* The native broker (native/src/broker.rs): request handles called by MCP  *)
(* sessions, the Native Messaging writer and reader, and the shutdown       *)
(* sequence of run().  They share the lifecycle table of RequestLifecycle,  *)
(* the bounded writer queue, the ready flag and the in_flight semaphore.    *)
(*                                                                         *)
(* One action is the code between two points at which another task can      *)
(* observe or change what it uses.  The extension is an environment that    *)
(* sends ready once and answers each frame at most once, in any order.      *)
(***************************************************************************)
EXTENDS RequestLifecycle

CONSTANTS MAX_PENDING_BROWSER_REQUESTS,  \* permits of in_flight
          NATIVE_QUEUE_CAPACITY,         \* mpsc::channel bound of native_tx
          HTTP_MAY_STOP,                 \* whether the HTTP task may end by itself
          Ack                            \* the ready_ack message in the queue

NoMessage == "NoMessage"

ASSUME BrokerAssumption ==
    /\ MAX_PENDING_BROWSER_REQUESTS \in Nat \ {0}
    /\ NATIVE_QUEUE_CAPACITY \in Nat \ {0}
    /\ HTTP_MAY_STOP \in BOOLEAN
    /\ Ack \notin Requests
    /\ NoMessage \notin Requests \cup {Ack}

VARIABLES
    pc,              \* where each call of request() stands
    clock,           \* the call's deadline: "ample", "lastSecond" or "passed"
    written,         \* the oneshot channel carrying WriterOutcome
    result,          \* what the call returned
    queue,           \* native_tx / native_rx
    writer,          \* [at, msg]: step of native_writer and the message it holds
    reader,          \* [at, msg]: step of native_reader and the request it holds
    ready,           \* the ready flag
    connected,       \* runtime.connect has run and runtime.clear has not
    permitsClosed,   \* in_flight.close() has run
    main,            \* step of run()
    http,            \* the HTTP task: "serving", "stopped" (by itself), "drained"
    wire,            \* each request frame: "none", "written", "answered"
    ackWritten,      \* the ready_ack frame has been written
    readySent        \* the extension has sent its ready message

handleVars == <<pc, clock, written, result>>
sharedVars == <<ready, connected, permitsClosed>>
peerVars   == <<wire, ackWritten, readySent>>
vars == <<lifecycle, handleVars, queue, writer, reader, sharedVars, main, http, peerVars>>

Messages == Requests \cup {Ack}
CallSteps == {"idle", "permit", "recheck", "register", "enqueue", "await",
              "awaitResponse", "timedOut", "dropPermit", "dropGuard",
              "abandonGuard", "abandonPermit", "done"}
WriterSteps == {"recv", "checkReady", "checkBudget", "claim", "write", "mark",
                "ack", "stopped"}
ReaderSteps == {"read", "deliver", "queueAck", "setReady", "connect", "stopped"}
\* The steps of run(), in the order they are taken.
MainSteps == {"select", "notReady", "closePermits", "clearRuntime", "clearLifecycle",
              "stopReader", "awaitHttp", "awaitWriter", "exited"}
Outcomes == {"none", "reply", "unavailable", "cancelled", "deadline", "abandoned"}

TypeOK ==
    /\ LifecycleTypeOK
    /\ pc \in [Requests -> CallSteps]
    /\ clock \in [Requests -> {"ample", "lastSecond", "passed"}]
    /\ written \in [Requests -> {"unborn", "open", "Dispatched", "Cancelled",
                                 "Expired", "closed"}]
    /\ result \in [Requests -> Outcomes]
    /\ queue \in Seq(Messages)
    /\ writer \in [at : WriterSteps, msg : Messages \cup {NoMessage}]
    /\ reader \in [at : ReaderSteps, msg : Requests \cup {NoMessage}]
    /\ ready \in BOOLEAN
    /\ connected \in BOOLEAN
    /\ permitsClosed \in BOOLEAN
    /\ main \in MainSteps
    /\ http \in {"serving", "stopped", "drained"}
    /\ wire \in [Requests -> {"none", "written", "answered"}]
    /\ ackWritten \in BOOLEAN
    /\ readySent \in BOOLEAN

Init ==
    /\ LifecycleInit
    /\ pc = [r \in Requests |-> "idle"]
    /\ clock = [r \in Requests |-> "ample"]
    /\ written = [r \in Requests |-> "unborn"]
    /\ result = [r \in Requests |-> "none"]
    /\ queue = <<>>
    /\ writer = [at |-> "recv", msg |-> NoMessage]
    /\ reader = [at |-> "read", msg |-> NoMessage]
    /\ ready = FALSE
    /\ connected = FALSE
    /\ permitsClosed = FALSE
    /\ main = "select"
    /\ http = "serving"
    /\ wire = [r \in Requests |-> "none"]
    /\ ackWritten = FALSE
    /\ readySent = FALSE

-----------------------------------------------------------------------------
\* Nothing runs after run() has returned: the process is gone.
Alive == main # "exited"

-----------------------------------------------------------------------------
(* Plausible bugs, used only to show that the properties tell them apart    *)
(* from the code.                                                           *)

\* The timeout wraps the select only, not the send to the queue.
SelectNotReady(r) ==
    \/ pc[r] = "await" /\ response[r] = "open" /\ written[r] = "open"
    \/ pc[r] = "awaitResponse" /\ response[r] = "open"

\* The send to the queue does not notice that the receiver is gone.
EnqueueIgnoringClose(r) ==
    /\ Alive /\ pc[r] = "enqueue"
    /\ writer.at # "stopped" /\ Len(queue) < NATIVE_QUEUE_CAPACITY
    /\ queue' = Append(queue, r)
    /\ pc' = [pc EXCEPT ![r] = "await"]
    /\ UNCHANGED <<lifecycle, clock, written, result, writer, reader, sharedVars, main, http, peerVars>>

\* Every return disarms the guard, not only timed_out.
DropGuardDisarmed(r) ==
    /\ Alive /\ pc[r] = "dropGuard"
    /\ pc' = [pc EXCEPT ![r] = "done"]
    /\ UNCHANGED <<lifecycle, clock, written, result, queue, writer, reader, sharedVars, main, http, peerVars>>

\* A dropped future leaves its record in the table.
AbandonGuardDisarmed(r) ==
    /\ Alive /\ pc[r] = "abandonGuard"
    /\ pc' = [pc EXCEPT ![r] = "abandonPermit"]
    /\ UNCHANGED <<lifecycle, clock, written, result, queue, writer, reader, sharedVars, main, http, peerVars>>

\* The writer reports Cancelled but misses the `continue`.
WriterClaimFallsThrough ==
    /\ Alive /\ writer.at = "claim"
    /\ writer' = [writer EXCEPT !.at = "write"]
    /\ IF Claimable(writer.msg)
       THEN BeginDispatch(writer.msg) /\ UNCHANGED written
       ELSE written' = [written EXCEPT ![writer.msg] = "Cancelled"] /\ UNCHANGED lifecycle
    /\ UNCHANGED <<pc, clock, result, queue, reader, sharedVars, main, http, peerVars>>

\* ready is stored before the acknowledgement is queued.
ReaderReadyEarly ==
    /\ Alive /\ reader.at = "read"
    /\ ~readySent
    /\ readySent' = TRUE
    /\ reader' = [reader EXCEPT !.at = IF ready THEN "stopped" ELSE "queueAck"]
    /\ ready' = TRUE
    /\ UNCHANGED <<lifecycle, handleVars, queue, writer, connected, permitsClosed, main, http, wire, ackWritten>>

\* Shutdown forgets to take ready back.
MainStillReady ==
    /\ main = "notReady"
    /\ main' = "closePermits"
    /\ UNCHANGED <<lifecycle, handleVars, queue, writer, reader, sharedVars, http, peerVars>>

-----------------------------------------------------------------------------
(* BrowserRequestHandle::request.                                           *)

GoTo(r, step) == pc' = [pc EXCEPT ![r] = step]

\* The call takes its result and continues at step.
Conclude(r, outcome, step) ==
    /\ result' = [result EXCEPT ![r] = outcome]
    /\ GoTo(r, step)

\* The permit is the local variable `permit`: held from acquire to drop.
HoldsPermit(r) == pc[r] \in {"recheck", "register", "enqueue", "await", "awaitResponse",
                             "timedOut", "dropPermit", "abandonGuard", "abandonPermit"}
Permits == {r \in Requests : HoldsPermit(r)}
PermitFree == Cardinality(Permits) < MAX_PENDING_BROWSER_REQUESTS

\* native_rx is dropped with the writer task.
ReceiverAlive == writer.at # "stopped"
QueueHasRoom == Len(queue) < NATIVE_QUEUE_CAPACITY

\* First load of ready.  A call that passes it has its deadline.
Call(r) ==
    /\ Alive /\ pc[r] = "idle"
    /\ http # "drained"
    /\ IF ready THEN GoTo(r, "permit") /\ UNCHANGED result
                ELSE Conclude(r, "unavailable", "done")
    /\ UNCHANGED <<lifecycle, clock, written, queue, writer, reader, sharedVars, main, http, peerVars>>

AcquirePermit(r) ==
    /\ Alive /\ pc[r] = "permit"
    /\ IF permitsClosed
       THEN Conclude(r, "unavailable", "done")
       ELSE PermitFree /\ GoTo(r, "recheck") /\ UNCHANGED result
    /\ UNCHANGED <<lifecycle, clock, written, queue, writer, reader, sharedVars, main, http, peerVars>>

\* timeout_at polls the acquisition first.
PermitTimeout(r) ==
    /\ Alive /\ pc[r] = "permit"
    /\ clock[r] = "passed"
    /\ ~permitsClosed /\ ~PermitFree
    /\ Conclude(r, "unavailable", "done")
    /\ UNCHANGED <<lifecycle, clock, written, queue, writer, reader, sharedVars, main, http, peerVars>>

\* Second load of ready, with the permit held.
RecheckReady(r) ==
    /\ Alive /\ pc[r] = "recheck"
    /\ IF ready THEN GoTo(r, "register") /\ UNCHANGED result
                ELSE Conclude(r, "unavailable", "done")
    /\ UNCHANGED <<lifecycle, clock, written, queue, writer, reader, sharedVars, main, http, peerVars>>

\* Budget check, preflight serialization and registration.  Nobody else reads
\* the call's clock before it is registered.
RegisterCall(r) ==
    /\ Alive /\ pc[r] = "register"
    /\ IF clock[r] = "ample"
       THEN /\ Register(r)
            /\ written' = [written EXCEPT ![r] = "open"]
            /\ GoTo(r, "enqueue")
            /\ UNCHANGED result
       ELSE /\ Conclude(r, "unavailable", "done")
            /\ UNCHANGED <<lifecycle, written>>
    /\ UNCHANGED <<clock, queue, writer, reader, sharedVars, main, http, peerVars>>

\* native_tx.send waits for room and fails once the receiver is gone; the
\* failed message takes its written sender with it.
Enqueue(r) ==
    /\ Alive /\ pc[r] = "enqueue"
    /\ IF ReceiverAlive
       THEN /\ QueueHasRoom
            /\ queue' = Append(queue, r)
            /\ GoTo(r, "await")
            /\ UNCHANGED <<written, result>>
       ELSE /\ Conclude(r, "unavailable", "dropPermit")
            /\ written' = [written EXCEPT ![r] = "closed"]
            /\ UNCHANGED queue
    /\ UNCHANGED <<lifecycle, clock, writer, reader, sharedVars, main, http, peerVars>>

Resolved(r) == response[r] \in {"sent", "closed"}
Reported(r) == written[r] \in {"Dispatched", "Cancelled", "Expired", "closed"}

\* The value a resolved response channel gives the call.
ResponseOutcome(r) == IF response[r] = "sent" THEN "reply" ELSE "unavailable"

\* The biased select looks at the response first, then at the writer's report.
AwaitEither(r) ==
    /\ Alive /\ pc[r] = "await"
    /\ \/ /\ Resolved(r)
          /\ Conclude(r, ResponseOutcome(r), "dropPermit")
       \/ /\ ~Resolved(r)
          /\ \/ /\ written[r] = "Dispatched"
                /\ GoTo(r, "awaitResponse")
                /\ UNCHANGED result
             \/ /\ written[r] = "Cancelled"
                /\ Conclude(r, "cancelled", "dropPermit")
             \/ /\ written[r] = "Expired"
                /\ Conclude(r, "deadline", "timedOut")
             \/ /\ written[r] = "closed"
                /\ Conclude(r, "unavailable", "dropPermit")
    /\ UNCHANGED <<lifecycle, clock, written, queue, writer, reader, sharedVars, main, http, peerVars>>

AwaitResponse(r) ==
    /\ Alive /\ pc[r] = "awaitResponse"
    /\ Resolved(r)
    /\ Conclude(r, ResponseOutcome(r), "dropPermit")
    /\ UNCHANGED <<lifecycle, clock, written, queue, writer, reader, sharedVars, main, http, peerVars>>

\* timeout_at gives up only when the future it polls first is not ready.
WaitNotReady(r) ==
    \/ pc[r] = "enqueue" /\ ReceiverAlive /\ ~QueueHasRoom
    \/ pc[r] = "await" /\ ~Resolved(r) /\ ~Reported(r)
    \/ pc[r] = "awaitResponse" /\ ~Resolved(r)

Elapse(r) ==
    /\ Alive /\ WaitNotReady(r)
    /\ clock[r] = "passed"
    /\ Conclude(r, "deadline", "timedOut")
    /\ UNCHANGED <<lifecycle, clock, written, queue, writer, reader, sharedVars, main, http, peerVars>>

\* waiter_guard.timed_out(); from here the guard is disarmed, which is to say
\* that it is armed exactly when the result is not "deadline".
TimedOut(r) ==
    /\ Alive /\ pc[r] = "timedOut"
    /\ Finish(r, "TimedOut")
    /\ GoTo(r, "dropPermit")
    /\ UNCHANGED <<clock, written, result, queue, writer, reader, sharedVars, main, http, peerVars>>

\* drop(permit) comes before the guard, which is dropped at the function's end.
DropPermit(r) ==
    /\ Alive /\ pc[r] = "dropPermit"
    /\ GoTo(r, "dropGuard")
    /\ UNCHANGED <<lifecycle, clock, written, result, queue, writer, reader, sharedVars, main, http, peerVars>>

DropGuard(r) ==
    /\ Alive /\ pc[r] = "dropGuard"
    /\ IF result[r] = "deadline" THEN UNCHANGED lifecycle ELSE Finish(r, "AbandonedWaiter")
    /\ GoTo(r, "done")
    /\ UNCHANGED <<clock, written, result, queue, writer, reader, sharedVars, main, http, peerVars>>

\* The caller's future is dropped at an await: its locals go in reverse order,
\* the guard before the permit.
Abandon(r) ==
    /\ Alive /\ pc[r] \in {"permit", "enqueue", "await", "awaitResponse"}
    /\ Conclude(r, "abandoned", IF pc[r] = "permit" THEN "done" ELSE "abandonGuard")
    /\ UNCHANGED <<lifecycle, clock, written, queue, writer, reader, sharedVars, main, http, peerVars>>

AbandonGuard(r) ==
    /\ Alive /\ pc[r] = "abandonGuard"
    /\ Finish(r, "AbandonedWaiter")
    /\ GoTo(r, "abandonPermit")
    /\ UNCHANGED <<clock, written, result, queue, writer, reader, sharedVars, main, http, peerVars>>

AbandonPermit(r) ==
    /\ Alive /\ pc[r] = "abandonPermit"
    /\ GoTo(r, "done")
    /\ UNCHANGED <<lifecycle, clock, written, result, queue, writer, reader, sharedVars, main, http, peerVars>>

\* Time passes for a call whose deadline somebody may still read.
DeadlineMatters(r) ==
    \/ pc[r] \in {"permit", "recheck", "register", "enqueue", "await", "awaitResponse"}
    \/ \E i \in 1..Len(queue) : queue[i] = r
    \/ writer = [at |-> "checkReady", msg |-> r]
    \/ writer = [at |-> "checkBudget", msg |-> r]

Tick(r) ==
    /\ Alive /\ DeadlineMatters(r)
    /\ clock[r] # "passed"
    /\ clock' = [clock EXCEPT ![r] = IF @ = "ample" THEN "lastSecond" ELSE "passed"]
    /\ UNCHANGED <<lifecycle, pc, written, result, queue, writer, reader, sharedVars, main, http, peerVars>>

-----------------------------------------------------------------------------
(* native_writer.                                                           *)

Idle == [at |-> "recv", msg |-> NoMessage]
InQueue(r) == \E i \in 1..Len(queue) : queue[i] = r

\* All clones of native_tx: run()'s own, the reader's and the handles'.
SendersGone ==
    /\ main \in {"awaitHttp", "awaitWriter"}
    /\ reader.at = "stopped"
    /\ http = "drained"

WriterRecv ==
    /\ Alive /\ writer.at = "recv"
    /\ \/ /\ queue # <<>>
          /\ queue' = Tail(queue)
          /\ writer' = [at |-> IF Head(queue) = Ack THEN "write" ELSE "checkReady",
                        msg |-> Head(queue)]
       \/ /\ queue = <<>> /\ SendersGone
          /\ writer' = [at |-> "stopped", msg |-> NoMessage]
          /\ UNCHANGED queue
    /\ UNCHANGED <<lifecycle, handleVars, reader, sharedVars, main, http, peerVars>>

\* Reports why the dequeued request is skipped and takes the next message.
Skip(outcome) ==
    /\ written' = [written EXCEPT ![writer.msg] = outcome]
    /\ writer' = Idle

WriterCheckReady ==
    /\ Alive /\ writer.at = "checkReady"
    /\ IF ready THEN writer' = [writer EXCEPT !.at = "checkBudget"] /\ UNCHANGED written
                ELSE Skip("Cancelled")
    /\ UNCHANGED <<lifecycle, pc, clock, result, queue, reader, sharedVars, main, http, peerVars>>

\* One second is kept back from the deadline for the answer's way back.
WriterCheckBudget ==
    /\ Alive /\ writer.at = "checkBudget"
    /\ IF clock[writer.msg] = "ample"
       THEN writer' = [writer EXCEPT !.at = "claim"] /\ UNCHANGED written
       ELSE Skip("Expired")
    /\ UNCHANGED <<lifecycle, pc, clock, result, queue, reader, sharedVars, main, http, peerVars>>

WriterClaim ==
    /\ Alive /\ writer.at = "claim"
    /\ IF Claimable(writer.msg)
       THEN /\ BeginDispatch(writer.msg)
            /\ writer' = [writer EXCEPT !.at = "write"]
            /\ UNCHANGED written
       ELSE /\ Skip("Cancelled")
            /\ UNCHANGED lifecycle
    /\ UNCHANGED <<pc, clock, result, queue, reader, sharedVars, main, http, peerVars>>

\* The frame reaches the extension.
PutOnWire(m) ==
    IF m = Ack THEN ackWritten' = TRUE /\ UNCHANGED wire
               ELSE wire' = [wire EXCEPT ![m] = "written"] /\ UNCHANGED ackWritten

\* write_all and flush; the extension may answer before flush returns.
WriterWrite ==
    /\ Alive /\ writer.at = "write"
    /\ PutOnWire(writer.msg)
    /\ writer' = IF writer.msg = Ack THEN Idle ELSE [writer EXCEPT !.at = "mark"]
    /\ UNCHANGED <<lifecycle, handleVars, queue, reader, sharedVars, main, http, readySent>>

\* The write fails, before or after the whole frame went out.  The task ends
\* and drops the queue with the written senders in it, and its own.
WriterFail ==
    /\ Alive /\ writer.at = "write"
    /\ PutOnWire(writer.msg) \/ UNCHANGED <<wire, ackWritten>>
    /\ writer' = [at |-> "stopped", msg |-> NoMessage]
    /\ queue' = <<>>
    /\ written' = [r \in Requests |->
                     IF r = writer.msg \/ InQueue(r) THEN "closed" ELSE written[r]]
    /\ UNCHANGED <<lifecycle, pc, clock, result, reader, sharedVars, main, http, readySent>>

WriterMark ==
    /\ Alive /\ writer.at = "mark"
    /\ MarkDispatched(writer.msg)
    /\ writer' = [writer EXCEPT !.at = "ack"]
    /\ UNCHANGED <<handleVars, queue, reader, sharedVars, main, http, peerVars>>

WriterAck ==
    /\ Alive /\ writer.at = "ack"
    /\ Skip("Dispatched")
    /\ UNCHANGED <<lifecycle, pc, clock, result, queue, reader, sharedVars, main, http, peerVars>>

-----------------------------------------------------------------------------
(* native_reader.                                                           *)

ReaderAt(step) == reader' = [reader EXCEPT !.at = step]

\* End of input, a read error or a message the broker refuses.
ReaderEnd ==
    /\ Alive /\ reader.at = "read"
    /\ ReaderAt("stopped")
    /\ UNCHANGED <<lifecycle, handleVars, queue, writer, sharedVars, main, http, peerVars>>

\* A response: the identity check, then take_response.
ReaderTake(r) ==
    /\ Alive /\ reader.at = "read"
    /\ wire[r] = "written"
    /\ wire' = [wire EXCEPT ![r] = "answered"]
    /\ IF connected
       THEN /\ TakeResponse(r)
            /\ reader' = IF active[r] # Absent THEN [at |-> "deliver", msg |-> r] ELSE reader
       ELSE /\ ReaderAt("stopped")
            /\ UNCHANGED lifecycle
    /\ UNCHANGED <<handleVars, queue, writer, sharedVars, main, http, ackWritten, readySent>>

\* validate_for_method, then waiter.send; a failed validation ends the reader
\* and drops the sender.
ReaderDeliver ==
    /\ Alive /\ reader.at = "deliver"
    /\ \E valid \in BOOLEAN :
         /\ response' = [response EXCEPT ![reader.msg] = IF valid THEN "sent" ELSE "closed"]
         /\ reader' = [at |-> IF valid THEN "read" ELSE "stopped", msg |-> NoMessage]
    /\ UNCHANGED <<active, terminal, terminal_order, handleVars, queue, writer,
                   sharedVars, main, http, peerVars>>

\* The extension's ready; a second one would end the reader.
ReaderReady ==
    /\ Alive /\ reader.at = "read"
    /\ ~readySent
    /\ readySent' = TRUE
    /\ ReaderAt(IF ready THEN "stopped" ELSE "queueAck")
    /\ UNCHANGED <<lifecycle, handleVars, queue, writer, sharedVars, main, http, wire, ackWritten>>

ReaderQueueAck ==
    /\ Alive /\ reader.at = "queueAck"
    /\ IF ReceiverAlive
       THEN /\ QueueHasRoom
            /\ queue' = Append(queue, Ack)
            /\ ReaderAt("setReady")
       ELSE /\ ReaderAt("stopped")
            /\ UNCHANGED queue
    /\ UNCHANGED <<lifecycle, handleVars, writer, sharedVars, main, http, peerVars>>

ReaderSetReady ==
    /\ Alive /\ reader.at = "setReady"
    /\ ready' = TRUE
    /\ ReaderAt("connect")
    /\ UNCHANGED <<lifecycle, handleVars, queue, writer, connected, permitsClosed, main, http, peerVars>>

ReaderConnect ==
    /\ Alive /\ reader.at = "connect"
    /\ connected' = TRUE
    /\ ReaderAt("read")
    /\ UNCHANGED <<lifecycle, handleVars, queue, writer, ready, permitsClosed, main, http, peerVars>>

-----------------------------------------------------------------------------
(* run(): the shutdown sequence.                                            *)

\* One of the three tasks has ended; cancellation.cancel() is the same step.
MainWake ==
    /\ main = "select"
    /\ reader.at = "stopped" \/ writer.at = "stopped" \/ http = "stopped"
    /\ main' = "notReady"
    /\ UNCHANGED <<lifecycle, handleVars, queue, writer, reader, sharedVars, http, peerVars>>

MainNotReady ==
    /\ main = "notReady"
    /\ ready' = FALSE
    /\ main' = "closePermits"
    /\ UNCHANGED <<lifecycle, handleVars, queue, writer, reader, connected, permitsClosed, http, peerVars>>

MainClosePermits ==
    /\ main = "closePermits"
    /\ permitsClosed' = TRUE
    /\ main' = "clearRuntime"
    /\ UNCHANGED <<lifecycle, handleVars, queue, writer, reader, ready, connected, http, peerVars>>

MainClearRuntime ==
    /\ main = "clearRuntime"
    /\ connected' = FALSE
    /\ main' = "clearLifecycle"
    /\ UNCHANGED <<lifecycle, handleVars, queue, writer, reader, ready, permitsClosed, http, peerVars>>

MainClearLifecycle ==
    /\ main = "clearLifecycle"
    /\ Clear
    /\ main' = "stopReader"
    /\ UNCHANGED <<handleVars, queue, writer, reader, sharedVars, http, peerVars>>

\* drop(native_tx), then reader.abort(), which takes effect at an await.
MainStopReader ==
    /\ main = "stopReader"
    /\ reader.at \in {"read", "queueAck", "stopped"}
    /\ ReaderAt("stopped")
    /\ main' = "awaitHttp"
    /\ UNCHANGED <<lifecycle, handleVars, queue, writer, sharedVars, http, peerVars>>

MainAwaitHttp ==
    /\ main = "awaitHttp"
    /\ http # "serving"
    /\ main' = "awaitWriter"
    /\ UNCHANGED <<lifecycle, handleVars, queue, writer, reader, sharedVars, http, peerVars>>

MainAwaitWriter ==
    /\ main = "awaitWriter"
    /\ writer.at = "stopped"
    /\ main' = "exited"
    /\ UNCHANGED <<lifecycle, handleVars, queue, writer, reader, sharedVars, http, peerVars>>

\* The five seconds of graceful_shutdown are over: the tasks are aborted.
ShutdownTimeout ==
    /\ main \in {"awaitHttp", "awaitWriter"}
    /\ main' = "exited"
    /\ UNCHANGED <<lifecycle, handleVars, queue, writer, reader, sharedVars, http, peerVars>>

\* The HTTP task ends although nobody cancelled it; connection tasks live on.
HttpStop ==
    /\ HTTP_MAY_STOP
    /\ main = "select" /\ http = "serving"
    /\ http' = "stopped"
    /\ UNCHANGED <<lifecycle, handleVars, queue, writer, reader, sharedVars, main, peerVars>>

\* After cancellation the sessions end once their calls have, and drop their
\* BrowserRequestHandles.
HttpDrain ==
    /\ Alive /\ main # "select" /\ http # "drained"
    /\ \A r \in Requests : pc[r] \in {"idle", "done"}
    /\ http' = "drained"
    /\ UNCHANGED <<lifecycle, handleVars, queue, writer, reader, sharedVars, main, peerVars>>
-----------------------------------------------------------------------------
\* The steps a call takes by itself once made.
CallStep(r) ==
    \/ AcquirePermit(r) \/ PermitTimeout(r) \/ RecheckReady(r) \/ RegisterCall(r)
    \/ Enqueue(r) \/ AwaitEither(r) \/ AwaitResponse(r) \/ Elapse(r) \/ TimedOut(r)
    \/ DropPermit(r) \/ DropGuard(r) \/ AbandonGuard(r) \/ AbandonPermit(r)

WriterStep ==
    \/ WriterRecv \/ WriterCheckReady \/ WriterCheckBudget \/ WriterClaim
    \/ WriterWrite \/ WriterFail \/ WriterMark \/ WriterAck

\* What the reader does with a message it has read.
ReaderStep == ReaderDeliver \/ ReaderQueueAck \/ ReaderSetReady \/ ReaderConnect

ReaderInput == ReaderEnd \/ ReaderReady \/ \E r \in Requests : ReaderTake(r)

MainStep ==
    \/ MainWake \/ MainNotReady \/ MainClosePermits \/ MainClearRuntime
    \/ MainClearLifecycle \/ MainStopReader \/ MainAwaitHttp \/ MainAwaitWriter

Exited == ~Alive /\ UNCHANGED vars

Next ==
    \/ \E r \in Requests : Call(r) \/ CallStep(r) \/ Abandon(r) \/ Tick(r)
    \/ WriterStep \/ ReaderStep \/ ReaderInput
    \/ MainStep \/ ShutdownTimeout \/ HttpStop \/ HttpDrain
    \/ Exited

Spec == Init /\ [][Next]_vars

\* A call and its clock go on.
CallGoesOn(r) == WF_vars(CallStep(r) \/ Tick(r))

\* An executor runs what can run, and a write to Chrome succeeds or fails.
BrokerGoesOn ==
    /\ \A r \in Requests : WF_vars(CallStep(r))
    /\ WF_vars(WriterStep)
    /\ WF_vars(ReaderStep)
    /\ WF_vars(MainStep)
    /\ WF_vars(HttpDrain)
-----------------------------------------------------------------------------
(* Safety.                                                                  *)

PhaseOf(r) == IF active[r] # Absent THEN active[r] ELSE terminal[r].phase

\* The phase a record keeps tells the truth about the frame, also after its
\* waiter left and while the extension's answer overtakes mark_dispatched:
\* a Queued record was never written, a Dispatched one was, and Dispatching is
\* the one frame the writer is working on (request_lifecycle.rs:74-103).
PhaseIsHonest ==
    \A r \in Requests :
        /\ PhaseOf(r) = "Queued" => wire[r] = "none"
        /\ PhaseOf(r) = "Dispatched" => wire[r] # "none"
        /\ PhaseOf(r) = "Dispatching" /\ writer.at # "stopped"
             => writer.at \in {"write", "mark"} /\ writer.msg = r

\* A call told that its request was cancelled before dispatch, or skipped for
\* its deadline, never had its frame written, then or later
\* (WriterOutcome::Cancelled and Expired, broker.rs:365-387).
UndispatchedNeverWritten ==
    \A r \in Requests : written[r] \in {"Cancelled", "Expired"} => wire[r] = "none"

\* No request frame leaves before the ready_ack frame: the extension answers
\* requests before its ready_ack with PROTOCOL_NOT_READY
\* (broker.rs:330-337 queues the ack, then sets ready).
AckWrittenFirst == (\E r \in Requests : wire[r] # "none") => ackWritten

\* The steps of run() after lifecycle.clear().
AfterClear == {"stopReader", "awaitHttp", "awaitWriter", "exited"}

\* Whoever waits for a response without a writer's report to come has a sender
\* that somebody will still use or drop: the reader that took it, or the table
\* that shutdown has yet to clear (broker.rs:506-530 and 202-205).
NoStrandedWaiter ==
    \A r \in Requests :
        pc[r] = "awaitResponse" /\ ~Resolved(r) =>
            \/ reader = [at |-> "deliver", msg |-> r]
            \/ active[r] # Absent /\ main \notin AfterClear

\* The table holds at most one record per permit, but for the calls that have
\* given their permit back and not yet dropped the guard (broker.rs:543-545).
RegisteredBounded ==
    Cardinality(ActiveIds)
        <= MAX_PENDING_BROWSER_REQUESTS + Cardinality({r \in Requests : pc[r] = "dropGuard"})

-----------------------------------------------------------------------------
(* Action properties.                                                       *)

Claims(r) == active[r] = "Queued" /\ active'[r] = "Dispatching"
FrameLeaves(r) == wire[r] = "none" /\ wire'[r] = "written"

\* A queued frame is never claimed or written for a waiter that has left: the
\* commitment needs a call that still owns its guard, and a frame leaves only
\* after its commitment (docs/architecture/failure-modes.md:39).
OnlyWaitedForIsDispatched ==
    [][\A r \in Requests :
         /\ writer'.at = "write" /\ writer.at # "write" /\ writer'.msg = r
              => pc[r] \notin {"abandonPermit", "done"}
         /\ FrameLeaves(r) => writer = [at |-> "write", msg |-> r]]_vars

\* Once shutdown has cleared the table, no request is committed any more,
\* however late it was registered (broker.rs:201-206, 365-368).
NoDispatchAfterClear ==
    [][\A r \in Requests : Claims(r) => main \notin AfterClear]_vars

-----------------------------------------------------------------------------
(* The broker implements RequestService.                                    *)

\* A call has returned, or its future is gone, once its guard is dropped.
CallSeen(r) ==
    IF pc[r] = "idle" THEN "idle"
    ELSE IF pc[r] \notin {"done", "abandonPermit"} THEN "pending"
    ELSE IF result[r] \in {"reply", "cancelled"} THEN result[r] ELSE "failed"

FrameSeen(r) ==
    IF wire[r] = "none" /\ writer = [at |-> "write", msg |-> r] THEN "committed" ELSE wire[r]

Service == INSTANCE RequestService WITH
    call  <- [r \in Requests |-> CallSeen(r)],
    frame <- [r \in Requests |-> FrameSeen(r)],
    open  <- main \notin AfterClear

\* Each request is committed at most once, for a caller still waiting and
\* before shutdown releases the callers; a reply is the extension's answer and
\* "cancelled" means that nothing was sent (broker.rs:430-545).
ImplementsService == Service!Spec

-----------------------------------------------------------------------------
(* Liveness.                                                                *)

\* One deadline covers the whole call: whatever the writer, the reader, the
\* extension, run() and the other calls do or fail to do, a call that goes on
\* returns (broker.rs:441-453, 533-542).
InFlight(r) == pc[r] \notin {"idle", "done"}
EveryCallReturns ==
    \A r \in Requests : CallGoesOn(r) => (InFlight(r) ~> (~InFlight(r) \/ ~Alive))

\* Once a task has ended the process exits, and every call has returned by
\* then, though no deadline has passed and the five-second limit need not
\* expire (docs/architecture/process-and-transport.md:156-160).  If the HTTP
\* task ends by itself this is not so: see NoDispatchAfterClear.
ShutdownCompletes ==
    BrokerGoesOn /\ [](http # "stopped" /\ \A r \in Requests : clock[r] # "passed")
        => (main = "notReady" ~> main = "exited")

-----------------------------------------------------------------------------
(* What the safety properties rest on: an inductive invariant.              *)

\* The tasks hold a message exactly when they work on one.
TasksHold ==
    /\ writer.at \in {"recv", "stopped"} => writer.msg = NoMessage
    /\ writer.at \notin {"recv", "stopped", "write"} => writer.msg \in Requests
    /\ writer.at = "write" => writer.msg \in Messages
    /\ reader.at = "deliver" => reader.msg \in Requests

\* A call has a record from registration to the guard's drop at most; timed_out
\* removes it early and disarms the guard.
RecordIsGuarded ==
    \A r \in Requests :
        \/ pc[r] \in {"idle", "permit", "recheck", "register", "abandonPermit", "done"}
        \/ pc[r] \in {"dropPermit", "dropGuard"} /\ result[r] = "deadline"
        => active[r] = Absent

NotSubmitted == {"idle", "permit", "recheck", "register", "enqueue"}

\* A request is submitted once: it is ahead of the queue, in it, or taken from it.
SubmittedOnce ==
    /\ \A r \in Requests : pc[r] \in NotSubmitted => ~InQueue(r) /\ writer.msg # r
    /\ \A r \in Requests : InQueue(r) => writer.msg # r
    /\ \A i, j \in 1..Len(queue) : queue[i] = queue[j] /\ queue[i] # Ack => i = j

Unsent(r) == wire[r] = "none" /\ written[r] = "open" /\ PhaseOf(r) \in {"Queued", Absent}

\* Until it is claimed a request is not dispatched and nothing is said of it.
UnsentUntilClaimed ==
    \A r \in Requests :
        /\ pc[r] \in NotSubmitted \ {"enqueue"} => wire[r] = "none" /\ PhaseOf(r) = Absent
        /\ pc[r] = "enqueue" \/ InQueue(r) => Unsent(r)
        /\ writer.msg = r /\ writer.at \in {"checkReady", "checkBudget", "claim"} => Unsent(r)

\* What is true of the request the writer has claimed; its record may be gone.
ClaimedIsTracked ==
    \A r \in Requests :
        writer.msg = r =>
            /\ writer.at = "write" =>
                 wire[r] = "none" /\ written[r] = "open" /\ PhaseOf(r) \in {"Dispatching", Absent}
            /\ writer.at = "mark" => wire[r] # "none" /\ PhaseOf(r) \in {"Dispatching", Absent}
            /\ writer.at = "ack" => wire[r] # "none"

\* The acknowledgement is on its way, or the writer never writes again.
AckUnderway == ackWritten \/ InQueue(Ack) \/ writer.msg = Ack \/ writer.at = "stopped"

\* No request is ahead of the acknowledgement.
AckAhead ==
    /\ ready \/ reader.at = "setReady" => AckUnderway
    /\ \A r \in Requests : pc[r] \in NotSubmitted \ {"idle"} => AckUnderway
    /\ \A i \in 1..Len(queue) :
          queue[i] # Ack => \/ ackWritten \/ writer.msg = Ack
                           \/ \E j \in 1..(i - 1) : queue[j] = Ack
    /\ writer.msg \in Requests => ackWritten

IInv ==
    /\ TypeOK
    /\ TasksHold
    /\ RecordIsGuarded
    /\ SubmittedOnce
    /\ UnsentUntilClaimed
    /\ ClaimedIsTracked
    /\ PhaseIsHonest
    /\ UndispatchedNeverWritten
    /\ AckAhead
    /\ AckWrittenFirst

-----------------------------------------------------------------------------
(* What a call is told, and when: invariants on top of IInv.                *)

\* The semaphore hands out no permit twice.
PermitsBounded == Cardinality(Permits) <= MAX_PENDING_BROWSER_REQUESTS

\* An unused sender is in the table or with the reader.
SenderIsKept ==
    \A r \in Requests :
        /\ response[r] = "open" => active[r] # Absent \/ reader = [at |-> "deliver", msg |-> r]
        /\ pc[r] \in {"enqueue", "await", "awaitResponse"} => response[r] # "unborn"

\* Only the extension's answer becomes a response.
ReplyIsAnswer ==
    \A r \in Requests :
        \/ response[r] = "sent"
        \/ reader = [at |-> "deliver", msg |-> r]
        \/ result[r] = "reply"
        => wire[r] = "answered"

\* The writer reports once on what it took, and a call is told what it reported.
ReportIsTold ==
    \A r \in Requests :
        /\ pc[r] \in NotSubmitted => result[r] = "none"
        /\ writer.msg = r => written[r] = "open"
        /\ result[r] = "cancelled" => written[r] = "Cancelled"

OutcomeInv ==
    /\ LifecycleConsistent
    /\ PermitsBounded
    /\ SenderIsKept
    /\ ReplyIsAnswer
    /\ ReportIsTold

\* While the HTTP task never ends by itself, shutdown begins with the reader's
\* or the writer's end: from then on ready is not set again, or nobody is left
\* to look at it.
ShutdownHasCause ==
    /\ http # "stopped"
    /\ main # "select" => reader.at = "stopped" \/ writer.at = "stopped"
    /\ main \notin {"select", "notReady"} =>
          writer.at = "stopped" \/ (reader.at = "stopped" /\ ~ready)

\* A request registered after lifecycle.clear() gets no further than the
\* writer's look at ready.
LateStaysQueued ==
    main \in AfterClear =>
        \A r \in Requests :
            active[r] # Absent =>
                /\ pc[r] # "awaitResponse"
                /\ written[r] # "Dispatched"
                /\ writer.msg = r => writer.at = "checkReady"

ShutdownInv == ShutdownHasCause /\ LateStaysQueued
=============================================================================
