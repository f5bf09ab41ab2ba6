# A TLA+ model of Effector

Effector lets MCP clients work with a user's Chrome. Chrome starts a native
process (the *broker*, `native/src`), which serves MCP over HTTP on the loopback
interface and talks to a browser extension (`extension/`) over Native Messaging
on stdin and stdout. This directory holds TLA+ specifications of both,
model-checked with TLC on small instances, and theorems about them, proved with
TLAPS for every size. Every definition is translated from the source;
`PROJECT.json` gives the source lines behind each of them.

## 1. Inventory

### The parts and how they interact

| Part | Source | State | Operations |
| --- | --- | --- | --- |
| Request handles | `broker.rs` `BrowserRequestHandle::request` | semaphore `in_flight`, one future per call, its guard, deadline and two oneshot channels | make a call, wait for a permit, register, queue, wait, time out, be dropped |
| Native writer | `broker.rs` `native_writer` | bounded queue `native_rx`, the message in hand | dequeue, check ready, budget and record, write, mark, report |
| Native reader | `broker.rs` `native_reader` | the message in hand, the ready flag | handshake, responses, capability changes, end |
| Shutdown | `broker.rs` `run` | ready, the semaphore, cancellation, task handles | wake, take ready back, close, clear, abort, drain, exit |
| Lifecycle table | `request_lifecycle.rs` | active and terminal records, their order | register, begin_dispatch, mark_dispatched, take_response, finish, clear |
| Operation tasks | `operation_tasks.rs` | registry by key, sequence, one watch channel per task, abort handles | join_or_spawn, attach_abort, finish, evict_owner, shutdown_and_clear |
| Retained store | `retention.rs`, `RuntimeRetention` in `runtime.rs` | records in age order, byte counters per class, references | expire, insert, get, clear |
| Runtime state | `runtime.rs`, `references.rs` | connected browser, capability revision, discovery snapshot, references, notifiers | connect, publish capabilities, register a notifier, clear |
| Snapshot tool | `browser_snapshot.rs` | latest model revision and fingerprint, retained baselines, cursors | capture, page, count |
| Discovery | `capabilities.rs`, `mcp.rs` | notifiers with a channel of one, the sessions' queue of notifiers | publish, coalesce, subscribe, deliver |
| Protocol | `protocol.rs`, `extension/protocol.js` | none | parse, validate, negotiate |
| Settings and installer | `settings.rs`, `install.rs`, `doctor.rs`, `main.rs` | token file, manifest, their temporary files | create, read, install |
| Connection controller | `background-controller.js` | port, handshake flags, pending capability state, publication promise, reconnect timer | connect, handle a request, publish, reconnect |
| Capability controller | `capabilities.js` | stored toggles, revision, chains of reconciliations and of settings | set, reconcile, report |
| Browser model | `browser-model.js` | keys, records, revision, event generation | event, reconcile, snapshot |
| Popup | `popup.js` | generation counter | query, render |
| trajectory-measure | `tools/trajectory-measure` | none shared | offline measurement |

An MCP session calls `request()`. The call takes a permit, registers a record
whose oneshot sender the reader will use, and sends the frame with a second
oneshot sender to the writer's queue. The writer claims the record, writes the
frame, marks the record and reports; the reader takes the record out when the
extension answers. The call's guard takes it out when the caller leaves. `run()`
waits for the first of its three tasks to end and then releases everything. The
snapshot tool is a call followed by a commit to the runtime state under its
mutex; the discovery part tells sessions when the state changes.

In the extension, the browser model and the capability controller each reconcile
what Chrome says with what they hold, in a chain of promises; the connection
controller sends `ready`, publishes every later capability state, and answers
requests from the model, but only after the capability state that an answer
belongs to.

### What is hard

* Writer, reader, callers and `run()` share the table, the queue and the flag;
  their code has awaits between looking and acting. An answer may arrive while
  the writer still flushes; a caller may leave at any await; shutdown runs beside
  all of them.
* Everything has to end: a call by its deadline, shutdown without one.
* The registry settles a status outside its mutex, so an entry may be evicted
  and its key used again before the first task cleans up.
* The retained store subtracts from `usize` counters and loops until a budget
  fits: both are right only if the counters are exact.
* Two snapshots may be answered, or handled, in the other order than they were
  captured; the connection may end between an answer and its commit.
* In the extension, state is read before an await and used after it: the port,
  the stored setting, Chrome's windows and tabs.
* Token file and manifest are written by several processes that may be killed,
  or lose power, between any two steps.

`PROJECT.json` lists each hazard at its line with the properties that cover it.

### What makes each part correct

| Part | Correct if | Modules |
| --- | --- | --- |
| Broker | a frame is written at most once, only while its caller waits; callers are told the truth; nobody waits for ever; shutdown ends | `Broker`, `RequestService` |
| Lifecycle table | the two maps stay disjoint and bounded and agree with the eviction order; a phase tells the truth about the frame | `RequestLifecycle` |
| Operation tasks | overlapping lanes exclude each other, in admission order; one live task per key; the first terminal status is the last; shutdown settles and stops all | `OperationTasks`, `OperationService` |
| Retained store | counters are exact; class limits and the budget hold; no more is evicted than must be; nothing stale is returned | `RetainedStore` |
| Runtime and snapshots | results never go back in time; a reference is one object's for as long as it lives; nothing outlives the connection; only what is overtaken is refused | `SnapshotRuntime` |
| Pages | every match is on one page, once; `partial` and counts are true | `SnapshotRules`, `SnapshotPaging` |
| Discovery | no session misses the last change; each subscription has a notifier of its own | `ToolListNotifier` |
| Protocol | ends that fit never refuse each other; ends that do not fit never get ready | `ProtocolRules`, `Handshake` |
| Connection controller | states are published once and in order per connection; a snapshot's answer never overtakes its state; every request is answered | `CapabilitySync` |
| Capability controller | a setting is never lost; who sets or asks is given a state that is fresh, or an error | `CapabilitySettings` |
| Browser model | records are of one moment; keys follow lives; no event is lost to a reconciliation | `BrowserModel` |
| Settings and installer | processes end with one token, which is whole; a manifest that is there is whole, and it goes missing only around its removal | `TokenStore`, `Installer`, `Install` |

## 2. Modules

An action is the code between two points at which another actor can observe or
change what it uses: a mutex region in the broker, what runs between two awaits
in the extension, one file-system call in the installer. `Option`s are sets with
at most one element. Definitions marked "a wrong variant" are plausible mistakes,
used to confirm that each property notices the mistake it is there for; no
specification uses them.

Most runs have an invariant that is a conjunction of named parts, with the types
(`BooksBalance`, `ReferencesHold`, `PeersAgree`, `PagesAreExact`, `StatesInOrder`,
`SettingsHold`, `ModelIsTrue`, `TokenIsSound`, `ManifestIsSound`). The parts are
stated and commented one by one in the modules.

### `RequestLifecycle` and `Broker`

`RequestLifecycle` has one operator for each method of `RequestLifecycle` in the
code; each runs under one mutex and is atomic. A request is its ID; maps are
functions with `Absent` and `NoRecord` for missing keys. `response` is the
oneshot channel between the record's sender and the waiter.

`Broker` extends it with the tasks.

* `Call` to `AbandonPermit` are `request()`, in `pc`. `Call` is the first load
  of `ready`, `RecheckReady` the second; budget check, preflight and registration
  are one step because nobody else can look at the call before it is registered.
  `AwaitEither` and `AwaitResponse` are the biased select, `Elapse` the timeout
  around the send and both waits. Two orders differ and both are here: a
  returning call drops its permit and then the guard; a dropped future drops its
  locals in reverse, the guard first. The guard is armed exactly when `result` is
  not `"deadline"`.
* `WriterRecv` to `WriterAck` are the loop of `native_writer`. A failing write
  may have put the whole frame out or not (`WriterFail`); the task then drops the
  queue and the report senders in it.
* `ReaderEnd` to `ReaderConnect` are `native_reader`. Everything that ends it
  (EOF, a read error, an invalid or misplaced message) is `ReaderEnd`; a response
  that fails validation ends it in `ReaderDeliver` after the record is taken.
* `MainWake` to `MainAwaitWriter` are the shutdown sequence, one step per
  statement that others can see. `ShutdownTimeout` is the five-second limit.
* The environment: the extension sends `ready` once and answers each written
  frame at most once, in any order. Time goes from `ample` to `lastSecond` (the
  budget check fails) to `passed` (the timeout fires), per call. A caller may
  drop its future at any await. The HTTP task ends by itself only if
  `HTTP_MAY_STOP`.

Permits are derived from `pc`. Senders blocked on the full queue go in any order
(tokio serves them first come, first served; the model allows more).
`serialize_outgoing` after the claim cannot fail, since the same frame passed
preflight. `drop(native_tx)` is merged with `reader.abort()`, which takes effect
at an await: a reader between a claim and its delivery finishes that first.

`RequestService` is the abstract specification: a call is idle, pending or told
an outcome; a frame is committed once at most, while its call is pending and the
broker open; a reply comes only after the answer, "cancelled" only if nothing was
sent. `ImplementsService` is the refinement, with the mapping in `Broker`: a call
is over when its guard is dropped, a frame is committed while the writer writes
it, the broker is open until the table is cleared.

### `OperationTasks`

A task is its admission sequence number; its watch channel, lanes and
predecessors outlive its entry as they do in the code. `Admit` is
`join_or_spawn` under the mutex (joining a key, a key conflict and a refusal
change nothing). `AttachAbort` is the caller's later step with the abort handle.
`AwaitPredecessor`, `Start`, `BodyEnds` and `Clean` are the spawned future;
`Drop` is `TerminalOnDrop`, for a panic or an abort. `BeginFinish` and `Clean`
are the two halves of `finish`, with everything else possible in between.
`EvictOwner` and `ShutdownAndClear` are the registry's other two operations. An
absent entry has `abort` and `owner_retained` FALSE. In this commit only
`shutdown_and_clear` is called, through `runtime.clear()`; the rest waits for the
operations the documents plan, and is modelled as written. A terminal entry keeps
its place among the 32 (`operation_tasks.rs:161`) until `evict_owner` takes its
owner away, which nothing calls yet: that is a matter of its future callers.

`OperationService` is the abstract specification, without keys, entries,
predecessors and handles: an operation begins only while the registry is open and
when all that were admitted before it on an overlapping lane are over and at work
no more; it is reported as over once and for all; closing settles everything.
`ServedInOrder` is the refinement: a task is reported as its channel has it from
its admission on, its body is at work while `step` is `running`, and the registry
is open until `ShutdownAndClear`.

### `RetainedStore`

The store as `RuntimeRetention` uses it. The runtime's mutex is held from the
reading of the clock to the end of an operation, so the clock does not go back
within one. The two eviction loops remove oldest first until a condition holds;
the model takes the shortest prefix for which it does, once for the class and
once for the whole budget, and names records by their places in the deque.
`BytesAt` is the size of the records at some places and `Only` the records there. `Verdict` holds the checks before the loops, with
`checked_add` at `USIZE_MAX`. A refused insert returns before it changes
anything. Reading does not refresh a record.

### `SnapshotRuntime`

What the broker keeps between `browser.snapshot` calls, beside an extension whose
model and capabilities change. `Apply`, `Reconcile` and
`PublishCapabilitiesChanged` change the extension; `Capture`, `Synchronize` and
`Post` are its answer to one call, captured before it waits for the capability
state and posted after. Both kinds of message go through one `wire`, which the
reader takes in order (`ApplyCapabilities`, `TakeResponse`); how the extension
keeps that order is `CapabilitySync`'s subject. An answered call is handled later
(`pc = "answered"`), when others may have gone first or the connection may have
ended (`Clear`): `Refusal` is the code's chain of checks under the lock, in its
order, and `Refuse`, `Count`, `Retain` and `TooLarge` (`RESULT_TOO_LARGE`, of a
page or of counts) are its ends. A reference
is named by the object and the snapshot that first issued it, as unique as its
UUID. Which of the oldest snapshots leave at an insertion is open here and exact
in `RetainedStore`. `newest` and `shown` are history, for the properties only.

### `SnapshotRules` and `SnapshotPaging`

`SnapshotRules` has what the tool computes: `ValidParams` and
`Baseline::validate`, which tabs match and in which order, how matches are cut
into pages and cursors, what a page shows (`RenderPage`), and `Counts`. A sort by
a strict order is `InOrder`; the code's loops over a strip (`GroupsContiguous`, by
`Enter`) and over a page's keys (`RenderedWindows`, by `AddTab`) are recursive
functions on the number of elements that are done. `SnapshotPaging` is one call and
the pages its cursors lead to. Text is a name, `TextContains` the relation of the
contained; a size is a number of the tab. `WellTyped` is what holds of an answer
because it has been deserialized, before `Baseline::validate` has seen it.

### `ToolListNotifier`

`Publish`, `Collect` and `Notify` are the reader's publication: the discovery
changes under one lock, the notifiers are collected under it and notified
afterwards, one by one. `Insert`, `ReadDiscovery` and `Replay` are
`register_tool_list_notifier`, with the publication possible in between;
`StartLegacy`, `PushBack` and `PopFront` hand the receiver over, the latter two
through the sessions' shared queue; `Recv` and `NotifyPeer` are the loop of a
listener, `ListTools` the client. `Leave` drops a client's receiver at any point.

### `ProtocolRules` and `Handshake`

`ProtocolRules` has the checks of both ends as operators, from `protocol.rs`,
`capabilities.rs`, `protocol.js` and `capabilities.js`: negotiation, what a
capability state must satisfy, which tools are visible and callable, which
requests and answers are accepted. `Handshake` sends every message through the
receiver's check, and each end closes at the first that it does not accept. A
request is taken in (`HandleRequest`), which closes the connection if its id is
already in flight, and answered later (`Respond`), when anything may have come in
between; ids are drawn from `RequestIds`, none twice, as the broker's are UUIDs. The
extension's `build` is chosen at the start, its `facts` change: the code's
`createCapabilityController` is given both and computes `effective` from them, as
the broker does for itself.

### `CapabilitySync`

The connection controller between its awaits. `Queue` is
`queueCapabilityPublication`; `PublishStart`, `Publish` and `PublishEnd` the parts
of `publishCapabilitiesChanged` before, between and after its awaits, with
`publisher.port` the port it began with. `ReadyState` and `SendReady` are
`sendReady` of each port, which may be gone when the state is there; `AckState`
and `AckQueue` the controller's second look after `ready_ack`. `Capture` to
`Respond` follow one request through `dispatchRequest` and the loop of
`synchronizeCapabilityPublication`; `Replaced` is what a request sees whose
awaited publication is no longer the current one. `TimeOut` is `withDeadline`: an
error is sent, and what was begun goes on. `ConnectBroker` and `Disconnect` may
happen at any time, and each connection has its own broker.

### `CapabilitySettings` and `BrowserModel`

`CapabilitySettings` is the capability controller: the chain of reconciliations
(`Queue`, `Reconcile`, `StorageGet` to `Publish`), the chain of settings
(`SetDesired` to `Applied`), and `getState` (`Ask`, `Awake`, `Give`), whose loop
waits for the last reconciliation it sees. Every call of Chrome may fail.

`BrowserModel` is `browser-model.js`. Chrome changes, announces each change, and
answers the two queries of a reconciliation from the state of that moment; events
and answers reach the extension in the order they were sent, which is how Chrome
delivers messages to one context. `HandleEvent`, `HandleAnswer`, `Drain`,
`ReadAgain` and `Apply` follow the code; `Keyed` is `keyFor` with `forceNewIds`
and the pruning of keys. Tab groups are kept as windows are and are left out.

### `TokenRegister`, `TokenStore`, `Installer`, `Install`

`TokenStore` is `load_or_create_token_in`, one action for each file-system call;
`Installer` the replacement of the manifest; `Install` a process that does the
one and then the other, beside brokers that start and do only the former. Each
call may fail, the removal of a temporary file included (`FailToRemove`,
`FailToDiscard`: the code ignores it), each process may be killed, and the machine
may stop (`Stop`): what was not synchronized may then be cut short, and since no
directory is synchronized a link may be gone, and the manifest, with its entry in
the registry, may be any of those that were there since the machine last started
(`seen`).
`TokenRegister` is the abstract specification, a register written once;
`WrittenOnce` says that the token store implements it.

### `Runtime`, MC and proof modules

`Runtime` has the two parts of the broker's runtime state that share nothing, the
retained records and the notifiers; a run or a theorem is about one of them while
the other stands still. `MC*` add the sets and symmetries for TLC. `MCContents`
puts `Handshake` and `SnapshotPaging` into one run, and `MCExtension`
`CapabilitySettings` and `BrowserModel`: again the two parts share nothing, so a
behaviour takes up one of them (`subject`) and the other stands still.

The theorems are in eight modules: `BrokerProofs` (with `RequestLifecycle` and the
refinement), `OperationTasksProofs` (likewise), `RuntimeProofs` (`RetainedStore` and
`ToolListNotifier`), `SnapshotRuntimeProofs`, `ContentsProofs` (`Handshake` and
`SnapshotPaging`),
`CapabilitySyncProofs`, `ExtensionProofs` (`CapabilitySettings` and
`BrowserModel`) and `InstallProofs` (`TokenStore`, `Installer` and `Install`).

## 3. Runs

| Run | Instance | What it shows |
| --- | --- | --- |
| `broker` | 2 calls, 2 permits, queue of 1, 1 terminal record | records stay consistent and honest; cancelled and expired requests are never written; the acknowledgement comes first; no waiter is stranded; only awaited frames are dispatched, none after the clear; the broker implements `RequestService` |
| `broker_live` | 2 calls, 1 permit, queue of 1; one call is timed, the other competes for the permit unless the HTTP task has ended by itself | the table is bounded by the permits, but for calls between `drop(permit)` and the guard's drop; a call returns by its deadline although everything else may stand still; a shutdown that is not cut short ends, with no deadline and no five-second limit needed |
| `broker_http` | 2 calls, 1 permit, the HTTP task may end by itself | violated: see section 6 |
| `operation_tasks` | 3 tasks, 2 keys, the browser and 2 windows, capacity 2 | exclusion, honesty, one live task per key, settlement at shutdown; the registry implements `OperationService` (order of admission, finality, no beginning after shutdown) |
| `operation_tasks_live` | 3 tasks on one lane | if bodies end, every task is settled; if aborts take effect, shutdown stops bodies that would run for ever |
| `retained_store` | 4 keys, 2 classes, sizes 1, 2, 3 and 15, budget 6, `USIZE_MAX` 15 | counters are exact and limits hold, also where a sum overflows; a record leaves only for its age or for room |
| `snapshot_runtime` | 2 callers, 1 object key, 2 models, 2 capability states, 3 retained snapshots with room for 1 | references stay with their objects; results never go back in time; only what was overtaken is refused |
| `contents` | 10 builds of the extension with every fact set; every arrangement of 4 tabs in 2 windows and 2 groups, and invalid baselines of 3 | ends that fit agree, ends that do not never get ready; pages show every match once and say truly what they omit |
| `tool_list_notifier` | 2 subscriptions, or 1 and a legacy session; the handshake and one change | no change is lost; each has a receiver of its own; who stays lists the current tools in the end |
| `capability_sync` | 2 connections, 3 capability states, 1 request | states come once and in order, no snapshot before its state; the broker ends with the latest; the request is answered |
| `extension` | settings: 2 callers, or 1 and a change of the facts, or 2 changes, and 1 failing call of Chrome; model: 2 windows, 2 tabs, 2 changes, 1 failing read, 1 caller | settings are not lost and answers are fresh; the model is of one moment and its keys follow lives; both come to rest with the last setting, the last facts and Chrome's last state, unless the last reconciliation failed and nobody has asked since |
| `install` | 2 installations on Windows, 2 power losses, any failures and kills | the token file is a register written once, never partial; a manifest that is there is whole, goes missing only around its removal on Windows, and is there and registered after an installation that ended well if none has failed; a temporary file stays only where its removal failed or its process was killed |

### Bounds

Two calls reach every interleaving of a call with another one's use of the queue,
the writer, a permit or the last terminal record; a third would only wait behind
them. One terminal record makes every second retirement evict, also of a record
that is still to be marked. A queue of one makes senders block, and lets the
acknowledgement compete with a request for the place. Three tasks make a chain of
predecessors, and with two keys one key is used twice; the lanes include one that
overlaps all. Three ordinary sizes and two classes with different lives let the
class limits, the budget and expiry act in the same insert; the size 15 makes the
first addition overflow.

In `snapshot_runtime`, three retained snapshots are one that is retained, one that
replaces it, and one that comes late; two models suffice for an answer to be
overtaken, and an object may leave in between and come back. In `contents` the
builds differ from the current one in the protocol version, in the ABI revision,
or in entries that are missing, doubled, additional, of another ABI or of a branch
the broker does not know. Three capability states let one be published while the
next is queued and a third replaces it; two connections let each step of a
publication or of a request meet the end of its port. Two windows and two tabs
let a tab move, and a window or a tab close and its id be used again. Two
processes reach every race of the exclusive creation; the second power loss may
hit the process that cleans up after the first.

Bounded by name, in guards: `MAX_SEQUENCE` (where the code's own counter stops),
`MAX_NOW` (the last reading of the clock), `MaxRevision`, `MaxCapability`,
`MaxIssued` (retained snapshots), `MaxDiscovery`, `MaxPorts`, `MaxFacts`,
`MaxChanges`, `MaxFailures`, `MaxOccasions` (of the settings: callers and changes
together, which nobody has to make), `MaxStops` and the sets `RequestIds`,
`Callers` and `Processes`. The theorems of section 4 hold for every value of the
bounds.

Deadlock is checked in the broker's runs: the process may stop only by exiting.
Elsewhere the system may come to rest: everybody is done, nobody has to ask or to
change anything, or a bound is used up.

### Fairness

Fairness is a premise of the liveness properties or part of a `FairSpec`.

* `EveryCallReturns` assumes only that the call's own steps or its clock move
  (`CallGoesOn`), and nothing of the other tasks: that is what the timeout is for.
* `ShutdownCompletes` assumes that tokio runs what can run and that a write to
  Chrome succeeds or fails (`BrokerGoesOn`). Its other premise says that neither
  a deadline nor an HTTP task that ends by itself helps or hinders.
  `ShutdownTimeout` has no fairness.
* Operation tasks: `BodiesEnd` is the spawned task's steps and that the body ends
  or panics; `AbortsTakeEffect` only that the handle is attached and an aborted
  task is dropped at its next await.
* Notifiers: the reader's loop and the sessions' tasks run, and a client that was
  told asks for the list.
* Extension: the event loop runs the continuations that can run, messages
  arrive, Chrome answers (with a result or an error). Nobody has to ask, to
  change anything, to connect or to disconnect.

## 4. Proofs

Assumed are only the named assumptions on the constants: finitely many requests
and ids, positive limits, bounds that are numbers, special values distinct from
ordinary ones, and for the handshake what `protocol.rs` and `protocol.js` say of
this build (its lists are within the limits it checks, it implements snapshots
only, and requests are written with time left). Four theorems on the broker's
shutdown have one assumption more, see below.

Most invariants of the runs are not inductive. The inductive ones behind them
(`IInv`, `OutcomeInv`, `ShutdownInv`) are defined beside them in the component's
module, `PInv` with its proof; all were model-checked on the run's instance, and
the runs list what they imply.

**Broker** (`BrokerProofs`). `Spec => []IInv`, and from it `TypeOK`,
`PhaseIsHonest`, `UndispatchedNeverWritten`, `AckWrittenFirst` and the action
property `OnlyWaitedForIsDispatched`. None of these is inductive alone.

* That a cancelled frame is not written *later* needs that the request is not in
  the queue again: `SubmittedOnce` says each is ahead of the queue, in it once, or
  taken from it.
* That a phase is honest needs to know what is so before the claim
  (`UnsentUntilClaimed`) and after it (`ClaimedIsTracked`), and `TasksHold` for
  what the tasks have in hand. The table's operations, seen from here, only move a
  phase along with its record or lose it (`PhasesOnlyGo`): eviction, answers,
  guards and shutdown's clear share one argument.
* That a claim is for a waiting call is `RecordIsGuarded`: there is no record
  before registration and none after the guard's drop.
* The acknowledgement's order is `AckAhead`: whoever passed the check of `ready`
  has the acknowledgement ahead of him in the FIFO, in the writer's hands or
  written, or the writer is gone. `ready` may be taken back and set again by
  others; the acknowledgement stays ahead.

Steps are grouped by what they touch: a call's own steps (`CallMoves`), steps of
time, reader and `run()` (`BackgroundMoves`), then registration, queueing and
the writer action by action.

`OutcomeInv` adds what calls are told and what the table holds. From it follow
`LifecycleConsistent` (the two maps are disjoint, the terminal one is bounded and
agrees with its order, through eviction and through the writer's late mark) and
`RegisteredBounded`, which counts: every record but those of a call between its
two drops has a permit of its own. `SenderIsKept`, `ReplyIsAnswer` and
`ReportIsTold` are what the last theorems need.

`NoStrandedWaiter`, `NoDispatchAfterClear` and the refinement `ImplementsService`
are proved for an HTTP task that lives until it is cancelled (`HTTP_MAY_STOP`
FALSE). Without that, `NoDispatchAfterClear` is false, and run `broker_http` shows
it (section 6). With it, shutdown has a cause: the reader's end, after which
nobody sets `ready` again, or the writer's, after which nobody looks
(`ShutdownHasCause`); so what is registered after the clear is not dispatched
(`LateStaysQueued`). The refinement has one case per action, of which most are
stutters; the commit of a frame needs `NoDispatchAfterClear`, the replies
`ReplyIsAnswer`, and the refusals `ReportIsTold`.

**Operation tasks** (`OperationTasksProofs`). `Spec => []IInv`, and from it
`TypeOK`, `OverlapExclusion`, `RunsAfterPredecessors`, `StatusIsHonest`,
`OneLiveTaskPerKey` and `ClosedMeansSettled`. Exclusion rests
on `OverlapOrdered`: of two overlapping tasks the later one has the earlier among
its predecessors unless that was over and stopped when the later was admitted;
with `LiveIsRegistered` (until shutdown, a task that is not over has its entry,
so admission sees it), `BodyIsLive` and `AwaitedAreHarmless`.

`ImplementsOperationService` is the refinement. Admission is the abstract one
because numbers are given out in order and a number not given out has a new channel
(`AdmittedInOrder`). `Start` is the abstract beginning: what came before on an
overlapping lane is over by `OverlapOrdered` or, if it was waited for, by
`AwaitedAreHarmless`, and the registry is open because a queued task is not settled
(`ClosedMeansSettled`). A body's end and its drop end it or, after shutdown, leave
its report as it is; shutdown closes, and misses nobody by `LiveIsRegistered`.
Attaching a handle, forgetting an owner and cleaning up are not seen.

**Retained store** (`RuntimeProofs`). `BooksBalance` is inductive as it stands,
with a circle that has to be entered in the right place: because the counters are
the sums of the records' sizes, the loops end with the budget kept (an empty deque
fits, since the checks before the loops passed); because the budget is kept, the
counters do not wrap; because they do not wrap, they are the sums again.
`LeavesWhenItMust` says exactly which records survive, in terms of what fits and
not of loops: the conditions of both loops are closed upwards, so that the loops,
which go on from the oldest, stop at the first place from which on everything
fits. Sums over the deque are recursive functions on numbers. That such a function
exists, and what follows by induction on it, is derived here from the fact that
every nonempty set of numbers has a least element (`Least`, `Induction`, `Chain`).

**Notifiers** (`RuntimeProofs`). `NoLostUpdate` and `OwnReceiver`. Who
registers while a change is published is seen by the publisher's collection or
sees the change itself (`HeldIsListed`: a receiver that is held has its sender in
the list, so a later collection finds it; `UnheardHasNews`: who does not know the
current tools has a message in its channel, is on the publisher's list, or is
still to replay). `QueueIsPushed` and `Handover` account for the receivers that
sessions hand over through the shared queue, where one may take another's.

**Runtime state and snapshots** (`SnapshotRuntimeProofs`). `Spec => []IInv`, and
from it `ReferencesHold` and the action properties `ResultsAgree` and
`RefusedOnlyIfOvertaken`.

* A reference stays with its object because what was shown is registered or gone
  for good (`ShownIsKnown`), which holds because results never come from an older
  model (`LatestIsSound`) and an object that is gone does not return
  (`ModelsGrow`).
* Only what is overtaken is refused: capability states come in order
  (`StatesInOrder`), an answer is behind the state it waited for
  (`AnswersFollowStates`), and every state from that one on supports what the
  answer shows (`AwaitedSupport`).

**Handshake** (`ContentsProofs`). `MixedBuildsNeverReady`: what `ready` says of
the build is true of it, whatever the facts, and the broker acknowledges only a
`ready` that fits. `PeersAgree`, from `PInv`: the broker hears `ready` first and
nothing with it, the extension the acknowledgement first (`Ordered`), and
everything that an end of this build says passes the other's checks (`Matched`).
No id of a request is met twice (`Fresh`), so the extension never closes the
connection over one.
The latter is about the rules: the extension computes its state and the broker
validates it by definitions of their own, and the proof goes through both lists of
conditions.

**Pages** (`ContentsProofs`). `PagesAreExact`, for any parameters and any answer
that has its fields' types (`WellTyped`), with limits as `RulesAssumption` has
them. `PagesInv` says where a call stands: a snapshot is there only when its
baseline was accepted, and the `p`-th page is the rendering from the offset
`(p - 1) * limit`, which for a later page is before the end.

* A strict order without ties puts a finite set into a line: as many are below the
  n-th as are before it (`Sorted`). `Before` is such an order on the tabs of an
  accepted baseline, since no two of them have one window and one index
  (`MatchOrder`), and tabs of one window, and of one group, have nothing else
  between them (`KeptTogether`). The latter rests on `WalkIsExact`: the walk of
  `Baseline::validate` refuses a strip exactly if a group was left and entered again.
* A page shows one section of that line (`SectionIs`). What rendering has built
  after n tabs is kept as one invariant of the loop (`Shows`, by `ShowsNext`): the
  places are filled one to one by the first n tabs, windows and groups are those of
  the tabs in them, none is there twice, and the last is the one of the last tab. A
  window or a group that is opened anew did not come before, by `KeptTogether`.
  The tabs stand in the order of the line, within a page and from page to page
  (`TabsStandInOrder`, by `SectionsInOrder` and `InTurn`), so windows come in the
  order of their numbers with the focused one first, tabs as in the strip.
* The sections do not meet and between them have every match once the last is there
  (`SectionsApart`, `SectionsCover`), and a cursor is there exactly for a section
  that follows (`LastCursor`). So the pages partition the matches, what is partial
  is exact (`LacksIsExact` compares the code's two numbers as sets), and the counts
  are those of what was shown, the discarded tabs' among them (`CountsAgree`).

**Publication of capabilities** (`CapabilitySyncProofs`). `StatesInOrder`, from
`SilentUntilReady` (nothing but `ready` goes to a broker before it),
`LastIsUnderway` (what was last published is the last state on the wire, or the
one the broker has), `PublisherIsAhead` (a publication under way carries nothing
older than its port was sent) and `RequestsHold` (a request whose port is still
there belongs to a broker that is ready, and the state it waits for is not older
than its capture). Steps that leave wire and port alone
(`QuietStep`) and steps that add a message (`QueueStep`) share one argument each.

**Settings** (`ExtensionProofs`). `SettingsHold`. Changes of the setting go one
by one, and the one at work has stored what it wants (`OneAtATime`). Nobody
changes the setting while a reconciliation runs, and one that an event has
overtaken is not the last in the chain (`RunIsCurrent`); so, when the last one has
succeeded, the snapshot is of the latest event and has the setting
(`LastIsPublished`), which is what callers wait for.

**Browser model** (`ExtensionProofs`). `ModelIsTrue`. The code keys by Chrome's
ids, which Chrome uses again, while events and answers are under way. The channel
keeps them in the order of Chrome's changes (`ChannelInOrder`). An answer that
tells of another life than Chrome's present one has an event behind it that takes
the key away, and a key that belongs to an earlier life has such an event still
ahead (`EventsTell`, `KeysAreRight`); so a key that was given for one life never
meets another one (`GoneForGood`). That all records are of one moment is the
comparison of generations (`RecordsAreCurrent`) with `ChromeFits`: two answers of
one moment fit together.

**Token file** (`InstallProofs`). The invariant says, per process, how far its
temporary file is written and synchronized (`ProcessInv`): a file gets its name
only when it is whole and synchronized, so that a power loss cannot cut it short.
From it follow `NeverPartial`, `Agreement`, `NoSpuriousFailure`, `NoLeftovers` and
the refinement `WrittenOnce`, step by step.

**Installations** (`InstallProofs`). A behaviour of `Install` is one of
`TokenStore` in the token's variables, which lifts those theorems; the manifest
has an invariant of its own (`Installer`'s `IInv`), from which `ManifestIsSound`
follows, on Windows and elsewhere: whatever is about to be renamed is synchronized,
so every manifest since the last start is, and a power loss brings back only whole
ones (`seen`); and per process (`InstallerInv`), an installation past its rename
has left a manifest, unless another is about to rename or something has failed.

## 5. Only model-checked, and why

* Liveness (`EveryCallReturns`, `ShutdownCompletes`, `EveryTaskSettles`,
  `ShutdownStopsBodies`, `EveryClientCatchesUp`, `EventuallyCurrent`,
  `EventuallyAnswered`, `BothConverge`, `EveryCallerIsAnswered`): fairness and
  ENABLED are beyond the prover.

## 6. Disagreements

`broker_http` shows a request dispatched after shutdown has cleared the table.
`docs/architecture/process-and-transport.md:171-172` says that the writer skips
queued requests whose broker began shutdown. `run()` takes `ready` back
(`broker.rs:202`) and aborts the reader only later (208-211). A reader that is
still busy with the first `ready` message sets it again (337) after that. A call
that begins then finds `ready` true (435, 454); if `run()` has not closed the
semaphore yet (203, the next statement) it gets a permit, registers after the
table was cleared (205), and is claimed and written, since the writer's check
(365) reads the reader's `true` as well. No call can have found `ready` true
before shutdown's store here: 337 is the first store of `true`, and the extension
sends `ready` once. All this takes an HTTP task that ends by itself while the handshake is under way, that is
a failure of the server in its first moments; with an HTTP task that lives until
it is cancelled, `NoDispatchAfterClear` holds (run `broker`). Such a call then
waits for its own deadline or for the five-second limit of the shutdown, hence
the premise of `ShutdownCompletes`.

`docs/decisions/0007` (lines 20-25) says that `ready_ack` returns the intersection
and that extra entries are ignored safely. The broker does ignore them. An
extension that offers one is then acknowledged with fewer entries than it has, and
refuses that: `validateReadyAck` wants as many as its own list
(`protocol.js:114-121`). Such an extension never gets ready; `contents` has one,
and `MixedBuildsNeverReady` and `PeersAgree` hold with it. At this commit both ends
have the same list.

## 7. Not modelled

* Frame bytes, JSON, base64 and the sanitising of text: conversions that no
  property here depends on. A message is valid or not.
* The HTTP listener, authentication and the MCP library; Chrome itself, but for
  what the extension sees of it.
* The collision of two UUIDs, which `register` refuses.
* In the extension: promises of the connection controller that fail, the lookup of
  the instance id and the reconnect delay, the wiring of Chrome's events in
  `background.js`, and tab groups in the browser model, which are kept as windows are.
* That shutdown clears the discovery without a notification: the sessions end.
* The popup: its toggle is disabled while a request is pending, and capabilities
  are fetched only when it opens, so that two of its requests never overlap.
* `doctor.rs`, which only reads and reports, and the command line in `main.rs`.
* `trajectory-measure`, an offline check of one corpus, sequential and shared with
  nothing.

The manifest's replacement on other systems than Windows, one `rename`, is proved
but not run.

## 8. Plan

1. `SnapshotRuntime`'s extension as an abstraction of `CapabilitySync`: the order
   it assumes of the wire is the one `StatesInOrder` proves, not yet a refinement.
2. `CapabilitySync` with promises that fail and with the reconnect delay.
