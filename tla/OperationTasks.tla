--------------------------- MODULE OperationTasks ---------------------------
(***************************************************************************)
(* The registry of browser operations (native/src/operation_tasks.rs): one  *)
(* task per retained key, overlapping lanes served in admission order,      *)
(* owners that forget their keys, and a shutdown that settles and aborts    *)
(* everything.                                                              *)
(*                                                                         *)
(* A task is its admission sequence number, as the registry's key can be    *)
(* used again once its entry is gone.  The watch channel of a task outlives *)
(* the entry; so do status, lanes and predecessors here.  Code under the    *)
(* registry's mutex is one step, and so is each atomic update of a status.  *)
(* BrowserLaneSet::new refuses an empty vector and drops duplicates: lanes  *)
(* are nonempty sets.                                                       *)
(***************************************************************************)
EXTENDS Naturals, FiniteSets

CONSTANTS Keys,                              \* operation keys
          LaneSets,                          \* the sets of lanes operations are admitted with
          Browser,                           \* the lane of the whole browser
          MAX_ADMITTED_BROWSER_OPERATIONS,   \* entries the registry can hold
          MAX_SEQUENCE,                      \* where next_sequence stops (u64::MAX)
          NoTask                             \* a key without an entry

ASSUME OperationAssumption ==
    /\ IsFiniteSet(Keys)
    /\ {} \notin LaneSets
    /\ MAX_ADMITTED_BROWSER_OPERATIONS \in Nat
    /\ MAX_SEQUENCE \in Nat
    /\ NoTask \notin Nat

VARIABLES
    closed,          \* shutdown_and_clear has run
    next_sequence,   \* sequence of the next task
    tasks,           \* the registry: the task of each key, or NoTask
    key,             \* key, lanes and predecessors of each task at admission
    lanes,
    predecessors,
    pending,         \* predecessors the task has still to wait for
    status,          \* the watch channel
    step,            \* where the spawned task stands
    attached,        \* attach_abort has run for the task
    abort,           \* the task has an entry and it holds the abort handle
    aborted,         \* abort() has been called on the task
    owner_retained   \* the task has an entry and its owner still wants it

entryVars == <<attached, abort, owner_retained>>
fixedVars == <<key, lanes, predecessors>>
vars == <<closed, next_sequence, tasks, fixedVars, pending, status, step, entryVars, aborted>>

Tasks == 0..(MAX_SEQUENCE - 1)
Admitted == {s \in Tasks : s < next_sequence}

Terminals == {"Completed", "NotDispatched", "Unknown"}
Statuses == {"Queued", "Running"} \cup Terminals
Settled(s) == status[s] \in Terminals

TaskSteps == {"none", "waiting", "running", "cleaning", "ended"}

TypeOK ==
    /\ closed \in BOOLEAN
    /\ next_sequence \in 0..MAX_SEQUENCE
    /\ tasks \in [Keys -> Tasks \cup {NoTask}]
    /\ key \in [Tasks -> Keys \cup {NoTask}]
    /\ lanes \in [Tasks -> LaneSets \cup {{}}]
    /\ predecessors \in [Tasks -> SUBSET Tasks]
    /\ pending \in [Tasks -> SUBSET Tasks]
    /\ status \in [Tasks -> Statuses]
    /\ step \in [Tasks -> TaskSteps]
    /\ attached \in [Tasks -> BOOLEAN]
    /\ abort \in [Tasks -> BOOLEAN]
    /\ owner_retained \in [Tasks -> BOOLEAN]
    /\ aborted \in SUBSET Tasks

Init ==
    /\ closed = FALSE
    /\ next_sequence = 0
    /\ tasks = [k \in Keys |-> NoTask]
    /\ key = [s \in Tasks |-> NoTask]
    /\ lanes = [s \in Tasks |-> {}]
    /\ predecessors = [s \in Tasks |-> {}]
    /\ pending = [s \in Tasks |-> {}]
    /\ status = [s \in Tasks |-> "Queued"]
    /\ step = [s \in Tasks |-> "none"]
    /\ attached = [s \in Tasks |-> FALSE]
    /\ abort = [s \in Tasks |-> FALSE]
    /\ owner_retained = [s \in Tasks |-> FALSE]
    /\ aborted = {}

Registered == {s \in Tasks : \E k \in Keys : tasks[k] = s}
IsEntry(s) == tasks[key[s]] = s

-----------------------------------------------------------------------------
(* Plausible bugs, used only to show that the properties tell them apart    *)
(* from the code.                                                           *)

\* Only running tasks block a later one.
ConflictingIfRunning(laneSet) ==
    {s \in Registered : (Browser \in lanes[s] \/ Browser \in laneSet \/ lanes[s] \cap laneSet # {})
                        /\ status[s] \in {"Running", "Unknown"}}

\* attach_abort forgets that shutdown may have come in between.
AttachAbortUnlessGone(s) ==
    /\ step[s] # "none"
    /\ ~attached[s]
    /\ attached' = [attached EXCEPT ![s] = TRUE]
    /\ abort' = [abort EXCEPT ![s] = IsEntry(s) /\ ~Settled(s)]
    /\ UNCHANGED <<closed, next_sequence, tasks, fixedVars, pending, status, step,
                   owner_retained, aborted>>

\* A later terminal status replaces an earlier one.
SettleAgain(s, terminal) == status' = [status EXCEPT ![s] = terminal]

\* An uncertain predecessor counts as done.
AwaitPredecessorOnly(s) ==
    /\ step[s] = "waiting"
    /\ \E p \in pending[s] : Settled(p) /\ pending' = [pending EXCEPT ![s] = @ \ {p}]
    /\ UNCHANGED <<closed, next_sequence, tasks, fixedVars, status, step, entryVars, aborted>>

\* The body runs whether or not the transition to Running took place.
StartUnchecked(s) ==
    /\ step[s] = "waiting"
    /\ pending[s] = {}
    /\ status' = [status EXCEPT ![s] = IF @ = "Queued" THEN "Running" ELSE @]
    /\ step' = [step EXCEPT ![s] = "running"]
    /\ UNCHANGED <<closed, next_sequence, tasks, fixedVars, pending, entryVars, aborted>>

\* A panic leaves the status as it was.
DropUnguarded(s) ==
    /\ \/ step[s] = "running"
       \/ step[s] = "waiting" /\ s \in aborted
    /\ step' = [step EXCEPT ![s] = "ended"]
    /\ UNCHANGED <<closed, next_sequence, tasks, fixedVars, pending, status, entryVars, aborted>>

\* finish() takes the key's entry for its own.
CleanAnyEntry(s) ==
    /\ step[s] = "cleaning"
    /\ step' = [step EXCEPT ![s] = "ended"]
    /\ tasks' = IF tasks[key[s]] # NoTask /\ ~owner_retained[tasks[key[s]]]
                THEN [tasks EXCEPT ![key[s]] = NoTask] ELSE tasks
    /\ UNCHANGED <<closed, next_sequence, fixedVars, pending, status, entryVars, aborted>>

\* Shutdown settles the running tasks only.
FailRunning(st) == IF st = "Running" THEN "Unknown" ELSE st

-----------------------------------------------------------------------------
(* join_or_spawn.                                                           *)

Overlaps(a, b) == Browser \in a \/ Browser \in b \/ a \cap b # {}

\* The entries a new task has to wait for: those on its lanes that may still
\* run, and those that may have had an effect nobody knows.
Conflicting(laneSet) ==
    {s \in Registered : Overlaps(lanes[s], laneSet)
                        /\ status[s] \notin {"Completed", "NotDispatched"}}

Saturated ==
    \/ Cardinality(Registered) >= MAX_ADMITTED_BROWSER_OPERATIONS
    \/ next_sequence = MAX_SEQUENCE

\* A key with an entry is joined, or refused if the lanes differ; either way the
\* registry stays as it is.  A closed or full registry refuses.  The task is
\* spawned after the mutex is released and runs beside the caller from then on;
\* that it may take its first step later covers a delayed spawn.
Admit(k, laneSet) ==
    /\ tasks[k] = NoTask
    /\ ~closed
    /\ ~Saturated
    /\ LET s == next_sequence IN
         /\ tasks' = [tasks EXCEPT ![k] = s]
         /\ key' = [key EXCEPT ![s] = k]
         /\ lanes' = [lanes EXCEPT ![s] = laneSet]
         /\ predecessors' = [predecessors EXCEPT ![s] = Conflicting(laneSet)]
         /\ pending' = [pending EXCEPT ![s] = Conflicting(laneSet)]
         /\ step' = [step EXCEPT ![s] = "waiting"]
         /\ owner_retained' = [owner_retained EXCEPT ![s] = TRUE]
    /\ next_sequence' = next_sequence + 1
    /\ UNCHANGED <<closed, status, attached, abort, aborted>>

\* The caller stores the abort handle, if the entry is still the task's and the
\* task not over; if shutdown came in between it aborts the task itself.
AttachAbort(s) ==
    /\ step[s] # "none"
    /\ ~attached[s]
    /\ attached' = [attached EXCEPT ![s] = TRUE]
    /\ abort' = [abort EXCEPT ![s] = IsEntry(s) /\ ~Settled(s)]
    /\ aborted' = IF ~IsEntry(s) /\ closed THEN aborted \cup {s} ELSE aborted
    /\ UNCHANGED <<closed, next_sequence, tasks, fixedVars, pending, status, step,
                   owner_retained>>

-----------------------------------------------------------------------------
(* The spawned task.                                                        *)

\* terminal_transition: the first terminal status stays.
Settle(s, terminal) ==
    status' = [status EXCEPT ![s] = IF @ \in Terminals THEN @ ELSE terminal]

\* The first half of finish(); Clean is the half under the mutex.
BeginFinish(s, terminal) ==
    /\ Settle(s, terminal)
    /\ step' = [step EXCEPT ![s] = "cleaning"]

\* Predecessors are awaited by ascending sequence.
AwaitPredecessor(s) ==
    /\ step[s] = "waiting"
    /\ \E p \in pending[s] :
         /\ \A q \in pending[s] : p <= q
         /\ Settled(p)
         /\ IF status[p] = "Unknown"
            THEN BeginFinish(s, "NotDispatched") /\ UNCHANGED pending
            ELSE /\ pending' = [pending EXCEPT ![s] = @ \ {p}]
                 /\ UNCHANGED <<status, step>>
    /\ UNCHANGED <<closed, next_sequence, tasks, fixedVars, entryVars, aborted>>

\* transition(Queued, Running): a task that shutdown has settled does not start.
Start(s) ==
    /\ step[s] = "waiting"
    /\ pending[s] = {}
    /\ IF status[s] = "Queued"
       THEN /\ status' = [status EXCEPT ![s] = "Running"]
            /\ step' = [step EXCEPT ![s] = "running"]
       ELSE /\ step' = [step EXCEPT ![s] = "ended"]
            /\ UNCHANGED status
    /\ UNCHANGED <<closed, next_sequence, tasks, fixedVars, pending, entryVars, aborted>>

\* run() returns.
BodyEnds(s) ==
    /\ step[s] = "running"
    /\ \E terminal \in Terminals : BeginFinish(s, terminal)
    /\ UNCHANGED <<closed, next_sequence, tasks, fixedVars, pending, entryVars, aborted>>

\* The future is dropped, by a panic of run() or by abort() at an await.
\* TerminalOnDrop settles what is not settled yet.
Drop(s) ==
    /\ \/ step[s] = "running"
       \/ step[s] = "waiting" /\ s \in aborted
    /\ IF Settled(s)
       THEN step' = [step EXCEPT ![s] = "ended"] /\ UNCHANGED status
       ELSE BeginFinish(s, IF status[s] = "Queued" THEN "NotDispatched" ELSE "Unknown")
    /\ UNCHANGED <<closed, next_sequence, tasks, fixedVars, pending, entryVars, aborted>>

\* The second half of finish(): the entry is looked up again and left alone
\* unless it is still this task's (same_channel).
Clean(s) ==
    /\ step[s] = "cleaning"
    /\ step' = [step EXCEPT ![s] = "ended"]
    /\ IF IsEntry(s)
       THEN /\ abort' = [abort EXCEPT ![s] = FALSE]
            /\ tasks' = IF owner_retained[s] THEN tasks ELSE [tasks EXCEPT ![key[s]] = NoTask]
       ELSE UNCHANGED <<abort, tasks>>
    /\ UNCHANGED <<closed, next_sequence, fixedVars, pending, status, attached,
                   owner_retained, aborted>>

-----------------------------------------------------------------------------
(* The owner and shutdown.                                                  *)

\* A task that is not over keeps its entry until it finishes.
EvictOwner(k) ==
    /\ tasks[k] # NoTask
    /\ owner_retained' = [owner_retained EXCEPT ![tasks[k]] = FALSE]
    /\ IF Settled(tasks[k])
       THEN /\ tasks' = [tasks EXCEPT ![k] = NoTask]
            /\ abort' = [abort EXCEPT ![tasks[k]] = FALSE]
       ELSE UNCHANGED <<tasks, abort>>
    /\ UNCHANGED <<closed, next_sequence, fixedVars, pending, status, step, attached, aborted>>

\* fail_unfinished.
FailUnfinished(st) ==
    CASE st = "Queued"  -> "NotDispatched"
      [] st = "Running" -> "Unknown"
      [] OTHER          -> st

\* The handles are used after the mutex is released; an abort takes effect at
\* the task's next await, however late that is.
ShutdownAndClear ==
    /\ ~closed
    /\ closed' = TRUE
    /\ status' = [s \in Tasks |-> IF s \in Registered THEN FailUnfinished(status[s]) ELSE status[s]]
    /\ aborted' = aborted \cup {s \in Registered : abort[s]}
    /\ abort' = [s \in Tasks |-> FALSE]
    /\ tasks' = [k \in Keys |-> NoTask]
    /\ owner_retained' = [s \in Tasks |-> FALSE]
    /\ UNCHANGED <<next_sequence, fixedVars, pending, step, attached>>

-----------------------------------------------------------------------------
\* What the executor makes of a spawned task, apart from its body.
TaskStep(s) == AwaitPredecessor(s) \/ Start(s) \/ Clean(s)

Next ==
    \/ \E k \in Keys, laneSet \in LaneSets : Admit(k, laneSet)
    \/ \E s \in Tasks : AttachAbort(s) \/ TaskStep(s) \/ BodyEnds(s) \/ Drop(s)
    \/ \E k \in Keys : EvictOwner(k)
    \/ ShutdownAndClear

Spec == Init /\ [][Next]_vars

\* Bodies end by themselves; nobody has to shut down or forget anything.
BodiesEnd == \A s \in Tasks : WF_vars(TaskStep(s)) /\ WF_vars(BodyEnds(s) \/ Drop(s))

\* Bodies may run for ever; an aborted one is dropped at its next await.
AbortsTakeEffect == \A s \in Tasks : WF_vars(AttachAbort(s)) /\ WF_vars(s \in aborted /\ Drop(s))
-----------------------------------------------------------------------------
(* Safety.                                                                  *)

\* Two bodies on overlapping lanes never run at the same time, whatever was
\* evicted, dropped or shut down in between
\* (docs/architecture/process-and-transport.md:183-184).
OverlapExclusion ==
    \A s, t \in Tasks :
        s # t /\ step[s] = "running" /\ step[t] = "running" => ~Overlaps(lanes[s], lanes[t])

\* A body has started only if every task it had to wait for is known to have
\* completed or to have done nothing: an uncertain one blocks it for ever
\* (operation_tasks.rs:204-210).
RunsAfterPredecessors ==
    \A s \in Tasks :
        step[s] = "running" \/ status[s] \in {"Running", "Completed"} =>
            \A p \in predecessors[s] : status[p] \in {"Completed", "NotDispatched"}

\* What waiters are told agrees with the body: Queued and Completed are never
\* reported of a body that runs, and NotDispatched only if it never will
\* (operation_tasks.rs:341-396).
StatusIsHonest ==
    \A s \in Tasks :
        /\ step[s] = "running" => status[s] \in {"Running", "Unknown"}
        /\ step[s] \in {"none", "waiting"} => status[s] \in {"Queued", "NotDispatched"}
        /\ step[s] \in {"cleaning", "ended"} => Settled(s)

\* An operation key has at most one task that is not over, though keys can be
\* used again: the same operation is never dispatched twice at once
\* (operation_tasks.rs:148-157, 228-237).
OneLiveTaskPerKey ==
    \A s, t \in Admitted : key[s] = key[t] /\ ~Settled(s) /\ ~Settled(t) => s = t

\* After shutdown no waiter waits: every task ever admitted is settled.
ClosedMeansSettled == closed => \A s \in Admitted : Settled(s)

-----------------------------------------------------------------------------
(* The registry implements OperationService.                                *)

Reported == [s \in Tasks |-> IF step[s] = "none" THEN "none" ELSE status[s]]
Running == {s \in Tasks : step[s] = "running"}

Service == INSTANCE OperationService WITH open <- ~closed, report <- Reported, bodies <- Running

\* Operations on overlapping lanes begin in the order of their admission, each only
\* when all before it are over; the first terminal status of a task is its last, so
\* that joiners, early or late, hear the same; and after shutdown none begins
\* (operation_tasks.rs:180-245, 253-279, 368-382).
ServedInOrder == Service!Spec

-----------------------------------------------------------------------------
(* Liveness.                                                                *)

\* If bodies end, every admitted task is settled: tasks wait for smaller
\* sequences only, so they cannot wait for each other.
EveryTaskSettles == BodiesEnd => \A s \in Tasks : s \in Admitted ~> Settled(s)

\* Shutdown stops every body, also one that would never end and also one whose
\* abort handle was not stored yet (operation_tasks.rs:253-279).
ShutdownStopsBodies == AbortsTakeEffect => (closed ~> \A s \in Tasks : step[s] # "running")

-----------------------------------------------------------------------------
(* What the safety properties rest on: an inductive invariant.              *)

\* Numbers are given out in order, and a task is spawned under its own key and
\* with a new channel.
AdmittedInOrder ==
    \A s \in Tasks :
        IF s < next_sequence
        THEN step[s] # "none" /\ key[s] \in Keys
        ELSE step[s] = "none" /\ predecessors[s] = {} /\ status[s] = "Queued"

\* An entry is an admitted task's, under its own key; after shutdown there is
\* none.
EntriesOwned ==
    \A k \in Keys : tasks[k] # NoTask =>
        ~closed /\ tasks[k] < next_sequence /\ key[tasks[k]] = k

\* Until shutdown, what is not over has its entry, and a body that runs is not
\* reported as over.
LiveIsRegistered ==
    ~closed => \A s \in Admitted : ~Settled(s) => IsEntry(s)
BodyIsLive ==
    ~closed => \A s \in Tasks : step[s] = "running" => status[s] = "Running"

\* What a task no longer waits for is known to be harmless.
AwaitedAreHarmless ==
    \A t \in Tasks :
        step[t] = "waiting" =>
            \A p \in predecessors[t] \ pending[t] : status[p] \in {"Completed", "NotDispatched"}

\* Of two overlapping tasks the later one waits for the earlier, unless that was
\* over before.
OverlapOrdered ==
    \A s, t \in Admitted :
        s < t /\ Overlaps(lanes[s], lanes[t]) =>
            s \in predecessors[t] \/ (Settled(s) /\ step[s] # "running")

IInv ==
    /\ TypeOK
    /\ AdmittedInOrder
    /\ EntriesOwned
    /\ LiveIsRegistered
    /\ BodyIsLive
    /\ StatusIsHonest
    /\ AwaitedAreHarmless
    /\ RunsAfterPredecessors
    /\ OverlapOrdered
    /\ ClosedMeansSettled
=============================================================================
