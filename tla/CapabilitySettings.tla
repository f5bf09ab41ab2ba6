-------------------------- MODULE CapabilitySettings --------------------------
(***************************************************************************)
(* The extension's capability controller (extension/capabilities.js): the    *)
(* chain of reconciliations over a stored setting and what else the           *)
(* capabilities depend on, the chain of changes to the setting, and who       *)
(* asks for the state.                                                       *)
(*                                                                         *)
(* An action is what runs between two awaits, or what Chrome does.  The       *)
(* settings are handled alike; there is one.  Permissions, browser support    *)
(* and probes are the facts, read together, and count how often they changed. *)
(* Chrome announces every change by an event, in order, at any later time.    *)
(***************************************************************************)
EXTENDS Integers, Sequences, FiniteSets

CONSTANTS Callers,         \* of getState and of setBrowserChanges
          Implemented,     \* whether this build implements the capability
          MaxChanges,      \* bound: changes of the facts
          MaxFailures      \* bound: calls of Chrome that fail

ASSUME SettingsAssumption == Implemented \in BOOLEAN /\ MaxChanges \in Nat /\ MaxFailures \in Nat

VARIABLES
    \* Chrome
    stored,        \* the setting, an Option
    facts,
    changes,       \* how often the setting or the facts have changed
    failures,
    \* the controller
    sourceGeneration,
    chain,         \* of each reconciliation queued: "queued", "resolved" or "rejected"
    run,           \* the reconciliation under way: where it is and what it has read
    snapshot,      \* an Option
    mutation,      \* callers in the chain of changes to the setting, the first one active
    callers        \* of each caller: its question, where it is, what it awaits and was given

vars == <<stored, facts, changes, failures, sourceGeneration, chain, run, snapshot, mutation, callers>>

chrome == <<stored, facts, changes, failures>>

Asks == {"state", "on", "off"}
Wanted(ask) == ask = "on"

Snapshots == [revision : Nat, desired : BOOLEAN, facts : Nat, verified : Nat]
Idle == [at |-> "idle", generation |-> 0, read |-> {}, since |-> 0, facts |-> 0]
NoCaller == [at |-> "absent", ask |-> "state", phase |-> "before", awaits |-> 0, asked |-> 0, given |-> {}]

TypeOK ==
    /\ stored \subseteq BOOLEAN /\ Cardinality(stored) <= 1
    /\ facts \in 0..MaxChanges /\ failures \in 0..MaxFailures
    /\ sourceGeneration \in 0..changes
    /\ \A i \in DOMAIN chain : chain[i] \in {"queued", "resolved", "rejected"}
    /\ run.at \in {"idle", "get", "got", "defaults", "facts", "evaluated"}
    /\ run.read \subseteq BOOLEAN
    /\ snapshot \subseteq Snapshots /\ Cardinality(snapshot) <= 1
    /\ \A i, j \in DOMAIN mutation : mutation[i] = mutation[j] => i = j
    /\ \A c \in Callers :
           /\ callers[c].ask \in Asks
           /\ callers[c].at \in {"absent", "try", "retry", "again", "turn", "stored", "applied",
                                 "done", "refused", "failed"}
           /\ callers[c].awaits \in 0..Len(chain)
           /\ callers[c].given \subseteq Snapshots

\* The controller begins with a reconciliation.
Init ==
    /\ stored \in {{}, {TRUE}, {FALSE}}
    /\ facts = 0 /\ changes = 0 /\ failures = 0
    /\ sourceGeneration = 0
    /\ chain = <<"queued">>
    /\ run = Idle
    /\ snapshot = {}
    /\ mutation = <<>>
    /\ callers = [c \in Callers |-> NoCaller]

\* queueReconciliation, and its promise.
QueueReconciliation == chain' = Append(chain, "queued")
Queued == Len(chain) + 1

-----------------------------------------------------------------------------
(* Chrome *)

FactsChange ==
    /\ facts < MaxChanges
    /\ facts' = facts + 1 /\ changes' = changes + 1
    /\ UNCHANGED <<stored, failures, sourceGeneration, chain, run, snapshot, mutation, callers>>

\* (a wrong variant: a reconciliation under way will see to it)
SourceChangedLazily ==
    /\ sourceGeneration < changes
    /\ sourceGeneration' = sourceGeneration + 1
    /\ IF run.at = "idle" THEN QueueReconciliation ELSE UNCHANGED chain
    /\ UNCHANGED <<chrome, run, snapshot, mutation, callers>>

SourceChanged ==
    /\ sourceGeneration < changes
    /\ sourceGeneration' = sourceGeneration + 1
    /\ QueueReconciliation
    /\ UNCHANGED <<chrome, run, snapshot, mutation, callers>>

\* storage.set: there is an event if the value is another one.
Store(value) ==
    /\ stored' = {value}
    /\ changes' = IF stored = {value} THEN changes ELSE changes + 1

-----------------------------------------------------------------------------
(* reconcile *)

First == CHOOSE i \in DOMAIN chain : chain[i] = "queued" /\ \A j \in 1..i - 1 : chain[j] # "queued"
Settle(outcome) == run' = Idle /\ chain' = [chain EXCEPT ![First] = outcome]

Reconcile ==
    /\ run.at = "idle" /\ \E i \in DOMAIN chain : chain[i] = "queued"
    /\ run' = [Idle EXCEPT !.at = "get", !.generation = sourceGeneration]
    /\ UNCHANGED <<chrome, sourceGeneration, chain, snapshot, mutation, callers>>

StorageGet ==
    /\ run.at = "get"
    /\ run' = [run EXCEPT !.at = "got", !.read = stored, !.since = changes]
    /\ UNCHANGED <<chrome, sourceGeneration, chain, snapshot, mutation, callers>>

\* readDesiredSettings: a setting that is not there becomes FALSE.
ReadDesiredSettings ==
    /\ run.at = "got"
    /\ IF run.generation # sourceGeneration THEN Settle("resolved")
       ELSE run' = [run EXCEPT !.at = IF run.read = {} THEN "defaults" ELSE "facts"] /\ UNCHANGED chain
    /\ UNCHANGED <<chrome, sourceGeneration, snapshot, mutation, callers>>

StoreDefaults ==
    /\ run.at = "defaults"
    /\ Store(FALSE)
    /\ run' = [run EXCEPT !.at = "facts", !.read = {FALSE}]
    /\ UNCHANGED <<facts, failures, sourceGeneration, chain, snapshot, mutation, callers>>

ReadFacts ==
    /\ run.at = "facts"
    /\ run' = [run EXCEPT !.at = "evaluated", !.facts = facts]
    /\ UNCHANGED <<chrome, sourceGeneration, chain, snapshot, mutation, callers>>

\* A snapshot of new content, unless an event has overtaken the reads.
Publish ==
    /\ run.at = "evaluated"
    /\ Settle("resolved")
    /\ LET desired == TRUE \in run.read
       IN snapshot' =
            IF run.generation # sourceGeneration THEN snapshot
            ELSE IF \E old \in snapshot : old.desired = desired /\ old.facts = run.facts
            THEN {[old EXCEPT !.verified = run.since] : old \in snapshot}
            ELSE {[revision |-> IF snapshot = {} THEN 1 ELSE 1 + (CHOOSE old \in snapshot : TRUE).revision,
                   desired |-> desired, facts |-> run.facts, verified |-> run.since]}
    /\ UNCHANGED <<chrome, sourceGeneration, mutation, callers>>

\* A call of Chrome fails, and the reconciliation with it.
Fail ==
    /\ failures < MaxFailures
    /\ run.at \in {"get", "defaults", "facts"}
    /\ failures' = failures + 1
    /\ Settle("rejected")
    /\ UNCHANGED <<stored, facts, changes, sourceGeneration, snapshot, mutation, callers>>

-----------------------------------------------------------------------------
(* getState *)

Become(c, caller) == callers' = [callers EXCEPT ![c] = caller]
\* The promise of the first in the chain of changes is settled, if it is the caller's.
Leave(c) == IF mutation # <<>> /\ Head(mutation) = c THEN Tail(mutation) ELSE mutation
\* getState begins to wait until the controller is idle.
BeginState(caller) == [caller EXCEPT !.at = "try", !.awaits = Len(chain), !.asked = sourceGeneration]

Ask(c) ==
    /\ callers[c].at = "absent"
    /\ \E ask \in Asks : Become(c, BeginState([NoCaller EXCEPT !.ask = ask]))
    /\ UNCHANGED <<chrome, sourceGeneration, chain, run, snapshot, mutation>>

\* (a wrong variant: a failure is forgotten)
OutcomeForgotten(c) == IF chain[callers[c].awaits] = "queued" THEN "queued" ELSE "resolved"

Outcome(c) == chain[callers[c].awaits]
Queue(c, at) == QueueReconciliation /\ Become(c, [callers[c] EXCEPT !.at = at, !.awaits = Queued])
Stay(c, at) == Become(c, [callers[c] EXCEPT !.at = at, !.awaits = Len(chain)]) /\ UNCHANGED chain

\* A promise that getState awaits is settled: the one it took for the last of the
\* chain ("try", "again"), or its own ("retry").
Awake(c) ==
    /\ callers[c].at \in {"try", "retry", "again"}
    /\ Outcome(c) # "queued"
    /\ LET at == callers[c].at
       IN CASE Outcome(c) = "rejected" /\ at = "try" -> Queue(c, "retry")
            [] Outcome(c) = "rejected" /\ at # "try" ->
                   Become(c, [callers[c] EXCEPT !.at = "failed"]) /\ UNCHANGED chain
            [] Outcome(c) = "resolved" /\ at = "retry" -> Stay(c, "again")
            [] OTHER -> /\ callers[c].awaits # Len(chain)
                        /\ Stay(c, at)
    /\ mutation' = IF callers'[c].at = "failed" THEN Leave(c) ELSE mutation
    /\ UNCHANGED <<chrome, sourceGeneration, run, snapshot>>

Idled(c) ==
    /\ callers[c].at \in {"try", "again"}
    /\ Outcome(c) = "resolved" /\ callers[c].awaits = Len(chain)

\* (a wrong variant: getState does not wait)
HasStateAtOnce(c) == callers[c].at \in {"try", "again"}

\* getState returns.  Without a snapshot it would queue one more reconciliation,
\* which SnapshotIsThere shows to be needless.
HasState(c) == Idled(c) /\ snapshot # {}

\* The state is the answer.
Give(c) ==
    /\ HasState(c) /\ (callers[c].ask = "state" \/ callers[c].phase = "after")
    /\ Become(c, [callers[c] EXCEPT !.at = "done", !.given = snapshot])
    /\ mutation' = Leave(c)
    /\ UNCHANGED <<chrome, sourceGeneration, chain, run, snapshot>>

-----------------------------------------------------------------------------
(* setBrowserChanges and setDesired *)

\* The state tells what is implemented; then it is the caller's turn or not yet.
SetBrowserChanges(c) ==
    /\ HasState(c) /\ callers[c].ask # "state" /\ callers[c].phase = "before"
    /\ IF Wanted(callers[c].ask) /\ ~Implemented
       THEN Become(c, [callers[c] EXCEPT !.at = "refused", !.given = snapshot]) /\ UNCHANGED mutation
       ELSE Become(c, [callers[c] EXCEPT !.at = "turn"]) /\ mutation' = Append(mutation, c)
    /\ UNCHANGED <<chrome, sourceGeneration, chain, run, snapshot>>

\* setDesired in the chain: a state first.
SetDesired(c) ==
    /\ callers[c].at = "turn" /\ Head(mutation) = c
    /\ Become(c, [BeginState(callers[c]) EXCEPT !.phase = "turn"])
    /\ UNCHANGED <<chrome, sourceGeneration, chain, run, snapshot, mutation>>

HasTurnState(c) == HasState(c) /\ callers[c].phase = "turn"

StorageSet(c) ==
    /\ HasTurnState(c)
    /\ Store(Wanted(callers[c].ask))
    /\ Become(c, [callers[c] EXCEPT !.at = "stored"])
    /\ UNCHANGED <<facts, failures, sourceGeneration, chain, run, snapshot, mutation>>

StorageSetFails(c) ==
    /\ HasTurnState(c) /\ failures < MaxFailures
    /\ failures' = failures + 1
    /\ Become(c, [callers[c] EXCEPT !.at = "failed"])
    /\ mutation' = Leave(c)
    /\ UNCHANGED <<stored, facts, changes, sourceGeneration, chain, run, snapshot>>

\* (a wrong variant: the event will see to it)
GiveAtOnce(c) ==
    /\ callers[c].at = "stored"
    /\ Become(c, [BeginState(callers[c]) EXCEPT !.phase = "after"])
    /\ UNCHANGED <<chrome, sourceGeneration, chain, run, snapshot, mutation>>

\* The caller does not rely on the event of its change.
ReconcileSetting(c) ==
    /\ callers[c].at = "stored"
    /\ Queue(c, "applied")
    /\ UNCHANGED <<chrome, sourceGeneration, run, snapshot, mutation>>

\* (a wrong variant: a failure blocks the chain)
AppliedBlocking(c) ==
    /\ callers[c].at = "applied" /\ Outcome(c) # "queued"
    /\ IF Outcome(c) = "rejected" THEN Become(c, [callers[c] EXCEPT !.at = "failed"])
       ELSE Become(c, [BeginState(callers[c]) EXCEPT !.phase = "after"])
    /\ UNCHANGED <<chrome, sourceGeneration, chain, run, snapshot, mutation>>

Applied(c) ==
    /\ callers[c].at = "applied" /\ Outcome(c) # "queued"
    /\ IF Outcome(c) = "rejected"
       THEN Become(c, [callers[c] EXCEPT !.at = "failed"]) /\ mutation' = Leave(c)
       ELSE Become(c, [BeginState(callers[c]) EXCEPT !.phase = "after"]) /\ UNCHANGED mutation
    /\ UNCHANGED <<chrome, sourceGeneration, chain, run, snapshot>>

Controller == Reconcile \/ StorageGet \/ ReadDesiredSettings \/ StoreDefaults \/ ReadFacts \/ Publish
Caller(c) == \/ Awake(c) \/ Give(c) \/ SetBrowserChanges(c) \/ SetDesired(c)
             \/ StorageSet(c) \/ ReconcileSetting(c) \/ Applied(c)

Next ==
    \/ FactsChange \/ SourceChanged \/ Controller \/ Fail
    \/ \E c \in Callers : Ask(c) \/ Caller(c) \/ StorageSetFails(c)

Spec == Init /\ [][Next]_vars

\* Events arrive, Chrome answers and the event loop runs; nobody has to ask.
Fairness ==
    /\ WF_vars(SourceChanged) /\ WF_vars(Controller)
    /\ \A c \in Callers : WF_vars(Caller(c))
FairSpec == Spec /\ Fairness

-----------------------------------------------------------------------------
(* Properties *)

\* A default never replaces a setting: by the time a caller may change it the
\* defaults are there, although a reconciliation checks nothing between its read
\* and its write (readDesiredSettings, and setDesired's wait for the state).
DefaultsNeverOverwrite == run.at = "defaults" => stored = {}

\* Who changes the setting is given a state that has the change, whatever other
\* reconciliations were under way, discarded or failed meanwhile (setDesired).
SetterSeesItsSetting ==
    \A c \in Callers : \A state \in callers[c].given :
        callers[c].phase = "after" => state.desired = Wanted(callers[c].ask)

\* A state that is given was read after all the events that had been delivered
\* when it was asked for (getState, whenIdle, the generation checks of reconcile).
FreshState ==
    \A c \in Callers : \A state \in callers[c].given :
        callers[c].at \in {"done", "refused"} => state.verified >= callers[c].asked

\* Whenever getState has waited there is a snapshot: a failure of the last
\* reconciliation is one getState sees and repeats, and a reconciliation that is
\* discarded is never the last (getState's catch, sourceChanged).
SnapshotIsThere == \A c \in Callers : Idled(c) => snapshot # {}

\* All of this at once.
SettingsHold ==
    /\ TypeOK
    /\ DefaultsNeverOverwrite
    /\ SetterSeesItsSetting
    /\ FreshState
    /\ SnapshotIsThere

(* What makes SettingsHold inductive. *)

InChain(c) == \E i \in DOMAIN mutation : mutation[i] = c
Active(c) == callers[c].phase # "before" /\ callers[c].at \notin {"done", "failed"}

Options == {{}, {TRUE}, {FALSE}}
Outcomes == {"queued", "resolved", "rejected"}
Runs == [at : {"idle", "get", "got", "defaults", "facts", "evaluated"}, generation : Nat,
         read : SUBSET BOOLEAN, since : Nat, facts : Nat]
CallerStates ==
    [at : {"absent", "try", "retry", "again", "turn", "stored", "applied", "done", "refused", "failed"},
     ask : Asks, phase : {"before", "turn", "after"}, awaits : Nat, asked : Nat, given : SUBSET Snapshots]

Shapes ==
    /\ stored \in Options
    /\ facts \in 0..MaxChanges /\ failures \in 0..MaxFailures
    /\ changes \in Nat /\ sourceGeneration \in 0..changes
    /\ chain \in Seq(Outcomes) /\ chain # <<>>
    /\ run \in Runs
    /\ snapshot \subseteq Snapshots /\ \A s, t \in snapshot : s = t
    /\ mutation \in Seq(Callers)
    /\ callers \in [Callers -> CallerStates]

\* Reconciliations are settled in their order.
SettledInOrder == \E n \in 0..Len(chain) : \A i \in DOMAIN chain : chain[i] = "queued" <=> i > n

\* Nobody changes the setting while a reconciliation is under way, and one that an
\* event has overtaken is not the last.
RunIsCurrent ==
    run.at # "idle" =>
        /\ chain[Len(chain)] = "queued"
        /\ run.generation <= sourceGeneration
        /\ run.generation # sourceGeneration => \E i \in DOMAIN chain : i < Len(chain) /\ chain[i] = "queued"
        /\ run.at # "get" => run.read = stored /\ run.since >= run.generation
        /\ run.at = "defaults" => stored = {}
        /\ run.at \in {"facts", "evaluated"} => stored # {}

\* If the last reconciliation has succeeded, the snapshot is of the latest event
\* and has the setting, unless a caller has just stored another one.
LastIsPublished ==
    chain[Len(chain)] = "resolved" =>
        \E s \in snapshot : /\ s.verified >= sourceGeneration
                            /\ stored = {s.desired} \/ \E c \in Callers : callers[c].at = "stored"

CallersInPhase ==
    \A c \in Callers :
        /\ callers[c].awaits <= Len(chain) /\ callers[c].asked <= sourceGeneration
        /\ callers[c].at \in {"try", "retry", "again", "applied"} => callers[c].awaits > 0
        /\ callers[c].at \notin {"done", "refused"} => callers[c].given = {}
        /\ callers[c].at \in {"absent", "turn", "refused"} => callers[c].phase = "before"
        /\ callers[c].at \in {"stored", "applied"} => callers[c].phase = "turn"

\* The first in the chain of changes is the one that is at work, and the setting is
\* the one it has stored.
OneAtATime ==
    /\ \A i, j \in DOMAIN mutation : mutation[i] = mutation[j] => i = j
    /\ \A c \in Callers :
           /\ InChain(c) <=> callers[c].at = "turn" \/ Active(c)
           /\ Active(c) => mutation # <<>> /\ Head(mutation) = c
           /\ Active(c) /\ (callers[c].at \in {"stored", "applied"} \/ callers[c].phase = "after") =>
                  stored = {Wanted(callers[c].ask)}

IInv ==
    /\ Shapes
    /\ SettledInOrder
    /\ RunIsCurrent
    /\ LastIsPublished
    /\ CallersInPhase
    /\ OneAtATime
    /\ SetterSeesItsSetting
    /\ FreshState

-----------------------------------------------------------------------------
\* Every caller gets an answer or an error.
EveryCallEnds ==
    \A c \in Callers : callers[c].at # "absent" ~> callers[c].at \in {"done", "refused", "failed"}

\* When nothing changes any more the snapshot is what there is, in the setting and
\* in the facts, also after failures: unless the last reconciliation is one that
\* failed, and nobody has asked again.
Converges ==
    <>[](chain[Len(chain)] = "rejected" \/ \E state \in snapshot : {state.desired} = stored /\ state.facts = facts)

=============================================================================
