--------------------------- MODULE SnapshotRuntime ---------------------------
(***************************************************************************)
(* Several browser.snapshot calls over one connection: what the broker      *)
(* keeps between them (RuntimeState in native/src/runtime.rs), the locked    *)
(* part of execute and continue_snapshot (native/src/browser_snapshot.rs),   *)
(* and the extension that answers them while its model and its capabilities *)
(* change.                                                                  *)
(*                                                                         *)
(* Windows, groups and tabs are handled alike and are all "objects" here,    *)
(* named by their incarnation keys.  SnapshotRules says what one baseline    *)
(* must look like and what a page shows, RetainedStore what the retention    *)
(* evicts: here it may evict any of the oldest snapshots at any insertion.   *)
(***************************************************************************)
EXTENDS Integers, Sequences, FiniteSets, SequencesExt

CONSTANTS Callers,                  \* MCP calls
          Keys,                     \* incarnation keys
          Asks,                     \* the details and frozen filters asked for
          BrowserCodes,             \* codes of a failed request
          MAX_RETAINED_SNAPSHOTS,
          MaxRevision,              \* bound: revisions of the extension's model
          MaxCapability,            \* bound: revisions of its capability state
          MaxIssued                 \* bound: snapshots with pages

ASSUME RuntimeAssumption ==
    /\ {MAX_RETAINED_SNAPSHOTS, MaxRevision, MaxCapability, MaxIssued} \subseteq Nat
    /\ Asks \subseteq [detail : {"counts", "compact", "full"}, frozen : BOOLEAN]

VARIABLES
    models,        \* extension: every model so far, the last one is current
    capability,    \* extension: its capability state
    published,     \* extension: the last capability revision it posted
    wire,          \* from the extension to the broker's reader
    connected,     \* ConnectedBrowser, an Option
    references,    \* ReferenceRegistry: key to public reference
    latest,        \* latest_model_revision and latest_model_fingerprint, an Option
    retention,     \* retained snapshots, oldest first
    issued,        \* how many snapshots have been retained
    calls,         \* the calls
    shown,         \* history: the references that clients have seen
    newest         \* history: the latest revision that a result came from

extension == <<models, capability, published>>
broker == <<connected, references, latest, retention, issued>>
history == <<shown, newest>>
vars == <<models, capability, published, wire, connected, references, latest, retention,
          issued, calls, shown, newest>>

-----------------------------------------------------------------------------
(* State *)

Models == [objects : SUBSET Keys, frozen : BOOLEAN]
CapabilityStates == [revision : Nat, frozen : BOOLEAN, effective : BOOLEAN]
\* A reference is as unique as its UUID: the snapshot that issued it and the object.
Refs == [of : Keys, by : 1..MaxIssued]
Shown == [key : Keys, ref : Refs]
Baselines == [revision : Nat, objects : SUBSET Keys, frozen : BOOLEAN]
Params == [detail : {"counts", "compact", "full"}, frozen : BOOLEAN, target : SUBSET Shown]
NoParams == [detail |-> "compact", frozen |-> FALSE, target |-> {}]
Results == {"none", "page", "counts", "CAPABILITY_DISABLED", "CAPABILITY_UNAVAILABLE", "NOT_FOUND",
            "RATE_LIMITED", "INVALID_ARGUMENT", "RESULT_TOO_LARGE", "HANDLE_EXPIRED", "TIMEOUT",
            "INTERNAL_ERROR"}
PCs == {"idle", "requested", "captured", "synchronized", "posted", "answered"}
Calls == [pc : PCs, params : Params, baseline : Baselines, awaits : Nat, result : Results]

AnswerTo(c) == [type |-> "answer", caller |-> c]
CapabilityMessages == [type : {"capabilities"}, state : CapabilityStates]
Messages == CapabilityMessages \cup {AnswerTo(c) : c \in Callers}
References == UNION {[keys -> Refs] : keys \in SUBSET Keys}
Retained == [by : 1..MaxIssued, references : References]

TypeOK ==
    /\ models \in Seq(Models) /\ models # <<>>
    /\ capability \in CapabilityStates
    /\ published \in Nat
    /\ wire \in Seq(Messages)
    /\ connected \subseteq CapabilityStates
    /\ references \in References
    /\ latest \subseteq Baselines
    /\ retention \in Seq(Retained)
    /\ issued \in 0..MaxIssued
    /\ calls \in [Callers -> Calls]
    /\ shown \subseteq Shown
    /\ newest \in Nat

NoBaseline == [revision |-> 0, objects |-> {}, frozen |-> FALSE]
Idle == [pc |-> "idle", params |-> NoParams, baseline |-> NoBaseline, awaits |-> 0,
         result |-> "none"]

\* The extension has sent ready, and the broker has taken it (connect).
Init ==
    /\ \E objects \in SUBSET Keys, frozen \in BOOLEAN :
           /\ models = <<[objects |-> objects, frozen |-> frozen]>>
           /\ capability = [revision |-> 1, frozen |-> frozen, effective |-> TRUE]
    /\ published = 1
    /\ wire = <<>>
    /\ connected = {capability}
    /\ references = [key \in {} |-> key]
    /\ latest = {}
    /\ retention = <<>>
    /\ issued = 0
    /\ calls = [c \in Callers |-> Idle]
    /\ shown = {}
    /\ newest = 0

Current == Last(models)
Used == UNION {models[n].objects : n \in DOMAIN models}

-----------------------------------------------------------------------------
(* The extension *)

\* Chrome changes: objects go, new ones come under new keys, and Chrome may
\* turn out to report frozen tabs, which it then always does.
Apply ==
    /\ Len(models) < MaxRevision
    /\ \E gone \in SUBSET Current.objects, new \in SUBSET (Keys \ Used), frozen \in BOOLEAN :
           /\ Current.frozen => frozen
           /\ models' = Append(models, [objects |-> (Current.objects \ gone) \cup new,
                                        frozen |-> frozen])
    /\ UNCHANGED <<capability, published, wire, broker, calls, history>>

\* The controller finds a capability state that differs from its last.
Reconcile ==
    /\ capability.revision < MaxCapability
    /\ \E effective \in BOOLEAN :
           /\ <<capability.frozen, capability.effective>> # <<Current.frozen, effective>>
           /\ capability' = [revision |-> capability.revision + 1, frozen |-> Current.frozen,
                             effective |-> effective]
    /\ UNCHANGED <<models, published, wire, broker, calls, history>>

PublishCapabilitiesChanged ==
    /\ capability.revision > published
    /\ published' = capability.revision
    /\ wire' = Append(wire, [type |-> "capabilities", state |-> capability])
    /\ UNCHANGED <<models, capability, broker, calls, history>>

\* dispatch: the answer's baseline is the model of this moment.
Capture(c) ==
    /\ calls[c].pc = "requested"
    /\ calls' = [calls EXCEPT ![c].pc = "captured",
                              ![c].baseline = [revision |-> Len(models),
                                               objects |-> Current.objects,
                                               frozen |-> Current.frozen]]
    /\ UNCHANGED <<extension, wire, broker, history>>

\* synchronizeCapabilityPublication, once the controller is idle.
Synchronize(c) ==
    /\ calls[c].pc = "captured"
    /\ capability.frozen = Current.frozen
    /\ calls' = [calls EXCEPT ![c].pc = "synchronized", ![c].awaits = capability.revision]
    /\ UNCHANGED <<extension, wire, broker, history>>

\* (a wrong variant: the answer does not wait for the capability state)
PostAtOnce(c) ==
    /\ calls[c].pc \in {"captured", "synchronized"}
    /\ wire' = Append(wire, AnswerTo(c))
    /\ calls' = [calls EXCEPT ![c].pc = "posted"]
    /\ UNCHANGED <<extension, broker, history>>

Post(c) ==
    /\ calls[c].pc = "synchronized"
    /\ published >= calls[c].awaits
    /\ wire' = Append(wire, AnswerTo(c))
    /\ calls' = [calls EXCEPT ![c].pc = "posted"]
    /\ UNCHANGED <<extension, broker, history>>

-----------------------------------------------------------------------------
(* The broker's reader *)

ApplyCapabilities ==
    /\ connected # {} /\ wire # <<>>
    /\ Head(wire).type = "capabilities"
    /\ wire' = Tail(wire)
    /\ connected' = {IF Head(wire).state.revision <= old.revision THEN old ELSE Head(wire).state :
                         old \in connected}
    /\ UNCHANGED <<extension, references, latest, retention, issued, calls, history>>

\* The answer goes to the call that waits for it.
TakeResponse ==
    /\ connected # {} /\ wire # <<>>
    /\ Head(wire).type = "answer"
    /\ wire' = Tail(wire)
    /\ calls' = [calls EXCEPT ![Head(wire).caller].pc = "answered"]
    /\ UNCHANGED <<extension, broker, history>>

\* The connection ends; the process will end with it.
Clear ==
    /\ connected # {}
    /\ connected' = {}
    /\ references' = [key \in {} |-> key]
    /\ retention' = <<>>
    /\ latest' = {}
    /\ wire' = <<>>
    /\ UNCHANGED <<extension, issued, calls, history>>

-----------------------------------------------------------------------------
(* The calls *)

Return(c, result) == calls' = [calls EXCEPT ![c] = [Idle EXCEPT !.result = result]]

\* require_snapshot_capability
Available == \E browser \in connected : browser.effective

\* The client names, if anything, an object by a reference that it was shown.
Request(c) ==
    /\ calls[c].pc = "idle"
    /\ \E ask \in Asks, target \in {{}} \cup {{object} : object \in shown} :
           IF Available
           THEN calls' = [calls EXCEPT ![c] =
                    [Idle EXCEPT !.pc = "requested",
                                 !.params = [detail |-> ask.detail, frozen |-> ask.frozen,
                                             target |-> target]]]
           ELSE Return(c, "CAPABILITY_UNAVAILABLE")
    /\ UNCHANGED <<extension, wire, broker, history>>

\* public_browser_error
PublicCode(code) ==
    CASE code \in {"CAPABILITY_DISABLED", "CAPABILITY_UNAVAILABLE", "NOT_FOUND", "RATE_LIMITED",
                   "INVALID_ARGUMENT", "RESULT_TOO_LARGE"} -> code
      [] code \in {"TIMEOUT", "DEADLINE_EXCEEDED"} -> "TIMEOUT"
      [] code = "RESPONSE_TOO_LARGE" -> "RESULT_TOO_LARGE"
      [] OTHER -> "INTERNAL_ERROR"

\* The request fails, or the call gives up: an answer on its way will find no waiter.
RequestFails(c) ==
    /\ calls[c].pc \in {"requested", "captured", "synchronized", "posted"}
    /\ \E code \in BrowserCodes : Return(c, PublicCode(code))
    /\ \/ \E i \in DOMAIN wire : wire[i] = AnswerTo(c) /\ wire' = RemoveAt(wire, i)
       \/ AnswerTo(c) \notin Range(wire) /\ UNCHANGED wire
    /\ UNCHANGED <<extension, broker, history>>

\* (a wrong variant: the order of the answers does not matter)
OvertakenByRevisionOnly(baseline) ==
    \E known \in latest : baseline.revision = known.revision /\ baseline # known

\* The broker has handled a later model, or another one of this revision.
Overtaken(baseline) ==
    \E known \in latest :
        \/ baseline.revision < known.revision
        \/ baseline.revision = known.revision /\ baseline # known

FlagsDiffer(baseline) == \E browser \in connected : browser.frozen # baseline.frozen

\* (a wrong variant: every snapshot has references of its own)
ReconciledAnew(baseline) == [key \in baseline.objects |-> [of |-> key, by |-> issued + 1]]

\* The registry after reconcile: references of objects that are still there
\* stay, new objects get new ones.  (A key never comes with another Chrome id,
\* see KeysFollowLives in BrowserModel, so reconcile itself cannot fail.)
Reconciled(baseline) ==
    [key \in baseline.objects |->
        IF key \in DOMAIN references THEN references[key]
        ELSE [of |-> key, by |-> issued + 1]]

\* What a client sees of these references, on this page or a later one.
Seen(refs) == {[key |-> key, ref |-> refs[key]] : key \in DOMAIN refs}

Unresolved(c) ==
    \E object \in calls[c].params.target :
        \A key \in calls[c].baseline.objects : Reconciled(calls[c].baseline)[key] # object.ref

\* (a wrong variant: what was checked before the request still holds)
RefusalOnceAvailable(c) ==
    LET baseline == calls[c].baseline
    IN IF Overtaken(baseline) \/ FlagsDiffer(baseline) THEN "INTERNAL_ERROR"
       ELSE IF calls[c].params.frozen /\ ~baseline.frozen THEN "CAPABILITY_UNAVAILABLE"
       ELSE IF Unresolved(c) THEN "NOT_FOUND"
       ELSE "none"

\* The checks under the lock, in their order.
Refusal(c) ==
    LET baseline == calls[c].baseline
    IN IF ~Available THEN "CAPABILITY_UNAVAILABLE"
       ELSE IF Overtaken(baseline) \/ FlagsDiffer(baseline) THEN "INTERNAL_ERROR"
       ELSE IF calls[c].params.frozen /\ ~baseline.frozen THEN "CAPABILITY_UNAVAILABLE"
       ELSE IF Unresolved(c) THEN "NOT_FOUND"
       ELSE "none"

Refuse(c) ==
    /\ calls[c].pc = "answered"
    /\ Refusal(c) # "none"
    /\ Return(c, Refusal(c))
    /\ UNCHANGED <<extension, wire, broker, history>>

\* (a wrong variant: counts leave no trace)
CountForgetfully(c) ==
    /\ calls[c].pc = "answered"
    /\ Refusal(c) = "none"
    /\ calls[c].params.detail = "counts"
    /\ newest' = calls[c].baseline.revision
    /\ Return(c, "counts")
    /\ UNCHANGED <<extension, wire, broker, shown>>

Count(c) ==
    /\ calls[c].pc = "answered"
    /\ Refusal(c) = "none"
    /\ calls[c].params.detail = "counts"
    /\ latest' = {calls[c].baseline}
    /\ newest' = calls[c].baseline.revision
    /\ Return(c, "counts")
    /\ UNCHANGED <<extension, wire, connected, references, retention, issued, shown>>

\* Retained if it fits, after as many of the oldest as its size calls for.
Retain(c) ==
    /\ calls[c].pc = "answered"
    /\ Refusal(c) = "none"
    /\ calls[c].params.detail # "counts"
    /\ issued < MaxIssued
    /\ LET baseline == calls[c].baseline
           refs == Reconciled(baseline)
       IN /\ \E evicted \in 0..Len(retention) :
                 /\ Len(retention) - evicted < MAX_RETAINED_SNAPSHOTS
                 /\ retention' = Append(SubSeq(retention, evicted + 1, Len(retention)),
                                        [by |-> issued + 1, references |-> refs])
          /\ references' = refs
          /\ latest' = {baseline}
          /\ newest' = baseline.revision
          /\ shown' = shown \cup Seen(refs)
    /\ issued' = issued + 1
    /\ Return(c, "page")
    /\ UNCHANGED <<extension, wire, connected>>

\* The answer (before the checks under the lock), the references, the cursors or
\* the result are too large: nothing is kept of them.  The other errors of the store
\* cannot occur: the key is a fresh UUID, and what is there fits into memory.
TooLarge(c) ==
    /\ calls[c].pc = "answered"
    /\ Return(c, "RESULT_TOO_LARGE")
    /\ UNCHANGED <<extension, wire, broker, history>>

\* A cursor of the snapshot that was the n-th to be retained.
ContinueSnapshot(c) ==
    /\ calls[c].pc = "idle"
    /\ \E n \in 1..issued :
           LET kept == {snapshot \in Range(retention) : snapshot.by = n}
           IN IF ~Available THEN Return(c, "CAPABILITY_UNAVAILABLE") /\ UNCHANGED shown
              ELSE IF kept = {} THEN Return(c, "HANDLE_EXPIRED") /\ UNCHANGED shown
              ELSE /\ Return(c, "page")
                   /\ shown' = shown \cup UNION {Seen(snapshot.references) : snapshot \in kept}
    /\ UNCHANGED <<extension, wire, broker, newest>>

\* A snapshot's time is over.
Expire ==
    /\ retention # <<>>
    /\ retention' = Tail(retention)
    /\ UNCHANGED <<extension, wire, connected, references, latest, issued, calls, history>>

\* (without the port nothing reaches the broker any more)
Extension == connected # {} /\ ( \/ Apply \/ Reconcile \/ PublishCapabilitiesChanged
                                \/ \E c \in Callers : Capture(c) \/ Synchronize(c) \/ Post(c) )
CallStep(c) == \/ Request(c) \/ RequestFails(c) \/ Refuse(c) \/ Count(c) \/ Retain(c)
               \/ TooLarge(c) \/ ContinueSnapshot(c)

Next ==
    \/ Extension
    \/ ApplyCapabilities \/ TakeResponse \/ Clear \/ Expire
    \/ \E c \in Callers : CallStep(c)

Spec == Init /\ [][Next]_vars

-----------------------------------------------------------------------------
(* Properties *)

\* Over one connection an object has one reference, whatever is answered late,
\* evicted or only counted meanwhile (ReferenceRegistry::reconcile keeps an
\* entry only as long as each baseline that is handled has the object, and the
\* revision check of execute keeps older baselines out).
StableReferences == \A a, b \in shown : a.key = b.key => a.ref = b.ref

\* Nothing of a connection outlives it, although answers may be handled after
\* its end (BrokerRuntime::clear, the checks of execute under the lock).
NothingOutlivesConnection ==
    connected = {} => references = [key \in {} |-> key] /\ latest = {} /\ retention = <<>>

\* Both at once, with the types.
ReferencesHold ==
    /\ TypeOK
    /\ StableReferences
    /\ NothingOutlivesConnection

\* An object that a client was shown, and that is still there, is found by its
\* reference (matched_tabs and SnapshotReferences::resolve_*, over reconcile).
TargetsAreFound ==
    [][\A c \in Callers :
           calls[c].pc = "answered" /\ calls'[c].result = "NOT_FOUND"
               => \A object \in calls[c].params.target :
                      object.key \notin calls[c].baseline.objects]_vars

\* No result comes from an older model than an earlier result of the
\* connection, not even after a call that only counted (execute).
ResultsInOrder ==
    [][\A c \in Callers :
           calls[c].pc = "answered" /\ calls'[c].result \in {"page", "counts"}
               => calls[c].baseline.revision >= newest]_vars

\* What a call hands out agrees with what earlier ones did.
ResultsAgree == TargetsAreFound /\ ResultsInOrder

\* A sound answer is refused as inconsistent only if something newer came
\* first: a result from a later model, or a capability state with more support
\* than Chrome had shown at the capture.  Above all the capability state that
\* an answer depends on is never behind it (synchronizeCapabilityPublication
\* in extension/background-controller.js; execute).
RefusedOnlyIfOvertaken ==
    [][\A c \in Callers :
           calls[c].pc = "answered" /\ calls'[c].result = "INTERNAL_ERROR"
               => \/ \E known \in latest : known.revision > calls[c].baseline.revision
                  \/ \E browser \in connected : browser.frozen /\ ~calls[c].baseline.frozen]_vars

-----------------------------------------------------------------------------
(* The inductive invariant behind them *)

\* An object that is gone never comes back under its key, and Chrome goes on
\* reporting frozen tabs.
ModelsGrow ==
    /\ \A i, n, j \in DOMAIN models :
           i <= n /\ n <= j => models[i].objects \cap models[j].objects \subseteq models[n].objects
    /\ \A i, j \in DOMAIN models : i <= j /\ models[i].frozen => models[j].frozen
    /\ capability.frozen => Current.frozen

\* A baseline is what the model was at its revision.
IsCapture(baseline) ==
    /\ baseline.revision \in DOMAIN models
    /\ baseline.objects = models[baseline.revision].objects
    /\ baseline.frozen = models[baseline.revision].frozen

CallsAreSound ==
    \A c \in Callers :
        /\ calls[c].pc \in {"captured", "synchronized", "posted", "answered"}
               => IsCapture(calls[c].baseline)
        /\ calls[c].pc # "idle" => calls[c].result = "none"
        /\ calls[c].params.target \subseteq shown
        /\ \A a, b \in calls[c].params.target : a = b

\* What the broker knows of the latest model.
LatestIsSound ==
    /\ \A known \in latest : IsCapture(known) /\ newest = known.revision
    /\ \A a, b \in latest : a = b
    /\ connected # {} /\ latest = {} => shown = {} /\ newest = 0

\* What was shown is either still registered or gone for good.
ShownIsKnown ==
    connected # {} =>
        \A object \in shown :
            /\ object.key \in DOMAIN references => references[object.key] = object.ref
            /\ \A known \in latest :
                   /\ \E i \in DOMAIN models : i <= known.revision /\ object.key \in models[i].objects
                   /\ object.key \notin DOMAIN references =>
                          \A j \in DOMAIN models : j >= known.revision => object.key \notin models[j].objects

RetainedIsShown == \A i \in DOMAIN retention : Seen(retention[i].references) \subseteq shown

IsState(i) == wire[i] \in CapabilityMessages

\* An earlier capability state has less support, and the same one as much.
Before(a, b) == a.revision < b.revision /\ (a.frozen => b.frozen)
UpTo(a, b) == Before(a, b) \/ a = b

\* Capability states reach the broker in order, up to the last one published.
StatesInOrder ==
    /\ published <= capability.revision
    /\ \A i \in DOMAIN wire : IsState(i) =>
           /\ wire[i].state.revision <= published
           /\ UpTo(wire[i].state, capability)
           /\ \A browser \in connected : Before(browser, wire[i].state)
           /\ \A j \in DOMAIN wire : i < j /\ IsState(j) => Before(wire[i].state, wire[j].state)
    /\ \A browser \in connected : browser.revision <= published /\ UpTo(browser, capability)
    /\ \A a, b \in connected : a = b
    /\ connected # {} =>
           \/ \E browser \in connected : browser.revision = published
           \/ \E i \in DOMAIN wire : IsState(i) /\ wire[i].state.revision = published

\* The state that an answer waited for is ahead of it.
AnswersFollowStates ==
    \A i \in DOMAIN wire : \A c \in Callers : wire[i] = AnswerTo(c) =>
        /\ calls[c].pc = "posted"
        /\ \A j \in DOMAIN wire : wire[j] = AnswerTo(c) => i = j
        /\ \/ \E browser \in connected : browser.revision >= calls[c].awaits
           \/ \E j \in DOMAIN wire : j < i /\ IsState(j) /\ wire[j].state.revision >= calls[c].awaits

\* States with the revision that a call waited for show the support that its
\* baseline had.
Supports(state, c) == state.revision >= calls[c].awaits => state.frozen

AwaitedSupport ==
    \A c \in Callers :
        /\ calls[c].pc \in {"synchronized", "posted", "answered"} =>
               /\ calls[c].awaits <= capability.revision
               /\ calls[c].baseline.frozen =>
                      /\ Supports(capability, c)
                      /\ \A browser \in connected : Supports(browser, c)
                      /\ \A i \in DOMAIN wire : IsState(i) => Supports(wire[i].state, c)
        /\ calls[c].pc = "answered" =>
               \A browser \in connected : browser.revision >= calls[c].awaits

IInv ==
    /\ ReferencesHold
    /\ ModelsGrow
    /\ CallsAreSound
    /\ LatestIsSound
    /\ ShownIsKnown
    /\ RetainedIsShown
    /\ StatesInOrder
    /\ AnswersFollowStates
    /\ AwaitedSupport

=============================================================================
