-------------------------- MODULE ExtensionProofs --------------------------
(***************************************************************************)
(* The extension's two controllers: what is proved of CapabilitySettings, and *)
(* of BrowserModel as the instance Model of MCExtension, for any windows,     *)
(* tabs and callers and any number of changes and failures.                    *)
(*                                                                         *)
(* CapabilitySettings.  Who changes the setting has its turn alone, after the  *)
(* reconciliations that were queued before; so what a reconciliation has read  *)
(* stays true until it is over, and the last reconciliation of the chain       *)
(* publishes the state of now.                                                 *)
(*                                                                         *)
(* BrowserModel.  Events and answers come in order, so that answers which no    *)
(* event has overtaken are of the moment of the last event; an event that will *)
(* take a key away is ahead of every answer that tells of the next one to have  *)
(* the id; so a key is kept exactly for as long as its window or tab lives.     *)
(***************************************************************************)
EXTENDS MCExtension, SequenceTheorems, FiniteSetTheorems, FunctionTheorems, TLAPS

-----------------------------------------------------------------------------
(* Sequences *)

LEMMA AppendFacts ==
    ASSUME NEW S, NEW q \in Seq(S), NEW x \in S
    PROVE  /\ Append(q, x) \in Seq(S) /\ Append(q, x) # <<>>
           /\ Len(q) \in Nat /\ DOMAIN q = 1..Len(q)
           /\ Len(Append(q, x)) = Len(q) + 1
           /\ DOMAIN Append(q, x) = 1..(Len(q) + 1)
           /\ Append(q, x)[Len(q) + 1] = x
           /\ \A i \in 1..Len(q) : Append(q, x)[i] = q[i]
  OBVIOUS

LEMMA TailFacts ==
    ASSUME NEW S, NEW q \in Seq(S), q # <<>>
    PROVE  /\ Tail(q) \in Seq(S)
           /\ Len(q) \in Nat /\ Len(q) > 0 /\ DOMAIN q = 1..Len(q)
           /\ Head(q) = q[1] /\ 1 \in DOMAIN q
           /\ Len(Tail(q)) = Len(q) - 1
           /\ DOMAIN Tail(q) = 1..(Len(q) - 1)
           /\ \A i \in DOMAIN Tail(q) : i + 1 \in DOMAIN q /\ Tail(q)[i] = q[i + 1]
  OBVIOUS

LEMMA OptionCardinality ==
    ASSUME NEW S, \A s, t \in S : s = t
    PROVE  Cardinality(S) <= 1
<1>1. CASE S = {}
  <2>1. Cardinality(S) = 0
    BY <1>1, FS_EmptySet
  <2> QED
    BY <2>1
<1>2. CASE S # {}
  <2>1. PICK s \in S : TRUE
    BY <1>2
  <2>2. S = {s}
    BY <2>1
  <2>3. Cardinality(S) = 1
    BY <2>2, FS_Singleton
  <2> QED
    BY <2>3
<1> QED
  BY <1>1, <1>2

-----------------------------------------------------------------------------
(* The chain of reconciliations *)

\* The last of a chain that is not empty, and the one that is under way.
LEMMA ChainFacts ==
    ASSUME Shapes
    PROVE  /\ Len(chain) \in Nat /\ Len(chain) > 0
           /\ DOMAIN chain = 1..Len(chain) /\ Len(chain) \in DOMAIN chain
           /\ \A i \in DOMAIN chain : chain[i] \in Outcomes
  BY DEF Shapes

LEMMA FirstFacts ==
    ASSUME Shapes, SettledInOrder, chain[Len(chain)] = "queued"
    PROVE  /\ First \in DOMAIN chain /\ chain[First] = "queued"
           /\ \A i \in DOMAIN chain : chain[i] = "queued" <=> i >= First
<1>0. PICK n \in 0..Len(chain) : \A i \in DOMAIN chain : chain[i] = "queued" <=> i > n
  BY DEF SettledInOrder
<1>1. n < Len(chain) /\ n + 1 \in DOMAIN chain
  BY ChainFacts, <1>0
<1>2. \E i \in DOMAIN chain : chain[i] = "queued" /\ \A j \in 1..i - 1 : chain[j] # "queued"
  <2>1. chain[n + 1] = "queued" /\ \A j \in 1..(n + 1) - 1 : chain[j] # "queued"
    BY ChainFacts, <1>0, <1>1
  <2> QED
    BY <1>1, <2>1
<1>3. /\ First \in DOMAIN chain /\ chain[First] = "queued"
      /\ \A j \in 1..First - 1 : chain[j] # "queued"
  BY <1>2 DEF First
<1>4. First = n + 1
  BY ChainFacts, <1>0, <1>1, <1>3
<1> QED
  BY ChainFacts, <1>0, <1>1, <1>3, <1>4

\* A reconciliation joins the chain at its end.
LEMMA QueueFacts ==
    ASSUME Shapes, SettledInOrder, QueueReconciliation
    PROVE  /\ chain' \in Seq(Outcomes) /\ chain' # <<>>
           /\ Len(chain') = Len(chain) + 1 /\ DOMAIN chain' = 1..Len(chain) + 1
           /\ chain'[Len(chain) + 1] = "queued"
           /\ \A i \in DOMAIN chain : chain'[i] = chain[i]
           /\ SettledInOrder'
<1>1. /\ chain' \in Seq(Outcomes) /\ chain' # <<>>
      /\ Len(chain') = Len(chain) + 1 /\ DOMAIN chain' = 1..Len(chain) + 1
      /\ chain'[Len(chain) + 1] = "queued"
      /\ \A i \in DOMAIN chain : chain'[i] = chain[i]
  BY AppendFacts DEF QueueReconciliation, Shapes, Outcomes
<1>2. PICK n \in 0..Len(chain) : \A i \in DOMAIN chain : chain[i] = "queued" <=> i > n
  BY DEF SettledInOrder
<1>3. \A i \in DOMAIN chain' : chain'[i] = "queued" <=> i > n
  BY <1>1, <1>2, ChainFacts
<1>4. n \in 0..Len(chain')
  BY <1>1, <1>2, ChainFacts
<1> QED
  BY <1>1, <1>3, <1>4 DEF SettledInOrder

\* The reconciliation under way settles.
LEMMA SettleFacts ==
    ASSUME Shapes, SettledInOrder, chain[Len(chain)] = "queued",
           NEW outcome \in {"resolved", "rejected"}, Settle(outcome)
    PROVE  /\ chain' \in Seq(Outcomes) /\ chain' # <<>>
           /\ Len(chain') = Len(chain)
           /\ run' = Idle
           /\ First < Len(chain) => chain'[Len(chain)] = "queued"
           /\ First = Len(chain) => chain'[Len(chain)] = outcome
           /\ SettledInOrder'
<1>0. /\ First \in DOMAIN chain /\ chain[First] = "queued"
      /\ \A i \in DOMAIN chain : chain[i] = "queued" <=> i >= First
  BY FirstFacts
<1>1. chain' = [chain EXCEPT ![First] = outcome] /\ run' = Idle
  BY DEF Settle
<1> HIDE DEF First
<1>2. /\ chain' \in Seq(Outcomes) /\ chain' # <<>>
      /\ Len(chain') = Len(chain) /\ DOMAIN chain' = DOMAIN chain
      /\ chain'[First] = outcome
      /\ \A i \in DOMAIN chain : i # First => chain'[i] = chain[i]
  BY <1>0, <1>1 DEF Shapes, Outcomes
<1>3. /\ First \in 0..Len(chain')
      /\ \A i \in DOMAIN chain' : chain'[i] = "queued" <=> i > First
  BY <1>0, <1>2, ChainFacts
<1>4. SettledInOrder'
  BY <1>3 DEF SettledInOrder
<1> QED
  BY <1>0, <1>1, <1>2, <1>4, ChainFacts

\* Whoever finds the controller idle finds the last reconciliation resolved, and none
\* under way.
LEMMA IdledFacts ==
    ASSUME Shapes, RunIsCurrent, NEW c \in Callers, Idled(c)
    PROVE  chain[Len(chain)] = "resolved" /\ run.at = "idle"
  BY DEF Idled, Outcome, RunIsCurrent

-----------------------------------------------------------------------------
(* CapabilitySettings, conjunct by conjunct *)

\* The lasting part of a step: what it does to the chain and to the run.
LEMMA ChainSteps ==
    ASSUME Shapes, RunIsCurrent, [Next]_vars
    PROVE  \/ UNCHANGED chain
           \/ QueueReconciliation /\ UNCHANGED run
           \/ /\ chain[Len(chain)] = "queued" /\ \E outcome \in {"resolved", "rejected"} : Settle(outcome)
<1>1. CASE Controller \/ Fail
  BY <1>1 DEF Controller, Fail, Reconcile, StorageGet, ReadDesiredSettings, StoreDefaults, ReadFacts, Publish,
     RunIsCurrent
<1>2. CASE FactsChange \/ SourceChanged \/ UNCHANGED vars
  BY <1>2 DEF FactsChange, SourceChanged, vars
<1>3. ASSUME NEW c \in Callers, Ask(c) \/ Caller(c) \/ StorageSetFails(c)
      PROVE  UNCHANGED chain \/ (QueueReconciliation /\ UNCHANGED run)
  BY <1>3 DEF Ask, Caller, StorageSetFails, Awake, Give, SetBrowserChanges, SetDesired, StorageSet,
     ReconcileSetting, Applied, Queue, Stay
<1> QED
  BY <1>1, <1>2, <1>3 DEF Next

LEMMA OrderStep ==
    ASSUME Shapes, RunIsCurrent, SettledInOrder, [Next]_vars
    PROVE  SettledInOrder'
<1>1. CASE UNCHANGED chain
  BY <1>1 DEF SettledInOrder
<1> QED
  BY <1>1, ChainSteps, QueueFacts, SettleFacts

\* A change of the chain keeps its type.
LEMMA ChainShape ==
    ASSUME Shapes, RunIsCurrent, SettledInOrder, [Next]_vars
    PROVE  /\ chain' \in Seq(Outcomes) /\ chain' # <<>>
           /\ Len(chain) \in Nat /\ Len(chain') \in Nat /\ Len(chain') >= Len(chain)
<1>1. CASE UNCHANGED chain
  BY <1>1, ChainFacts DEF Shapes
<1> QED
  BY <1>1, ChainSteps, QueueFacts, SettleFacts, ChainFacts

\* Leaving the chain of changes takes away its first caller, if anything.
LEMMA LeaveFacts ==
    ASSUME Shapes, NEW c \in Callers
    PROVE  /\ Leave(c) \in Seq(Callers)
           /\ Leave(c) # mutation => mutation # <<>> /\ Head(mutation) = c /\ Leave(c) = Tail(mutation)
  BY TailFacts DEF Shapes, Leave

LEMMA StoreFacts ==
    ASSUME Shapes, NEW value \in BOOLEAN, Store(value)
    PROVE  /\ stored' \in Options /\ stored' = {value}
           /\ changes' \in Nat /\ changes' >= changes
<1>1. stored' = {value} /\ changes' \in {changes, changes + 1}
  BY DEF Store
<1>2. value = TRUE \/ value = FALSE
  OBVIOUS
<1>3. {value} \in Options
  BY <1>2, Zenon DEF Options
<1> QED
  BY <1>1, <1>3 DEF Shapes

\* The run of a reconciliation keeps its type.
LEMMA RunShape ==
    ASSUME Shapes, FactsChange \/ SourceChanged \/ Controller \/ Fail
    PROVE  run' \in Runs
<1>1. /\ run \in Runs /\ stored \in Options
      /\ sourceGeneration \in Nat /\ changes \in Nat /\ facts \in Nat
  BY SettingsAssumption DEF Shapes
<1>2. stored \in SUBSET BOOLEAN /\ {FALSE} \in SUBSET BOOLEAN
  BY <1>1 DEF Options
<1>3. Idle \in Runs
  BY DEF Idle, Runs
<1>4. CASE FactsChange \/ SourceChanged
  BY <1>1, <1>4 DEF FactsChange, SourceChanged
<1>5. CASE Reconcile
  BY <1>1, <1>5 DEF Reconcile, Idle, Runs
<1>6. CASE StorageGet
  BY <1>1, <1>2, <1>6 DEF StorageGet, Runs
<1>7. CASE ReadDesiredSettings
  BY <1>1, <1>3, <1>7 DEF ReadDesiredSettings, Settle, Runs
<1>8. CASE StoreDefaults
  BY <1>1, <1>2, <1>8 DEF StoreDefaults, Runs
<1>9. CASE ReadFacts
  BY <1>1, <1>9 DEF ReadFacts, Runs
<1>10. CASE Publish \/ Fail
  BY <1>3, <1>10 DEF Publish, Fail, Settle
<1> QED
  BY <1>4, <1>5, <1>6, <1>7, <1>8, <1>9, <1>10 DEF Controller

\* The snapshot is one, whether it is new, verified again or kept.
LEMMA SnapshotShape ==
    ASSUME Shapes, Publish
    PROVE  snapshot' \subseteq Snapshots /\ \A s, t \in snapshot' : s = t
<1> DEFINE desired == TRUE \in run.read
           new == [revision |-> IF snapshot = {} THEN 1 ELSE 1 + (CHOOSE old \in snapshot : TRUE).revision,
                   desired |-> desired, facts |-> run.facts, verified |-> run.since]
           again == {[old EXCEPT !.verified = run.since] : old \in snapshot}
<1>1. snapshot \subseteq Snapshots /\ \A s, t \in snapshot : s = t
  BY DEF Shapes
<1>2. run.facts \in Nat /\ run.since \in Nat
  BY DEF Shapes, Runs
<1>3. new \in Snapshots
  <2>1. snapshot # {} => (CHOOSE old \in snapshot : TRUE) \in Snapshots
    BY <1>1
  <2>2. snapshot # {} => (CHOOSE old \in snapshot : TRUE).revision \in Nat
    BY <2>1 DEF Snapshots
  <2>3. new.revision \in Nat
    BY <2>2
  <2>4. desired \in BOOLEAN
    OBVIOUS
  <2> QED
    BY <1>2, <2>3, <2>4 DEF Snapshots
<1>4. again \subseteq Snapshots
  <2>1. ASSUME NEW old \in snapshot
        PROVE  [old EXCEPT !.verified = run.since] \in Snapshots
    <3>1. old \in Snapshots
      BY <1>1
    <3> QED
      BY <1>2, <3>1 DEF Snapshots
  <2> QED
    BY <2>1
<1>5. \A s, t \in again : s = t
  BY <1>1
<1>6. snapshot' \in {snapshot, again, {new}}
  BY DEF Publish
<1> HIDE DEF new, again
<1> QED
  BY <1>1, <1>3, <1>4, <1>5, <1>6

\* The controller's own steps and Chrome's keep the types.
LEMMA ShapesController ==
    ASSUME Shapes, RunIsCurrent, SettledInOrder, FactsChange \/ SourceChanged \/ Controller \/ Fail
    PROVE  Shapes'
<1>1. chain' \in Seq(Outcomes) /\ chain' # <<>>
  BY ChainShape DEF Next
<1>2. run' \in Runs
  BY RunShape
<1>3. /\ stored' \in Options
      /\ changes' \in Nat /\ changes' >= changes
  <2>0. stored \in Options /\ changes \in Nat /\ changes + 1 \in Nat
    BY DEF Shapes
  <2>1. CASE StoreDefaults
    BY <2>1, StoreFacts DEF StoreDefaults
  <2>2. CASE ~StoreDefaults
    <3>1. stored' = stored /\ changes' \in {changes, changes + 1}
      BY <2>2 DEF FactsChange, SourceChanged, Controller, Reconcile, StorageGet, ReadDesiredSettings, ReadFacts,
         Publish, Fail, chrome
    <3> QED
      BY <2>0, <3>1
  <2> QED
    BY <2>1, <2>2
<1>4. /\ facts' \in 0..MaxChanges /\ failures' \in 0..MaxFailures
      /\ sourceGeneration' \in 0..changes'
  <2>1. /\ facts' = facts \/ (facts < MaxChanges /\ facts' = facts + 1)
        /\ failures' = failures \/ (failures < MaxFailures /\ failures' = failures + 1)
        /\ \/ sourceGeneration' = sourceGeneration
           \/ sourceGeneration < changes /\ sourceGeneration' = sourceGeneration + 1
    BY DEF FactsChange, SourceChanged, Controller, Reconcile, StorageGet,
       ReadDesiredSettings, StoreDefaults, ReadFacts, Publish, Fail, chrome
  <2>2. /\ facts \in 0..MaxChanges /\ failures \in 0..MaxFailures
        /\ changes \in Nat /\ sourceGeneration \in 0..changes
    BY DEF Shapes
  <2> QED
    BY <1>3, <2>1, <2>2, SettingsAssumption
<1>5. UNCHANGED <<mutation, callers>>
  BY DEF FactsChange, SourceChanged, Controller, Reconcile, StorageGet,
     ReadDesiredSettings, StoreDefaults, ReadFacts, Publish, Fail
<1>6. snapshot' \subseteq Snapshots /\ \A s, t \in snapshot' : s = t
  <2>1. CASE ~Publish
    BY <2>1 DEF FactsChange, SourceChanged, Controller, Reconcile, StorageGet,
       ReadDesiredSettings, StoreDefaults, ReadFacts, Fail, Shapes
  <2> QED
    BY <2>1, SnapshotShape
<1> QED
  BY <1>1, <1>2, <1>3, <1>4, <1>5, <1>6 DEF Shapes

\* What a caller's step does to the callers: c becomes another record.
LEMMA BecomeFacts ==
    ASSUME Shapes, NEW c \in Callers, NEW caller, Become(c, caller)
    PROVE  /\ callers'[c] = caller
           /\ \A d \in Callers : d # c => callers'[d] = callers[d]
           /\ caller \in CallerStates => callers' \in [Callers -> CallerStates]
           /\ callers[c] \in CallerStates
  BY DEF Shapes, Become

\* Which record that is.
LEMMA CallerBecomes ==
    ASSUME Shapes, NEW c \in Callers, Ask(c) \/ Caller(c) \/ StorageSetFails(c)
    PROVE  \E caller \in CallerStates : Become(c, caller)
<1>1. /\ callers[c] \in CallerStates /\ snapshot \in SUBSET Snapshots
      /\ Len(chain) \in Nat /\ Len(chain) + 1 \in Nat /\ sourceGeneration \in Nat
  BY ChainFacts DEF Shapes
<1>2. CASE Ask(c)
  <2>1. PICK ask \in Asks : Become(c, BeginState([NoCaller EXCEPT !.ask = ask]))
    BY <1>2 DEF Ask
  <2>2. [NoCaller EXCEPT !.ask = ask] \in CallerStates
    BY DEF NoCaller, CallerStates, Asks
  <2>3. BeginState([NoCaller EXCEPT !.ask = ask]) \in CallerStates
    BY <1>1, <2>2 DEF BeginState, CallerStates
  <2> QED
    BY <2>1, <2>3
<1>3. CASE Awake(c)
  <2>1. \/ Become(c, [callers[c] EXCEPT !.at = "retry", !.awaits = Queued])
        \/ Become(c, [callers[c] EXCEPT !.at = "failed"])
        \/ \E at \in {"try", "retry", "again"} :
               Become(c, [callers[c] EXCEPT !.at = at, !.awaits = Len(chain)])
    BY <1>3, ChainFacts DEF Awake, Queue, Stay, Outcome, Outcomes
  <2> QED
    BY <1>1, <2>1 DEF Queued, CallerStates
<1>4. CASE Give(c) \/ SetBrowserChanges(c)
  <2>1. \/ \E at \in {"done", "refused"} : Become(c, [callers[c] EXCEPT !.at = at, !.given = snapshot])
        \/ Become(c, [callers[c] EXCEPT !.at = "turn"])
    BY <1>4 DEF Give, SetBrowserChanges
  <2> QED
    BY <1>1, <2>1 DEF CallerStates
<1>5. CASE SetDesired(c) \/ Applied(c)
  <2>1. \/ \E phase \in {"turn", "after"} : Become(c, [BeginState(callers[c]) EXCEPT !.phase = phase])
        \/ Become(c, [callers[c] EXCEPT !.at = "failed"])
    BY <1>5 DEF SetDesired, Applied
  <2>2. BeginState(callers[c]) \in CallerStates
    BY <1>1 DEF BeginState, CallerStates
  <2> QED
    BY <1>1, <2>1, <2>2 DEF CallerStates
<1>6. CASE StorageSet(c) \/ StorageSetFails(c)
  <2>1. \E at \in {"stored", "failed"} : Become(c, [callers[c] EXCEPT !.at = at])
    BY <1>6 DEF StorageSet, StorageSetFails
  <2> QED
    BY <1>1, <2>1 DEF CallerStates
<1>7. CASE ReconcileSetting(c)
  BY <1>1, <1>7 DEF ReconcileSetting, Queue, Queued, CallerStates
<1> QED
  BY <1>2, <1>3, <1>4, <1>5, <1>6, <1>7 DEF Caller

\* A caller's step keeps the types.
LEMMA ShapesCaller ==
    ASSUME Shapes, RunIsCurrent, SettledInOrder,
           NEW c \in Callers, Ask(c) \/ Caller(c) \/ StorageSetFails(c)
    PROVE  Shapes'
<1>1. chain' \in Seq(Outcomes) /\ chain' # <<>>
  BY ChainShape DEF Next
<1>2. callers' \in [Callers -> CallerStates]
  BY CallerBecomes, BecomeFacts
<1>3. mutation' \in Seq(Callers)
  <2>1. mutation' \in {mutation, Leave(c), Append(mutation, c)}
    BY DEF Ask, Caller, StorageSetFails, Awake, Give, SetBrowserChanges, SetDesired, StorageSet,
       ReconcileSetting, Applied
  <2>2. mutation \in Seq(Callers) /\ Append(mutation, c) \in Seq(Callers)
    BY DEF Shapes
  <2> QED
    BY <2>1, <2>2, LeaveFacts
<1>4. /\ stored' \in Options
      /\ changes' \in Nat /\ changes' >= changes
  <2>1. CASE StorageSet(c)
    BY <2>1, StoreFacts DEF StorageSet, Wanted
  <2>2. CASE ~StorageSet(c)
    BY <2>2 DEF Ask, Caller, StorageSetFails, Awake, Give, SetBrowserChanges, SetDesired,
       ReconcileSetting, Applied, chrome, Shapes
  <2> QED
    BY <2>1, <2>2
<1>5. facts' = facts /\ UNCHANGED <<sourceGeneration, run, snapshot>>
  BY DEF Ask, Caller, StorageSetFails, Awake, Give, SetBrowserChanges, SetDesired, StorageSet,
     ReconcileSetting, Applied, chrome
<1>6. failures' \in 0..MaxFailures
  BY SettingsAssumption DEF Ask, Caller, StorageSetFails, Awake, Give, SetBrowserChanges, SetDesired, StorageSet,
     ReconcileSetting, Applied, chrome, Shapes
<1> QED
  BY <1>1, <1>2, <1>3, <1>4, <1>5, <1>6 DEF Shapes

LEMMA ShapesStep ==
    ASSUME Shapes, RunIsCurrent, SettledInOrder, [Next]_vars
    PROVE  Shapes'
<1>1. CASE UNCHANGED vars
  BY <1>1 DEF vars, Shapes
<1> QED
  BY <1>1, ShapesController, ShapesCaller DEF Next

\* What a caller's step leaves alone, and what it may do to the chain.
LEMMA CallerFrame ==
    ASSUME NEW c \in Callers, Ask(c) \/ Caller(c) \/ StorageSetFails(c)
    PROVE  /\ UNCHANGED <<facts, sourceGeneration, run, snapshot>>
           /\ UNCHANGED chain \/ QueueReconciliation
           /\ UNCHANGED stored \/ StorageSet(c)
           /\ changes' = changes \/ StorageSet(c)
           /\ callers[c].at = "stored" => ReconcileSetting(c)
           /\ ReconcileSetting(c) => QueueReconciliation
           /\ \E caller : Become(c, caller)
<1>1. UNCHANGED <<facts, sourceGeneration, run, snapshot>>
  BY DEF Ask, Caller, StorageSetFails, Awake, Give, SetBrowserChanges, SetDesired, StorageSet,
     ReconcileSetting, Applied, chrome
<1>2. UNCHANGED chain \/ QueueReconciliation
  BY DEF Ask, Caller, StorageSetFails, Awake, Give, SetBrowserChanges, SetDesired, StorageSet,
     ReconcileSetting, Applied, Queue, Stay
<1>3. StorageSet(c) \/ UNCHANGED <<stored, changes>>
  BY DEF Ask, Caller, StorageSetFails, Awake, Give, SetBrowserChanges, SetDesired,
     ReconcileSetting, Applied, chrome
<1>4. callers[c].at = "stored" => ReconcileSetting(c)
  BY DEF Ask, Caller, StorageSetFails, Awake, Give, SetBrowserChanges, SetDesired, StorageSet,
     ReconcileSetting, Applied, HasState, HasTurnState, Idled
<1>5. ReconcileSetting(c) => QueueReconciliation
  BY DEF ReconcileSetting, Queue
<1>6. \E caller : Become(c, caller)
  BY DEF Ask, Caller, StorageSetFails, Awake, Give, SetBrowserChanges, SetDesired, StorageSet,
     ReconcileSetting, Applied, Queue, Stay
<1> QED
  BY <1>1, <1>2, <1>3, <1>4, <1>5, <1>6

LEMMA RunStep ==
    ASSUME Shapes, RunIsCurrent, SettledInOrder, [Next]_vars
    PROVE  RunIsCurrent'
<1>0. /\ Len(chain) \in Nat /\ Len(chain) > 0 /\ DOMAIN chain = 1..Len(chain)
      /\ changes \in Nat /\ sourceGeneration \in Nat /\ sourceGeneration <= changes
      /\ run \in Runs
  BY ChainFacts DEF Shapes
<1>1. ASSUME NEW c \in Callers, Ask(c) \/ Caller(c) \/ StorageSetFails(c)
      PROVE  RunIsCurrent'
  <2> SUFFICES ASSUME run.at # "idle"
               PROVE  RunIsCurrent'
    BY <1>1, CallerFrame DEF RunIsCurrent
  <2>1. UNCHANGED <<run, sourceGeneration>>
    BY <1>1, CallerFrame
  <2>2. UNCHANGED stored
    <3>1. ~StorageSet(c)
      BY IdledFacts DEF StorageSet, HasTurnState, HasState
    <3> QED
      BY <1>1, <3>1, CallerFrame
  <2>3. CASE UNCHANGED chain
    BY <2>1, <2>2, <2>3 DEF RunIsCurrent
  <2>4. CASE QueueReconciliation
    <3>1. /\ Len(chain') = Len(chain) + 1 /\ DOMAIN chain' = 1..Len(chain) + 1
          /\ chain'[Len(chain) + 1] = "queued"
          /\ \A i \in DOMAIN chain : chain'[i] = chain[i]
      BY <2>4, QueueFacts
    <3> QED
      BY <1>0, <2>1, <2>2, <3>1 DEF RunIsCurrent
  <2> QED
    BY <1>1, <2>3, <2>4, CallerFrame
<1>2. CASE SourceChanged
  <2>1. /\ Len(chain') = Len(chain) + 1 /\ DOMAIN chain' = 1..Len(chain) + 1
        /\ chain'[Len(chain) + 1] = "queued"
        /\ \A i \in DOMAIN chain : chain'[i] = chain[i]
    BY <1>2, QueueFacts DEF SourceChanged
  <2>2. sourceGeneration' = sourceGeneration + 1 /\ UNCHANGED <<run, stored>>
    BY <1>2 DEF SourceChanged, chrome
  <2>3. run.generation \in Nat
    BY <1>0 DEF Runs
  <2>4. run.at # "idle" => Len(chain) \in DOMAIN chain' /\ chain'[Len(chain)] = "queued"
    BY <1>0, <2>1 DEF RunIsCurrent
  <2> QED
    BY <1>0, <2>1, <2>2, <2>3, <2>4 DEF RunIsCurrent
<1>3. CASE Reconcile
  <2>1. chain[Len(chain)] = "queued"
    BY <1>0, <1>3 DEF Reconcile, SettledInOrder
  <2>2. run' = [Idle EXCEPT !.at = "get", !.generation = sourceGeneration] /\ UNCHANGED <<chain, sourceGeneration>>
    BY <1>3 DEF Reconcile
  <2>3. run'.at = "get" /\ run'.generation = sourceGeneration
    BY <2>2 DEF Idle
  <2> QED
    BY <1>0, <2>1, <2>2, <2>3 DEF RunIsCurrent
<1>4. CASE StorageGet
  <2>1. run.generation \in Nat /\ run.generation <= sourceGeneration
    BY <1>0, <1>4 DEF Runs, RunIsCurrent, StorageGet
  <2> QED
    BY <1>0, <1>4, <2>1 DEF StorageGet, RunIsCurrent, chrome, Runs
<1>5. CASE ReadDesiredSettings
  <2>1. CASE Settle("resolved")
    BY <2>1 DEF Settle, Idle, RunIsCurrent
  <2>2. CASE ~Settle("resolved")
    BY <1>0, <1>5, <2>2 DEF ReadDesiredSettings, RunIsCurrent, chrome, Runs
  <2> QED
    BY <2>1, <2>2
<1>6. CASE StoreDefaults
  <2>1. stored' = {FALSE} /\ run' = [run EXCEPT !.at = "facts", !.read = {FALSE}]
        /\ UNCHANGED <<chain, sourceGeneration>>
    BY <1>6 DEF StoreDefaults, Store
  <2>2. /\ run'.at = "facts" /\ run'.read = {FALSE} /\ run'.generation = run.generation
        /\ run'.since = run.since
    BY <1>0, <2>1 DEF Runs
  <2>3. run.at = "defaults"
    BY <1>6 DEF StoreDefaults
  <2> QED
    BY <2>1, <2>2, <2>3 DEF RunIsCurrent
<1>7. CASE ReadFacts
  <2>1. run' = [run EXCEPT !.at = "evaluated", !.facts = facts]
        /\ UNCHANGED <<chain, sourceGeneration, stored>> /\ run.at = "facts"
    BY <1>7 DEF ReadFacts, chrome
  <2>2. /\ run'.at = "evaluated" /\ run'.read = run.read /\ run'.generation = run.generation
        /\ run'.since = run.since
    BY <1>0, <2>1 DEF Runs
  <2> QED
    BY <2>1, <2>2 DEF RunIsCurrent
<1>8. CASE Publish \/ Fail
  <2>1. run' = Idle
    BY <1>8 DEF Publish, Fail, Settle
  <2>2. run'.at = "idle"
    BY <2>1 DEF Idle
  <2> QED
    BY <2>2 DEF RunIsCurrent
<1>9. CASE FactsChange \/ UNCHANGED vars
  BY <1>9 DEF FactsChange, RunIsCurrent, vars
<1> QED
  BY <1>1, <1>2, <1>3, <1>4, <1>5, <1>6, <1>7, <1>8, <1>9 DEF Next, Controller

\* A reconciliation that publishes nothing new was not the last.
LEMMA PublishesLatest ==
    ASSUME Shapes, RunIsCurrent, SettledInOrder, Publish,
           chain'[Len(chain')] = "resolved"
    PROVE  \E s \in snapshot' : s.verified >= sourceGeneration /\ stored = {s.desired}
<1>1. run.at = "evaluated" /\ Settle("resolved") /\ chain[Len(chain)] = "queued"
  BY DEF Publish, RunIsCurrent
<1>2. First = Len(chain)
  BY <1>1, SettleFacts, FirstFacts, ChainFacts
<1>3. run.generation = sourceGeneration
  <2>1. \A i \in DOMAIN chain : chain[i] = "queued" => i >= Len(chain)
    BY <1>1, <1>2, FirstFacts
  <2> QED
    BY <1>1, <2>1, ChainFacts DEF RunIsCurrent
<1>4. run.read = stored /\ stored # {} /\ run.since >= sourceGeneration
  BY <1>1, <1>3 DEF RunIsCurrent
<1> DEFINE desired == TRUE \in run.read
<1>5. stored = {desired}
  <2>1. stored = {TRUE} \/ stored = {FALSE}
    BY <1>4 DEF Shapes, Options
  <2>2. CASE stored = {TRUE}
    <3>1. desired
      BY <1>4, <2>2
    <3>2. desired = TRUE
      BY <3>1
    <3> QED
      BY <2>2, <3>2, Zenon
  <2>3. CASE stored = {FALSE}
    <3>1. run.read = {FALSE}
      BY <1>4, <2>3
    <3>2. desired = FALSE
      BY <3>1, SMT
    <3> QED
      BY <2>3, <3>2, Zenon
  <2> QED
    BY <2>1, <2>2, <2>3
<1>6. CASE \E old \in snapshot : old.desired = desired /\ old.facts = run.facts
  <2>1. PICK old \in snapshot : old.desired = desired /\ old.facts = run.facts
    BY <1>6
  <2>2. snapshot' = {[s EXCEPT !.verified = run.since] : s \in snapshot}
    BY <1>3, <2>1 DEF Publish
  <2>3. old \in Snapshots
    BY DEF Shapes
  <2>4. /\ [old EXCEPT !.verified = run.since] \in snapshot'
        /\ [old EXCEPT !.verified = run.since].verified = run.since
        /\ [old EXCEPT !.verified = run.since].desired = old.desired
    BY <2>2, <2>3 DEF Snapshots
  <2> QED
    BY <1>4, <1>5, <2>1, <2>4
<1>7. CASE ~\E old \in snapshot : old.desired = desired /\ old.facts = run.facts
  BY <1>3, <1>4, <1>5, <1>7 DEF Publish
<1> QED
  BY <1>6, <1>7

LEMMA PublishedStep ==
    ASSUME Shapes, RunIsCurrent, SettledInOrder, LastIsPublished, [Next]_vars
    PROVE  LastIsPublished'
<1> SUFFICES ASSUME chain'[Len(chain')] = "resolved"
             PROVE  \E s \in snapshot' : /\ s.verified >= sourceGeneration'
                                         /\ stored' = {s.desired} \/ \E c \in Callers : callers'[c].at = "stored"
  BY DEF LastIsPublished
<1>0. ~QueueReconciliation
  BY QueueFacts
<1>1. ASSUME NEW c \in Callers, Ask(c) \/ Caller(c) \/ StorageSetFails(c)
      PROVE  \E s \in snapshot' : /\ s.verified >= sourceGeneration'
                                  /\ stored' = {s.desired} \/ \E d \in Callers : callers'[d].at = "stored"
  <2>1. UNCHANGED <<chain, sourceGeneration, snapshot>> /\ callers[c].at # "stored"
    BY <1>0, <1>1, CallerFrame
  <2>2. PICK s \in snapshot : /\ s.verified >= sourceGeneration
                              /\ stored = {s.desired} \/ \E d \in Callers : callers[d].at = "stored"
    BY <2>1 DEF LastIsPublished
  <2>3. CASE StorageSet(c)
    <3>1. callers'[c].at = "stored"
      BY <2>3 DEF StorageSet, Become, Shapes, CallerStates
    <3> QED
      BY <2>1, <2>2, <3>1
  <2>4. CASE UNCHANGED stored
    <3>1. \A d \in Callers : callers[d].at = "stored" => callers'[d] = callers[d]
      BY <1>1, <2>1, CallerFrame, BecomeFacts
    <3> QED
      BY <2>1, <2>2, <2>4, <3>1
  <2> QED
    BY <1>1, <2>3, <2>4, CallerFrame
<1>2. CASE SourceChanged
  BY <1>0, <1>2 DEF SourceChanged
<1>3. CASE FactsChange \/ UNCHANGED vars
  BY <1>3 DEF FactsChange, LastIsPublished, vars
<1>4. CASE Publish
  <2>1. UNCHANGED <<sourceGeneration, stored>>
    BY <1>4 DEF Publish, chrome
  <2> QED
    BY <1>4, <2>1, PublishesLatest
<1>5. CASE Fail
  <2>1. chain[Len(chain)] = "queued" /\ Settle("rejected")
    BY <1>5 DEF Fail, RunIsCurrent
  <2>2. First \in DOMAIN chain
    BY <2>1, FirstFacts
  <2> QED
    BY <2>1, <2>2, SettleFacts, ChainFacts
<1>6. CASE Reconcile \/ StorageGet \/ ReadFacts \/ StoreDefaults \/ (ReadDesiredSettings /\ ~Settle("resolved"))
  <2>1. UNCHANGED chain
    BY <1>6 DEF Reconcile, StorageGet, ReadFacts, StoreDefaults, ReadDesiredSettings
  <2>2. chain[Len(chain)] = "queued"
    <3>1. CASE Reconcile
      <4>1. \E i \in DOMAIN chain : chain[i] = "queued"
        BY <3>1 DEF Reconcile
      <4> QED
        BY <4>1, ChainFacts DEF SettledInOrder
    <3>2. CASE ~Reconcile
      BY <1>6, <3>2 DEF StorageGet, ReadFacts, StoreDefaults, ReadDesiredSettings, RunIsCurrent
    <3> QED
      BY <3>1, <3>2
  <2> QED
    BY <2>1, <2>2
<1>7. CASE ReadDesiredSettings /\ Settle("resolved")
  <2>1. run.at = "got" /\ run.generation # sourceGeneration /\ chain[Len(chain)] = "queued"
    BY <1>7 DEF ReadDesiredSettings, RunIsCurrent, Settle, Idle, Shapes, Runs
  <2>2. PICK i \in DOMAIN chain : i < Len(chain) /\ chain[i] = "queued"
    BY <2>1 DEF RunIsCurrent
  <2>3. First \in DOMAIN chain /\ First <= i
    BY <2>1, <2>2, FirstFacts
  <2>4. First < Len(chain)
    BY <2>2, <2>3, ChainFacts
  <2> QED
    BY <1>7, <2>1, <2>4, SettleFacts
<1> QED
  BY <1>1, <1>2, <1>3, <1>4, <1>5, <1>6, <1>7 DEF Next, Controller

\* What CallersInPhase says of one caller.
CallerInPhase(c) ==
    /\ callers[c].awaits <= Len(chain) /\ callers[c].asked <= sourceGeneration
    /\ callers[c].at \in {"try", "retry", "again", "applied"} => callers[c].awaits > 0
    /\ callers[c].at \notin {"done", "refused"} => callers[c].given = {}
    /\ callers[c].at \in {"absent", "turn", "refused"} => callers[c].phase = "before"
    /\ callers[c].at \in {"stored", "applied"} => callers[c].phase = "turn"

\* The chain and the events only grow, so that a caller that does not move stays in
\* its phase.
LEMMA OtherInPhase ==
    ASSUME Shapes, RunIsCurrent, SettledInOrder, CallersInPhase, [Next]_vars,
           NEW d \in Callers, callers'[d] = callers[d]
    PROVE  CallerInPhase(d)'
<1>1. Len(chain) \in Nat /\ Len(chain') \in Nat /\ Len(chain') >= Len(chain)
  BY ChainShape
<1>2. sourceGeneration' >= sourceGeneration /\ sourceGeneration \in Nat /\ sourceGeneration' \in Nat
  <2>1. UNCHANGED sourceGeneration \/ SourceChanged
    BY CallerFrame DEF Next, vars, FactsChange, Controller, Reconcile, StorageGet, ReadDesiredSettings,
       StoreDefaults, ReadFacts, Publish, Fail
  <2> QED
    BY <2>1 DEF SourceChanged, Shapes
<1>3. callers[d].awaits \in Nat /\ callers[d].asked \in Nat
  BY DEF Shapes, CallerStates
<1>4. CallerInPhase(d)
  BY DEF CallersInPhase, CallerInPhase
<1> QED
  BY <1>1, <1>2, <1>3, <1>4 DEF CallerInPhase

LEMMA PhaseStep ==
    ASSUME Shapes, RunIsCurrent, SettledInOrder, CallersInPhase, [Next]_vars
    PROVE  CallersInPhase'
<1> SUFFICES ASSUME NEW d \in Callers
             PROVE  CallerInPhase(d)'
  BY DEF CallersInPhase, CallerInPhase
<1>1. CASE UNCHANGED callers
  BY <1>1, OtherInPhase
<1>2. ASSUME NEW c \in Callers, Ask(c) \/ Caller(c) \/ StorageSetFails(c)
      PROVE  CallerInPhase(d)'
  <2>1. CASE d # c
    <3>1. callers'[d] = callers[d]
      BY <1>2, <2>1, CallerFrame, BecomeFacts
    <3> QED
      BY <3>1, OtherInPhase
  <2> SUFFICES CallerInPhase(c)'
    BY <2>1
  <2>2. /\ CallerInPhase(c) /\ callers[c] \in CallerStates
        /\ Len(chain) \in Nat /\ Len(chain) > 0 /\ sourceGeneration \in Nat
        /\ UNCHANGED sourceGeneration
    BY <1>2, ChainFacts, CallerFrame DEF CallersInPhase, CallerInPhase, Shapes
  <2>3. CASE Ask(c)
    <3>1. PICK ask \in Asks : callers'[c] = BeginState([NoCaller EXCEPT !.ask = ask])
      BY <2>3, BecomeFacts DEF Ask
    <3>2. UNCHANGED chain
      BY <2>3 DEF Ask
    <3> QED
      BY <2>2, <3>1, <3>2 DEF BeginState, NoCaller, CallerInPhase
  <2>4. CASE Awake(c)
    <3>0. callers[c].at \in {"try", "retry", "again"}
      BY <2>4 DEF Awake
    <3>1. \/ Queue(c, "retry")
          \/ Become(c, [callers[c] EXCEPT !.at = "failed"]) /\ UNCHANGED chain
          \/ \E at \in {"try", "retry", "again"} : Stay(c, at)
      BY <2>4, <2>2, ChainFacts DEF Awake, Outcome, Outcomes
    <3>2. CASE Queue(c, "retry")
      <4>1. callers'[c] = [callers[c] EXCEPT !.at = "retry", !.awaits = Queued] /\ QueueReconciliation
        BY <3>2, BecomeFacts DEF Queue
      <4>2. Len(chain') = Len(chain) + 1
        BY <4>1, QueueFacts
      <4> QED
        BY <2>2, <3>0, <4>1, <4>2 DEF CallerInPhase, Queued, CallerStates
    <3>3. CASE Become(c, [callers[c] EXCEPT !.at = "failed"]) /\ UNCHANGED chain
      <4>1. callers'[c] = [callers[c] EXCEPT !.at = "failed"]
        BY <3>3, BecomeFacts
      <4> QED
        BY <2>2, <3>0, <3>3, <4>1 DEF CallerInPhase, CallerStates
    <3>4. ASSUME NEW at \in {"try", "retry", "again"}, Stay(c, at)
          PROVE  CallerInPhase(c)'
      <4>1. callers'[c] = [callers[c] EXCEPT !.at = at, !.awaits = Len(chain)] /\ UNCHANGED chain
        BY <3>4, BecomeFacts DEF Stay
      <4> QED
        BY <2>2, <3>0, <4>1 DEF CallerInPhase, CallerStates
    <3> QED
      BY <3>1, <3>2, <3>3, <3>4
  <2>5. CASE Give(c) \/ SetBrowserChanges(c)
    <3>1. /\ \/ callers'[c] = [callers[c] EXCEPT !.at = "done", !.given = snapshot]
             \/ callers'[c] = [callers[c] EXCEPT !.at = "refused", !.given = snapshot]
                /\ callers[c].phase = "before"
             \/ callers'[c] = [callers[c] EXCEPT !.at = "turn"] /\ callers[c].phase = "before"
          /\ UNCHANGED chain /\ callers[c].at \in {"try", "again"}
      BY <2>5, BecomeFacts DEF Give, SetBrowserChanges, HasState, Idled
    <3> QED
      BY <2>2, <3>1 DEF CallerInPhase, CallerStates
  <2>6. CASE SetDesired(c) \/ Applied(c)
    <3>1. /\ \/ \E phase \in {"turn", "after"} : callers'[c] = [BeginState(callers[c]) EXCEPT !.phase = phase]
             \/ callers'[c] = [callers[c] EXCEPT !.at = "failed"]
          /\ UNCHANGED chain /\ callers[c].at \in {"turn", "applied"}
      BY <2>6, BecomeFacts DEF SetDesired, Applied
    <3>2. CASE callers'[c] = [callers[c] EXCEPT !.at = "failed"]
      BY <2>2, <3>1, <3>2 DEF CallerInPhase, CallerStates
    <3>3. ASSUME NEW phase \in {"turn", "after"},
                 callers'[c] = [BeginState(callers[c]) EXCEPT !.phase = phase]
          PROVE  CallerInPhase(c)'
      <4>1. /\ callers'[c].at = "try" /\ callers'[c].awaits = Len(chain)
            /\ callers'[c].asked = sourceGeneration /\ callers'[c].given = callers[c].given
        BY <2>2, <3>3 DEF BeginState, CallerStates
      <4> QED
        BY <2>2, <3>1, <4>1 DEF CallerInPhase
    <3> QED
      BY <3>1, <3>2, <3>3
  <2>7. CASE StorageSet(c) \/ StorageSetFails(c)
    <3>1. /\ \E at \in {"stored", "failed"} : callers'[c] = [callers[c] EXCEPT !.at = at]
          /\ UNCHANGED chain /\ callers[c].at \in {"try", "again"} /\ callers[c].phase = "turn"
      BY <2>7, BecomeFacts DEF StorageSet, StorageSetFails, HasTurnState, HasState, Idled
    <3> QED
      BY <2>2, <3>1 DEF CallerInPhase, CallerStates
  <2>8. CASE ReconcileSetting(c)
    <3>1. callers'[c] = [callers[c] EXCEPT !.at = "applied", !.awaits = Queued] /\ QueueReconciliation
          /\ callers[c].at = "stored"
      BY <2>8, BecomeFacts DEF Queue, ReconcileSetting
    <3>2. Len(chain') = Len(chain) + 1
      BY <3>1, QueueFacts
    <3> QED
      BY <2>2, <3>1, <3>2 DEF CallerInPhase, Queued, CallerStates
  <2> QED
    BY <1>2, <2>3, <2>4, <2>5, <2>6, <2>7, <2>8 DEF Caller
<1>3. CASE FactsChange \/ SourceChanged \/ Controller \/ Fail \/ UNCHANGED vars
  <2>1. UNCHANGED callers
    BY <1>3 DEF FactsChange, SourceChanged, Controller, Reconcile, StorageGet, ReadDesiredSettings,
       StoreDefaults, ReadFacts, Publish, Fail, vars
  <2> QED
    BY <2>1, <1>1
<1> QED
  BY <1>2, <1>3 DEF Next

-----------------------------------------------------------------------------
(* What callers are given *)

\* Only an answer gives anything, and it gives the snapshot.
LEMMA GivenFacts ==
    ASSUME Shapes, NEW c \in Callers, Ask(c) \/ Caller(c) \/ StorageSetFails(c)
    PROVE  /\ \A d \in Callers : d # c => callers'[d] = callers[d]
           /\ Ask(c) => callers'[c].given = {}
           /\ ~Ask(c) => callers'[c].ask = callers[c].ask
           /\ ~Ask(c) /\ callers'[c].given # callers[c].given =>
                  /\ Idled(c) /\ callers'[c].given = snapshot
                  /\ callers'[c].asked = callers[c].asked
                  /\ callers'[c].phase = "after" =>
                        callers[c].phase = "after" /\ callers[c].ask = callers'[c].ask
           /\ ~Ask(c) => callers[c].at \notin {"done", "refused"}
<1>0. /\ callers[c] \in CallerStates
      /\ \A d \in Callers : d # c => callers'[d] = callers[d]
  BY CallerFrame, BecomeFacts
<1>1. Ask(c) => callers'[c].given = {}
  <2> SUFFICES ASSUME Ask(c)
               PROVE  callers'[c].given = {}
    OBVIOUS
  <2>1. PICK ask \in Asks : callers'[c] = BeginState([NoCaller EXCEPT !.ask = ask])
    BY BecomeFacts DEF Ask
  <2> QED
    BY <2>1 DEF BeginState, NoCaller
<1>2. CASE Give(c) \/ SetBrowserChanges(c)
  <2>1. /\ \/ callers'[c] = [callers[c] EXCEPT !.at = "done", !.given = snapshot]
           \/ callers'[c] = [callers[c] EXCEPT !.at = "refused", !.given = snapshot]
           \/ callers'[c] = [callers[c] EXCEPT !.at = "turn"]
        /\ Idled(c) /\ callers[c].at \in {"try", "again"}
    BY <1>2, BecomeFacts DEF Give, SetBrowserChanges, HasState, Idled
  <2> QED
    BY <1>0, <1>1, <2>1 DEF CallerStates
<1>3. CASE Awake(c) \/ SetDesired(c) \/ Applied(c) \/ StorageSet(c) \/ StorageSetFails(c) \/ ReconcileSetting(c)
  <2>1. /\ callers[c].at \notin {"done", "refused", "absent"}
        /\ callers'[c].given = callers[c].given /\ callers'[c].ask = callers[c].ask
    <3>2. CASE Awake(c)
      <4>1. callers[c].at \in {"try", "retry", "again"}
        BY <3>2 DEF Awake
      <4>2. \/ Queue(c, "retry")
            \/ Become(c, [callers[c] EXCEPT !.at = "failed"]) /\ UNCHANGED chain
            \/ \E at \in {"try", "retry", "again"} : Stay(c, at)
        BY <3>2, ChainFacts DEF Awake, Outcome, Outcomes
      <4>3. \/ callers'[c] = [callers[c] EXCEPT !.at = "retry", !.awaits = Queued]
            \/ callers'[c] = [callers[c] EXCEPT !.at = "failed"]
            \/ \E at \in {"try", "retry", "again"} :
                   callers'[c] = [callers[c] EXCEPT !.at = at, !.awaits = Len(chain)]
        BY <4>2, BecomeFacts DEF Queue, Stay
      <4> QED
        BY <1>0, <4>1, <4>3 DEF CallerStates
    <3>3. CASE SetDesired(c) \/ Applied(c)
      <4>1. /\ callers[c].at \in {"turn", "applied"}
            /\ \/ callers'[c] = [BeginState(callers[c]) EXCEPT !.phase = "turn"]
               \/ callers'[c] = [BeginState(callers[c]) EXCEPT !.phase = "after"]
               \/ callers'[c] = [callers[c] EXCEPT !.at = "failed"]
        BY <3>3, BecomeFacts DEF SetDesired, Applied
      <4> QED
        BY <1>0, <4>1 DEF CallerStates, BeginState
    <3>4. CASE StorageSet(c) \/ StorageSetFails(c)
      <4>1. /\ callers[c].at \in {"try", "again"}
            /\ \/ callers'[c] = [callers[c] EXCEPT !.at = "stored"]
               \/ callers'[c] = [callers[c] EXCEPT !.at = "failed"]
        BY <3>4, BecomeFacts DEF StorageSet, StorageSetFails, HasTurnState, HasState, Idled
      <4> QED
        BY <1>0, <4>1 DEF CallerStates
    <3>5. CASE ReconcileSetting(c)
      <4>1. /\ callers[c].at = "stored"
            /\ callers'[c] = [callers[c] EXCEPT !.at = "applied", !.awaits = Queued]
        BY <3>5, BecomeFacts DEF ReconcileSetting, Queue
      <4> QED
        BY <1>0, <4>1 DEF CallerStates
    <3> QED
      BY <1>3, <3>2, <3>3, <3>4, <3>5
  <2> QED
    BY <1>0, <1>1, <2>1
<1> QED
  BY <1>0, <1>1, <1>2, <1>3 DEF Caller

LEMMA GivenStep ==
    ASSUME IInv, [Next]_vars
    PROVE  SetterSeesItsSetting' /\ FreshState'
<1> USE DEF IInv
<1>1. CASE UNCHANGED callers
  BY <1>1 DEF SetterSeesItsSetting, FreshState
<1>2. ASSUME NEW c \in Callers, Ask(c) \/ Caller(c) \/ StorageSetFails(c)
      PROVE  SetterSeesItsSetting' /\ FreshState'
  <2> SUFFICES ASSUME NEW state \in callers'[c].given
               PROVE  /\ callers'[c].phase = "after" => state.desired = Wanted(callers'[c].ask)
                      /\ callers'[c].at \in {"done", "refused"} => state.verified >= callers'[c].asked
    BY <1>2, GivenFacts DEF SetterSeesItsSetting, FreshState
  <2>1. ~Ask(c) /\ callers[c].at \notin {"done", "refused"}
    BY <1>2, GivenFacts
  <2>2. callers[c].given = {}
    BY <2>1 DEF CallersInPhase
  <2>3. /\ Idled(c) /\ callers'[c].given = snapshot /\ callers'[c].asked = callers[c].asked
        /\ callers'[c].phase = "after" => callers[c].phase = "after" /\ callers[c].ask = callers'[c].ask
    BY <1>2, <2>1, <2>2, GivenFacts
  <2>4. chain[Len(chain)] = "resolved"
    BY <2>3, IdledFacts
  <2>5. PICK s \in snapshot : /\ s.verified >= sourceGeneration
                              /\ stored = {s.desired} \/ \E d \in Callers : callers[d].at = "stored"
    BY <2>4 DEF LastIsPublished
  <2>6. state = s /\ state.verified \in Nat
    BY <2>3 DEF Shapes, Snapshots
  <2>7. state.verified >= callers'[c].asked
    <3>1. /\ callers[c].asked <= sourceGeneration /\ callers[c].asked \in Nat /\ sourceGeneration \in Nat
      BY DEF CallersInPhase, Shapes, CallerStates
    <3> QED
      BY <2>3, <2>5, <2>6, <3>1
  <2>8. ASSUME callers'[c].phase = "after"
        PROVE  state.desired = Wanted(callers'[c].ask)
    <3>1. callers[c].phase = "after" /\ callers[c].at \in {"try", "again"} /\ callers[c].ask = callers'[c].ask
      BY <2>3, <2>8 DEF Idled
    <3>2. Active(c) /\ stored = {Wanted(callers[c].ask)} /\ Head(mutation) = c
      BY <3>1 DEF Active, OneAtATime
    <3>3. \A d \in Callers : callers[d].at # "stored"
      <4> SUFFICES ASSUME NEW d \in Callers, callers[d].at = "stored"
                   PROVE  FALSE
        OBVIOUS
      <4>1. Active(d)
        BY DEF Active, CallersInPhase
      <4> QED
        BY <3>1, <3>2, <4>1 DEF OneAtATime
    <3>4. {s.desired} = {Wanted(callers[c].ask)}
      BY <2>5, <3>2, <3>3
    <3> HIDE DEF Wanted
    <3> QED
      BY <2>6, <3>1, <3>4, Zenon
  <2> QED
    BY <2>7, <2>8
<1>3. CASE FactsChange \/ SourceChanged \/ Controller \/ Fail \/ UNCHANGED vars
  <2>1. UNCHANGED callers
    BY <1>3 DEF FactsChange, SourceChanged, Controller, Reconcile, StorageGet, ReadDesiredSettings,
       StoreDefaults, ReadFacts, Publish, Fail, vars
  <2> QED
    BY <2>1, <1>1
<1> QED
  BY <1>2, <1>3 DEF Next

-----------------------------------------------------------------------------
(* The chain of changes *)

\* Whose change is in the chain, and whose change the setting already has.
Turn(c) == callers[c].at = "turn" \/ Active(c)
Stores(c) == Active(c) /\ (callers[c].at \in {"stored", "applied"} \/ callers[c].phase = "after")

\* A caller's step keeps its place in the chain, takes one at the end or leaves.
LEMMA ChainMoves ==
    ASSUME Shapes, CallersInPhase, OneAtATime,
           NEW c \in Callers, Ask(c) \/ Caller(c) \/ StorageSetFails(c)
    PROVE  /\ \/ /\ mutation' = mutation /\ (Turn(c)' <=> Turn(c))
                 /\ Active(c)' => mutation # <<>> /\ Head(mutation) = c
              \/ mutation' = Append(mutation, c) /\ ~Turn(c) /\ Turn(c)' /\ ~Active(c)'
              \/ mutation' = Leave(c) /\ callers[c].at # "turn" /\ ~Turn(c)'
           /\ StorageSet(c) => Active(c)
           /\ Stores(c)' => stored' = {Wanted(callers'[c].ask)}
<1>0. /\ callers[c] \in CallerStates
      /\ Active(c) => mutation # <<>> /\ Head(mutation) = c
      /\ Stores(c) => stored = {Wanted(callers[c].ask)}
      /\ callers[c].at \in {"absent", "turn", "refused"} => callers[c].phase = "before"
      /\ callers[c].at \in {"stored", "applied"} => callers[c].phase = "turn"
      /\ callers[c].at = "turn" => mutation # <<>>
  BY DEF Shapes, CallersInPhase, OneAtATime, Stores, InChain
<1> USE DEF Turn, Active, Stores
<1>1. CASE Ask(c)
  <2>1. PICK ask \in Asks : callers'[c] = BeginState([NoCaller EXCEPT !.ask = ask])
    BY <1>1, BecomeFacts DEF Ask
  <2>2. callers'[c].phase = "before" /\ callers'[c].at = "try"
    BY <2>1 DEF BeginState, NoCaller
  <2> QED
    BY <1>0, <1>1, <2>2 DEF Ask, StorageSet, HasTurnState, HasState, Idled
<1>2. CASE Awake(c)
  <2>1. callers[c].at \in {"try", "retry", "again"} /\ UNCHANGED stored /\ ~StorageSet(c)
    <3>1. callers[c].at \in {"try", "retry", "again"} /\ UNCHANGED stored
      BY <1>2 DEF Awake, chrome
    <3>2. callers'[c].at # "stored"
      <4>1. \/ Queue(c, "retry")
            \/ Become(c, [callers[c] EXCEPT !.at = "failed"])
            \/ \E at \in {"try", "retry", "again"} : Stay(c, at)
        BY <1>2, ChainFacts DEF Awake, Outcome, Outcomes
      <4>2. \/ callers'[c] = [callers[c] EXCEPT !.at = "retry", !.awaits = Queued]
            \/ callers'[c] = [callers[c] EXCEPT !.at = "failed"]
            \/ \E at \in {"try", "retry", "again"} :
                   callers'[c] = [callers[c] EXCEPT !.at = at, !.awaits = Len(chain)]
        BY <4>1, BecomeFacts DEF Queue, Stay
      <4> QED
        BY <1>0, <4>2 DEF CallerStates
    <3>3. StorageSet(c) => callers'[c].at = "stored"
      <4>1. StorageSet(c) => callers'[c] = [callers[c] EXCEPT !.at = "stored"]
        BY BecomeFacts DEF StorageSet
      <4> QED
        BY <1>0, <4>1 DEF CallerStates
    <3> QED
      BY <3>1, <3>2, <3>3
  <2>2. \/ callers'[c] = [callers[c] EXCEPT !.at = "failed"]
        \/ \E at \in {"try", "retry", "again"}, n \in {Queued, Len(chain)} :
               callers'[c] = [callers[c] EXCEPT !.at = at, !.awaits = n]
    <3>1. \/ Queue(c, "retry")
          \/ Become(c, [callers[c] EXCEPT !.at = "failed"])
          \/ \E at \in {"try", "retry", "again"} : Stay(c, at)
      BY <1>2, ChainFacts DEF Awake, Outcome, Outcomes
    <3> QED
      BY <3>1, BecomeFacts DEF Queue, Stay
  <2>3. mutation' = IF callers'[c].at = "failed" THEN Leave(c) ELSE mutation
    BY <1>2 DEF Awake
  <2>4. CASE callers'[c] = [callers[c] EXCEPT !.at = "failed"]
    <3>1. callers'[c].at = "failed"
      BY <1>0, <2>4 DEF CallerStates
    <3> QED
      BY <2>1, <2>3, <3>1
  <2>5. ASSUME NEW at \in {"try", "retry", "again"}, NEW n \in {Queued, Len(chain)},
               callers'[c] = [callers[c] EXCEPT !.at = at, !.awaits = n]
        PROVE  /\ mutation' = mutation /\ (Turn(c)' <=> Turn(c))
               /\ Active(c)' => mutation # <<>> /\ Head(mutation) = c
               /\ Stores(c)' => stored' = {Wanted(callers'[c].ask)}
    <3>1. callers'[c].at = at /\ callers'[c].phase = callers[c].phase /\ callers'[c].ask = callers[c].ask
      BY <1>0, <2>5 DEF CallerStates
    <3> QED
      BY <1>0, <2>1, <2>3, <3>1
  <2> QED
    BY <2>1, <2>2, <2>4, <2>5
<1>3. CASE Give(c)
  <2>1. callers'[c] = [callers[c] EXCEPT !.at = "done", !.given = snapshot] /\ mutation' = Leave(c)
        /\ callers[c].at \in {"try", "again"}
    BY <1>3, BecomeFacts DEF Give, HasState, Idled
  <2>2. callers'[c].at = "done"
    BY <1>0, <2>1 DEF CallerStates
  <2>3. ~StorageSet(c)
    <3>1. StorageSet(c) => callers'[c] = [callers[c] EXCEPT !.at = "stored"]
      BY BecomeFacts DEF StorageSet
    <3>2. StorageSet(c) => callers'[c].at = "stored"
      BY <1>0, <3>1 DEF CallerStates
    <3> QED
      BY <2>2, <3>2
  <2> QED
    BY <2>1, <2>2, <2>3
<1>4. CASE SetBrowserChanges(c)
  <2>1. /\ \/ /\ callers'[c] = [callers[c] EXCEPT !.at = "refused", !.given = snapshot]
              /\ mutation' = mutation
           \/ /\ callers'[c] = [callers[c] EXCEPT !.at = "turn"]
              /\ mutation' = Append(mutation, c)
        /\ callers[c].at \in {"try", "again"} /\ callers[c].phase = "before"
    BY <1>4, BecomeFacts DEF SetBrowserChanges, HasState, Idled
  <2>2. ~StorageSet(c)
    BY <2>1 DEF StorageSet, HasTurnState
  <2> QED
    BY <1>0, <2>1, <2>2 DEF CallerStates
<1>5. CASE SetDesired(c)
  <2>1. callers'[c] = [BeginState(callers[c]) EXCEPT !.phase = "turn"] /\ mutation' = mutation
        /\ callers[c].at = "turn" /\ Head(mutation) = c
    BY <1>5, BecomeFacts DEF SetDesired
  <2>2. callers'[c].at = "try" /\ callers'[c].phase = "turn"
    BY <1>0, <2>1 DEF CallerStates, BeginState
  <2>3. ~StorageSet(c)
    BY <2>1 DEF StorageSet, HasTurnState, HasState, Idled
  <2> QED
    BY <1>0, <2>1, <2>2, <2>3
<1>6. CASE StorageSet(c)
  <2>1. /\ callers'[c] = [callers[c] EXCEPT !.at = "stored"] /\ mutation' = mutation
        /\ callers[c].at \in {"try", "again"} /\ callers[c].phase = "turn"
        /\ stored' = {Wanted(callers[c].ask)}
    BY <1>6, BecomeFacts DEF StorageSet, HasTurnState, HasState, Idled, Store
  <2>2. callers'[c].at = "stored" /\ callers'[c].phase = "turn" /\ callers'[c].ask = callers[c].ask
    BY <1>0, <2>1 DEF CallerStates
  <2> QED
    BY <1>0, <2>1, <2>2
<1>7. CASE StorageSetFails(c)
  <2>1. callers'[c] = [callers[c] EXCEPT !.at = "failed"] /\ mutation' = Leave(c)
        /\ callers[c].at \in {"try", "again"} /\ callers[c].phase = "turn"
    BY <1>7, BecomeFacts DEF StorageSetFails, HasTurnState, HasState, Idled
  <2>2. callers'[c].at = "failed"
    BY <1>0, <2>1 DEF CallerStates
  <2> QED
    BY <2>1, <2>2
<1>8. CASE ReconcileSetting(c)
  <2>1. callers'[c] = [callers[c] EXCEPT !.at = "applied", !.awaits = Queued] /\ mutation' = mutation
        /\ callers[c].at = "stored" /\ UNCHANGED stored
    BY <1>8, BecomeFacts DEF ReconcileSetting, Queue, chrome
  <2>2. callers'[c].at = "applied" /\ callers'[c].phase = callers[c].phase /\ callers'[c].ask = callers[c].ask
    BY <1>0, <2>1 DEF CallerStates
  <2>3. ~StorageSet(c)
    BY <2>1 DEF StorageSet, HasTurnState, HasState, Idled
  <2> QED
    BY <1>0, <2>1, <2>2, <2>3
<1>9. CASE Applied(c)
  <2>1. /\ \/ callers'[c] = [callers[c] EXCEPT !.at = "failed"] /\ mutation' = Leave(c)
           \/ callers'[c] = [BeginState(callers[c]) EXCEPT !.phase = "after"] /\ mutation' = mutation
        /\ callers[c].at = "applied" /\ UNCHANGED stored
    BY <1>9, BecomeFacts DEF Applied, chrome
  <2>2. ~StorageSet(c)
    BY <2>1 DEF StorageSet, HasTurnState, HasState, Idled
  <2>3. CASE callers'[c] = [callers[c] EXCEPT !.at = "failed"] /\ mutation' = Leave(c)
    <3>1. callers'[c].at = "failed"
      BY <1>0, <2>3 DEF CallerStates
    <3> QED
      BY <2>1, <2>2, <2>3, <3>1
  <2>4. CASE callers'[c] = [BeginState(callers[c]) EXCEPT !.phase = "after"] /\ mutation' = mutation
    <3>1. callers'[c].at = "try" /\ callers'[c].phase = "after" /\ callers'[c].ask = callers[c].ask
      BY <1>0, <2>4 DEF CallerStates, BeginState
    <3> QED
      BY <1>0, <2>1, <2>2, <2>4, <3>1
  <2> QED
    BY <2>1, <2>3, <2>4
<1> QED
  BY <1>1, <1>2, <1>3, <1>4, <1>5, <1>6, <1>7, <1>8, <1>9 DEF Caller

\* What OneAtATime says of one caller.
InTurn(c) ==
    /\ InChain(c) <=> Turn(c)
    /\ Active(c) => mutation # <<>> /\ Head(mutation) = c
    /\ Stores(c) => stored = {Wanted(callers[c].ask)}

Distinct == \A i, j \in DOMAIN mutation : mutation[i] = mutation[j] => i = j

LEMMA OneAtATimeParts ==
    OneAtATime <=> Distinct /\ \A c \in Callers : InTurn(c)
  BY DEF OneAtATime, Distinct, InTurn, Turn, Stores

LEMMA TurnStep ==
    ASSUME IInv, [Next]_vars
    PROVE  OneAtATime'
<1>0. Shapes /\ CallersInPhase /\ OneAtATime /\ Distinct /\ \A c \in Callers : InTurn(c)
  BY OneAtATimeParts DEF IInv
<1> SUFFICES Distinct' /\ \A d \in Callers : InTurn(d)'
  BY OneAtATimeParts DEF OneAtATime, Distinct, InTurn, Turn, Stores
<1>1. ASSUME UNCHANGED <<mutation, callers, stored>>
      PROVE  Distinct' /\ \A d \in Callers : InTurn(d)'
  BY <1>0, <1>1 DEF Distinct, InTurn, Turn, Stores, InChain, Active
<1>2. ASSUME NEW c \in Callers, Ask(c) \/ Caller(c) \/ StorageSetFails(c)
      PROVE  Distinct' /\ \A d \in Callers : InTurn(d)'
  <2>1. /\ \/ /\ mutation' = mutation /\ (Turn(c)' <=> Turn(c))
              /\ Active(c)' => mutation # <<>> /\ Head(mutation) = c
           \/ mutation' = Append(mutation, c) /\ ~Turn(c) /\ Turn(c)' /\ ~Active(c)'
           \/ mutation' = Leave(c) /\ callers[c].at # "turn" /\ ~Turn(c)'
        /\ StorageSet(c) => Active(c)
        /\ Stores(c)' => stored' = {Wanted(callers'[c].ask)}
    BY <1>0, <1>2, ChainMoves
  <2>2. \A d \in Callers : d # c => callers'[d] = callers[d]
    BY <1>0, <1>2, CallerFrame, BecomeFacts
  <2>3. \A d \in Callers : d # c => (Turn(d)' <=> Turn(d)) /\ (Active(d)' <=> Active(d)) /\ (Stores(d)' <=> Stores(d))
    BY <2>2 DEF Turn, Active, Stores
  <2>4. \A d \in Callers : d # c /\ Active(d) => ~Active(c)
    BY <1>0 DEF InTurn
  <2>5. \A d \in Callers : d # c /\ Stores(d)' => stored' = {Wanted(callers'[d].ask)}
    <3> SUFFICES ASSUME NEW d \in Callers, d # c, Stores(d)'
                 PROVE  stored' = {Wanted(callers'[d].ask)}
      OBVIOUS
    <3>1. Stores(d) /\ callers'[d] = callers[d]
      BY <2>2, <2>3
    <3>2. UNCHANGED stored
      BY <1>2, <2>1, <2>4, <3>1, CallerFrame DEF Stores
    <3>3. stored = {Wanted(callers[d].ask)}
      BY <1>0, <3>1 DEF InTurn
    <3> QED
      BY <3>1, <3>2, <3>3
  <2>6. \A d \in Callers : Stores(d)' => stored' = {Wanted(callers'[d].ask)}
    BY <2>1, <2>5
  <2>7. mutation \in Seq(Callers)
    BY <1>0 DEF Shapes
  <2>8. CASE /\ mutation' = mutation /\ (Turn(c)' <=> Turn(c))
             /\ Active(c)' => mutation # <<>> /\ Head(mutation) = c
    <3>1. Distinct' /\ \A d \in Callers : InChain(d)' <=> InChain(d)
      BY <1>0, <2>8 DEF Distinct, InChain
    <3>2. \A d \in Callers : Turn(d)' <=> Turn(d)
      BY <2>3, <2>8
    <3>3. \A d \in Callers : Active(d)' => mutation # <<>> /\ Head(mutation) = d
      BY <1>0, <2>3, <2>8 DEF InTurn
    <3> QED
      BY <1>0, <2>6, <2>8, <3>1, <3>2, <3>3 DEF InTurn
  <2>9. CASE mutation' = Append(mutation, c) /\ ~Turn(c) /\ Turn(c)' /\ ~Active(c)'
    <3>1. /\ DOMAIN mutation = 1..Len(mutation) /\ Len(mutation) \in Nat
          /\ DOMAIN mutation' = 1..(Len(mutation) + 1)
          /\ mutation'[Len(mutation) + 1] = c
          /\ \A i \in 1..Len(mutation) : mutation'[i] = mutation[i]
          /\ mutation' # <<>>
      BY <2>7, <2>9, AppendFacts
    <3>2. \A i \in DOMAIN mutation : mutation[i] # c
      BY <1>0, <2>9 DEF InTurn, InChain
    <3>3. Distinct'
      BY <1>0, <3>1, <3>2 DEF Distinct
    <3>4. \A d \in Callers : InChain(d)' <=> (d = c \/ InChain(d))
      BY <3>1 DEF InChain
    <3>5. mutation # <<>> => Head(mutation') = Head(mutation)
      BY <2>7, <2>9, <3>1
    <3>6. \A d \in Callers : Active(d)' => mutation' # <<>> /\ Head(mutation') = d
      BY <1>0, <2>3, <2>9, <3>1, <3>5 DEF InTurn
    <3> QED
      BY <1>0, <2>3, <2>6, <2>9, <3>3, <3>4, <3>6 DEF InTurn
  <2>10. CASE mutation' = Leave(c) /\ callers[c].at # "turn" /\ ~Turn(c)'
    <3>1. CASE Turn(c)
      <4>1. Active(c) /\ mutation # <<>> /\ Head(mutation) = c
        BY <1>0, <2>10, <3>1 DEF Turn, InTurn
      <4>2. mutation' = Tail(mutation)
        BY <2>10, <4>1 DEF Leave
      <4>3. /\ Len(mutation) \in Nat /\ Len(mutation) > 0 /\ DOMAIN mutation = 1..Len(mutation)
            /\ c = mutation[1]
            /\ DOMAIN mutation' = 1..(Len(mutation) - 1)
            /\ \A i \in DOMAIN mutation' : i + 1 \in DOMAIN mutation /\ mutation'[i] = mutation[i + 1]
        BY <2>7, <4>1, <4>2, TailFacts
      <4>4. Distinct'
        <5> SUFFICES ASSUME NEW i \in DOMAIN mutation', NEW j \in DOMAIN mutation',
                            mutation'[i] = mutation'[j]
                     PROVE  i = j
          BY DEF Distinct
        <5>1. i + 1 = j + 1
          BY <1>0, <4>3 DEF Distinct
        <5> QED
          BY <4>3, <5>1
      <4>5. \A d \in Callers : InChain(d)' <=> (d # c /\ InChain(d))
        <5>1. ASSUME NEW d \in Callers, InChain(d)'
              PROVE  d # c /\ InChain(d)
          <6>1. PICK i \in DOMAIN mutation' : mutation'[i] = d
            BY <5>1 DEF InChain
          <6>2. i + 1 \in DOMAIN mutation /\ mutation[i + 1] = d /\ i + 1 # 1
            BY <4>3, <6>1
          <6> QED
            BY <1>0, <4>3, <6>2 DEF InChain, Distinct
        <5>2. ASSUME NEW d \in Callers, d # c, InChain(d)
              PROVE  InChain(d)'
          <6>1. PICK i \in DOMAIN mutation : mutation[i] = d
            BY <5>2 DEF InChain
          <6>2. i - 1 \in DOMAIN mutation' /\ (i - 1) + 1 = i
            BY <4>3, <5>2, <6>1
          <6>3. mutation'[i - 1] = d
            BY <4>3, <6>1, <6>2
          <6> QED
            BY <6>2, <6>3 DEF InChain
        <5> QED
          BY <5>1, <5>2
      <4>6. \A d \in Callers : ~Active(d)'
        BY <2>3, <2>4, <2>10, <4>1 DEF Turn
      <4> QED
        BY <1>0, <2>3, <2>6, <2>10, <4>4, <4>5, <4>6 DEF InTurn
    <3>2. CASE ~Turn(c)
      <4>1. ~InChain(c)
        BY <1>0, <3>2 DEF InTurn
      <4>2. mutation' = mutation
        <5>1. mutation # <<>> => Head(mutation) # c
          BY <2>7, <4>1, TailFacts DEF InChain
        <5> QED
          BY <2>10, <5>1 DEF Leave
      <4>3. Distinct' /\ \A d \in Callers : InChain(d)' <=> InChain(d)
        BY <1>0, <4>2 DEF Distinct, InChain
      <4>4. \A d \in Callers : Active(d)' => mutation # <<>> /\ Head(mutation) = d
        BY <1>0, <2>3, <2>10 DEF InTurn, Turn
      <4> QED
        BY <1>0, <2>3, <2>6, <2>10, <3>2, <4>2, <4>3, <4>4 DEF InTurn
    <3> QED
      BY <3>1, <3>2
  <2> QED
    BY <2>1, <2>8, <2>9, <2>10
<1>3. CASE StoreDefaults
  <2>1. UNCHANGED <<mutation, callers>>
    BY <1>3 DEF StoreDefaults
  <2>2. stored = {}
    BY <1>3 DEF StoreDefaults, IInv, RunIsCurrent
  <2>3. \A d \in Callers : ~Stores(d)
    BY <1>0, <2>2 DEF InTurn
  <2>4. Distinct' /\ \A d \in Callers : (InChain(d)' <=> InChain(d)) /\ (Turn(d)' <=> Turn(d))
                                        /\ (Active(d)' <=> Active(d)) /\ ~Stores(d)'
    BY <1>0, <2>1, <2>3 DEF Distinct, InChain, Turn, Active, Stores
  <2> QED
    BY <1>0, <2>1, <2>4 DEF InTurn
<1>4. CASE FactsChange \/ SourceChanged \/ (Controller /\ ~StoreDefaults) \/ Fail \/ UNCHANGED vars
  <2>1. UNCHANGED <<mutation, callers, stored>>
    BY <1>4 DEF FactsChange, SourceChanged, Controller, Reconcile, StorageGet, ReadDesiredSettings,
       ReadFacts, Publish, Fail, vars, chrome
  <2> QED
    BY <1>1, <2>1
<1> QED
  BY <1>2, <1>3, <1>4 DEF Next, Controller

-----------------------------------------------------------------------------
(* The settings *)

LEMMA SettingsInit == Init => IInv
<1> SUFFICES ASSUME Init
             PROVE  IInv
  OBVIOUS
<1>1. Shapes
  <2>1. <<"queued">> \in Seq(Outcomes) /\ <<"queued">> # <<>> /\ <<>> \in Seq(Callers)
    BY DEF Outcomes
  <2>2. Idle \in Runs
    BY DEF Idle, Runs
  <2>3. NoCaller \in CallerStates
    BY DEF NoCaller, CallerStates, Asks
  <2>4. 0 \in 0..MaxChanges /\ 0 \in 0..MaxFailures /\ 0 \in 0..0
    BY SettingsAssumption
  <2> QED
    BY <2>1, <2>2, <2>3, <2>4 DEF Init, Shapes, Options
<1>2. SettledInOrder
  <2>1. Len(chain) = 1 /\ DOMAIN chain = 1..1 /\ chain[1] = "queued"
    BY DEF Init
  <2> QED
    BY <2>1 DEF SettledInOrder
<1>3. RunIsCurrent /\ LastIsPublished
  <2>1. chain[Len(chain)] = "queued" /\ run.at = "idle"
    BY DEF Init, Idle
  <2> QED
    BY <2>1 DEF RunIsCurrent, LastIsPublished
<1>4. \A c \in Callers : callers[c] = NoCaller
  BY DEF Init
<1>5. CallersInPhase /\ SetterSeesItsSetting /\ FreshState
  <2>1. Len(chain) = 1 /\ sourceGeneration = 0
    BY DEF Init
  <2> QED
    BY <1>4, <2>1 DEF NoCaller, CallersInPhase, SetterSeesItsSetting, FreshState
<1>6. OneAtATime
  <2>1. mutation = <<>> /\ DOMAIN mutation = {}
    BY DEF Init
  <2> QED
    BY <1>4, <2>1 DEF OneAtATime, InChain, Active, NoCaller
<1> QED
  BY <1>1, <1>2, <1>3, <1>5, <1>6 DEF IInv

LEMMA SettingsStep == IInv /\ [Next]_vars => IInv'
<1> SUFFICES ASSUME IInv, [Next]_vars
             PROVE  IInv'
  OBVIOUS
<1>1. Shapes' /\ SettledInOrder' /\ RunIsCurrent' /\ LastIsPublished' /\ CallersInPhase'
  BY ShapesStep, OrderStep, RunStep, PublishedStep, PhaseStep DEF IInv
<1>2. OneAtATime' /\ SetterSeesItsSetting' /\ FreshState'
  BY TurnStep, GivenStep
<1> QED
  BY <1>1, <1>2 DEF IInv

\* The invariant says what SettingsHold says.
LEMMA SettingsEnough == IInv => SettingsHold
<1> SUFFICES ASSUME IInv
             PROVE  SettingsHold
  OBVIOUS
<1>1. TypeOK
  <2>1. stored \subseteq BOOLEAN /\ Cardinality(stored) <= 1
    <3>1. \A s, t \in stored : s = t
      BY DEF IInv, Shapes, Options
    <3>2. stored \subseteq BOOLEAN
      BY DEF IInv, Shapes, Options
    <3> QED
      BY <3>1, <3>2, OptionCardinality
  <2>2. snapshot \subseteq Snapshots /\ Cardinality(snapshot) <= 1
    BY OptionCardinality DEF IInv, Shapes
  <2>3. \A i \in DOMAIN chain : chain[i] \in {"queued", "resolved", "rejected"}
    BY ChainFacts DEF IInv, Outcomes
  <2>4. \A i, j \in DOMAIN mutation : mutation[i] = mutation[j] => i = j
    BY DEF IInv, OneAtATime
  <2>5. \A c \in Callers :
           /\ callers[c].ask \in Asks
           /\ callers[c].at \in {"absent", "try", "retry", "again", "turn", "stored", "applied",
                                 "done", "refused", "failed"}
           /\ callers[c].awaits \in 0..Len(chain)
           /\ callers[c].given \subseteq Snapshots
    <3> SUFFICES ASSUME NEW c \in Callers
                 PROVE  /\ callers[c].ask \in Asks
                        /\ callers[c].at \in {"absent", "try", "retry", "again", "turn", "stored", "applied",
                                              "done", "refused", "failed"}
                        /\ callers[c].awaits \in 0..Len(chain)
                        /\ callers[c].given \subseteq Snapshots
      OBVIOUS
    <3>1. callers[c] \in CallerStates /\ callers[c].awaits <= Len(chain) /\ Len(chain) \in Nat
      BY ChainFacts DEF IInv, Shapes, CallersInPhase
    <3> QED
      BY <3>1 DEF CallerStates
  <2>6. run.at \in {"idle", "get", "got", "defaults", "facts", "evaluated"} /\ run.read \subseteq BOOLEAN
    BY DEF IInv, Shapes, Runs
  <2>7. facts \in 0..MaxChanges /\ failures \in 0..MaxFailures /\ sourceGeneration \in 0..changes
    BY DEF IInv, Shapes
  <2> QED
    BY <2>1, <2>2, <2>3, <2>4, <2>5, <2>6, <2>7 DEF TypeOK
<1>2. DefaultsNeverOverwrite
  BY DEF DefaultsNeverOverwrite, IInv, RunIsCurrent
<1>3. SnapshotIsThere
  BY IdledFacts DEF SnapshotIsThere, IInv, LastIsPublished
<1> QED
  BY <1>1, <1>2, <1>3 DEF SettingsHold, IInv

\* The inductive invariant of the capability controller, for any number of callers,
\* changes and failures (extension/capabilities.js).
THEOREM SettingsInvariance == Spec => []IInv
<1> QED
  BY SettingsInit, SettingsStep, PTL DEF Spec

\* Both controllers together are the capability controller and another one.
LEMMA ExtensionHasSettings == ExtensionSpec => Spec
<1>1. ExtensionInit => Init
  BY DEF ExtensionInit
<1>2. [ExtensionNext]_<<vars, model_vars, subject>> => [Next]_vars
  BY DEF ExtensionNext
<1> QED
  BY <1>1, <1>2, PTL DEF ExtensionSpec, Spec

\* Defaults never overwrite a setting, who changes the setting is given a state with
\* the change, and a state that is given is fresh (extension/capabilities.js:59-214).
THEOREM SettingsAreSound == ExtensionSpec => []SettingsHold
<1> QED
  BY SettingsInvariance, SettingsEnough, ExtensionHasSettings, PTL

-----------------------------------------------------------------------------
(* BrowserModel *)

\* The Cardinality that an instance has is the one of FiniteSets.
LEMMA ModelCardinality == \A S : Model!Cardinality(S) = Cardinality(S)
  BY DEF Model!Cardinality, Cardinality, Model!IsFiniteSet, IsFiniteSet

\* Two sequences, one behind the other.
LEMMA ConcatFacts ==
    ASSUME NEW S, NEW q \in Seq(S), NEW r \in Seq(S)
    PROVE  /\ q \o r \in Seq(S)
           /\ Len(q) \in Nat /\ Len(r) \in Nat /\ DOMAIN q = 1..Len(q) /\ DOMAIN r = 1..Len(r)
           /\ Len(q \o r) = Len(q) + Len(r) /\ DOMAIN (q \o r) = 1..(Len(q) + Len(r))
           /\ \A i \in 1..Len(q) : (q \o r)[i] = q[i]
           /\ \A i \in 1..(Len(q) + Len(r)) : i > Len(q) => i - Len(q) \in 1..Len(r) /\ (q \o r)[i] = r[i - Len(q)]
<1>1. /\ q \o r \in Seq(S) /\ Len(q \o r) = Len(q) + Len(r)
      /\ \A i \in 1..Len(q) + Len(r) : (q \o r)[i] = IF i <= Len(q) THEN q[i] ELSE r[i - Len(q)]
  BY ConcatProperties
<1>2. Len(q) \in Nat /\ Len(r) \in Nat /\ DOMAIN q = 1..Len(q) /\ DOMAIN r = 1..Len(r)
  OBVIOUS
<1>3. DOMAIN (q \o r) = 1..(Len(q) + Len(r))
  <2>1. DOMAIN (q \o r) = 1..Len(q \o r)
    BY <1>1
  <2> QED
    BY <1>1, <2>1
<1> QED
  BY <1>1, <1>2, <1>3

-----------------------------------------------------------------------------
(* Chrome changes *)

\* A change of Chrome's: it announces itself at the end of the channel, and the
\* lives it touches are new or over.
ChromeChanges(events) ==
    /\ model_changes < ModelChanges /\ model_changes' = model_changes + 1
    /\ events \in Seq(Model!Events) /\ events # <<>>
    /\ channel' = channel \o events
    /\ \A i \in DOMAIN events : /\ events[i].at = model_changes + 1
                                /\ events[i].type # "dirty" => Len(events) = 1
    /\ \A id \in Model!Ids : \/ Model!Life(id)' = Model!Life(id) /\ \A i \in DOMAIN events : ~Model!Resets(events[i], id)
                             \/ Model!Life(id)' \subseteq {model_changes + 1} /\ \E i \in DOMAIN events : Model!Resets(events[i], id)
    /\ windows' \in [WindowIds -> SUBSET Nat] /\ \A w \in WindowIds : Model!AtMostOne(windows'[w])
    /\ tabs' \in [TabIds -> SUBSET Model!Tabs] /\ \A t \in TabIds : Model!AtMostOne(tabs'[t])
    /\ \A t \in TabIds : \A tab \in tabs'[t] : windows'[tab.window] # {}
    /\ UNCHANGED <<queries, keys, forceNewIds, eventGeneration, reading, Model!knowledge, model_callers, delivered, model_failures>>

LEMMA IdFacts ==
    /\ \A w \in WindowIds : w \in Model!Ids /\ w \notin TabIds
    /\ \A t \in TabIds : t \in Model!Ids /\ t \notin WindowIds
    /\ \A id \in Model!Ids : id \in WindowIds \/ id \in TabIds
  BY ModelAssumption DEF Model!Ids

LEMMA EventFacts ==
    ASSUME Model!Shapes, NEW type \in {"created", "removed", "dirty", "replaced"}, NEW id \in Model!Ids, NEW old \in Model!Ids
    PROVE  /\ Model!Event(type, id, old) \in Model!Events
           /\ Model!Event(type, id, old).type = type /\ Model!Event(type, id, old).id = id
           /\ Model!Event(type, id, old).old = old /\ Model!Event(type, id, old).at = model_changes + 1
           /\ <<Model!Event(type, id, old)>> \in Seq(Model!Events) /\ <<Model!Event(type, id, old)>> # <<>>
           /\ DOMAIN <<Model!Event(type, id, old)>> = {1} /\ Len(<<Model!Event(type, id, old)>>) = 1
           /\ <<Model!Event(type, id, old)>>[1] = Model!Event(type, id, old)
<1>1. model_changes \in Nat /\ model_changes + 1 \in Nat
  BY ModelAssumption DEF Model!Shapes
<1>2. /\ Model!Event(type, id, old) \in Model!Events
      /\ Model!Event(type, id, old).type = type /\ Model!Event(type, id, old).id = id
      /\ Model!Event(type, id, old).old = old /\ Model!Event(type, id, old).at = model_changes + 1
  BY <1>1 DEF Model!Event, Model!Events
<1> HIDE DEF Model!Event
<1>3. DOMAIN <<Model!Event(type, id, old)>> = {1}
  OBVIOUS
<1> QED
  BY <1>2, <1>3

\* One event: the others keep their lives.
LEMMA OneEvent ==
    ASSUME Model!Shapes, NEW type \in {"created", "removed", "replaced"}, NEW id \in Model!Ids, NEW old \in Model!Ids,
           Model!Announce(<<Model!Event(type, id, old)>>),
           type # "replaced" => old = id,
           \A x \in Model!Ids : x # id /\ x # old => Model!Life(x)' = Model!Life(x),
           Model!Life(id)' \subseteq {model_changes + 1}, Model!Life(old)' \subseteq {model_changes + 1},
           windows' \in [WindowIds -> SUBSET Nat], \A w \in WindowIds : Model!AtMostOne(windows'[w]),
           tabs' \in [TabIds -> SUBSET Model!Tabs], \A t \in TabIds : Model!AtMostOne(tabs'[t]),
           \A t \in TabIds : \A tab \in tabs'[t] : windows'[tab.window] # {}
    PROVE  \E events \in Seq(Model!Events) : ChromeChanges(events)
<1> DEFINE event == Model!Event(type, id, old)
<1>1. /\ event \in Model!Events /\ event.type = type /\ event.id = id /\ event.old = old /\ event.at = model_changes + 1
      /\ <<event>> \in Seq(Model!Events) /\ <<event>> # <<>>
      /\ DOMAIN <<event>> = {1} /\ Len(<<event>>) = 1 /\ <<event>>[1] = event
  BY EventFacts
<1>2. /\ model_changes < ModelChanges /\ model_changes' = model_changes + 1 /\ channel' = channel \o <<event>>
      /\ UNCHANGED <<queries, keys, forceNewIds, eventGeneration, reading, Model!knowledge, model_callers, delivered, model_failures>>
  BY DEF Model!Announce
<1> HIDE DEF event
<1>3. \A x \in Model!Ids : Model!Resets(event, x) <=> (x = id \/ x = old)
  BY <1>1 DEF Model!Resets
<1>4. \A x \in Model!Ids :
         \/ Model!Life(x)' = Model!Life(x) /\ \A i \in DOMAIN <<event>> : ~Model!Resets(<<event>>[i], x)
         \/ Model!Life(x)' \subseteq {model_changes + 1} /\ \E i \in DOMAIN <<event>> : Model!Resets(<<event>>[i], x)
  BY <1>1, <1>3
<1>5. \A i \in DOMAIN <<event>> : /\ <<event>>[i].at = model_changes + 1
                                  /\ <<event>>[i].type # "dirty" => Len(<<event>>) = 1
  BY <1>1
<1>6. ChromeChanges(<<event>>)
  BY <1>1, <1>2, <1>4, <1>5 DEF ChromeChanges
<1> QED
  BY <1>1, <1>6

LEMMA ChromeFacts ==
    ASSUME Model!Shapes, Model!ChromeFits, Model!Chrome
    PROVE  \E events \in Seq(Model!Events) : ChromeChanges(events)
<1>0. /\ model_changes \in Nat /\ model_changes + 1 \in Nat
      /\ windows \in [WindowIds -> SUBSET Nat] /\ \A w \in WindowIds : Model!AtMostOne(windows[w])
      /\ tabs \in [TabIds -> SUBSET Model!Tabs] /\ \A t \in TabIds : Model!AtMostOne(tabs[t])
      /\ \A t \in TabIds : \A tab \in tabs[t] : windows[tab.window] # {}
      /\ \A t \in TabIds : \A tab \in tabs[t] : tab \in Model!Tabs /\ tab.window \in WindowIds /\ tab.since \in Nat
  <2>1. model_changes \in Nat /\ model_changes + 1 \in Nat
    BY ModelAssumption DEF Model!Shapes
  <2>2. /\ windows \in [WindowIds -> SUBSET Nat] /\ \A w \in WindowIds : Model!AtMostOne(windows[w])
        /\ tabs \in [TabIds -> SUBSET Model!Tabs] /\ \A t \in TabIds : Model!AtMostOne(tabs[t])
    BY DEF Model!Shapes
  <2>3. \A t \in TabIds : \A tab \in tabs[t] : windows[tab.window] # {}
    BY DEF Model!ChromeFits
  <2>4. \A tab \in Model!Tabs : tab.window \in WindowIds /\ tab.since \in Nat
    BY DEF Model!Tabs
  <2>5. \A t \in TabIds : \A tab \in tabs[t] : tab \in Model!Tabs
    BY <2>2
  <2> QED
    BY <2>1, <2>2, <2>3, <2>4, <2>5
<1>1. CASE Model!CreateWindow
  <2>1. PICK w \in WindowIds : /\ windows[w] = {} /\ windows' = [windows EXCEPT ![w] = {model_changes + 1}]
                               /\ Model!Announce(<<Model!Event("created", w, w)>>) /\ tabs' = tabs
    BY <1>1 DEF Model!CreateWindow
  <2>2. windows' \in [WindowIds -> SUBSET Nat]
    BY <1>0, <2>1
  <2>3. \A v \in WindowIds : windows'[v] = IF v = w THEN {model_changes + 1} ELSE windows[v]
    BY <1>0, <2>1
  <2>4. \A v \in WindowIds : Model!AtMostOne(windows'[v])
    BY <1>0, <2>3 DEF Model!AtMostOne
  <2>5. \A x \in Model!Ids : x # w => Model!Life(x)' = Model!Life(x)
    BY <2>1, <2>3, IdFacts DEF Model!Life
  <2>6. Model!Life(w)' \subseteq {model_changes + 1}
    BY <2>3 DEF Model!Life
  <2>7. \A t \in TabIds : \A tab \in tabs'[t] : windows'[tab.window] # {}
    BY <1>0, <2>1, <2>3
  <2>8. /\ Model!Announce(<<Model!Event("created", w, w)>>) /\ w \in Model!Ids
        /\ tabs' \in [TabIds -> SUBSET Model!Tabs] /\ \A t \in TabIds : Model!AtMostOne(tabs'[t])
    BY <1>0, <2>1, IdFacts
  <2> QED
    BY <2>2, <2>4, <2>5, <2>6, <2>7, <2>8, OneEvent
<1>2. CASE Model!RemoveWindow
  <2>1. PICK w \in WindowIds : /\ Model!TabsOf(w) = {} /\ windows' = [windows EXCEPT ![w] = {}]
                               /\ Model!Announce(<<Model!Event("removed", w, w)>>) /\ tabs' = tabs
    BY <1>2 DEF Model!RemoveWindow
  <2>2. windows' \in [WindowIds -> SUBSET Nat]
    BY <1>0, <2>1
  <2>3. \A v \in WindowIds : windows'[v] = IF v = w THEN {} ELSE windows[v]
    BY <1>0, <2>1
  <2>4. \A v \in WindowIds : Model!AtMostOne(windows'[v])
    BY <1>0, <2>3 DEF Model!AtMostOne
  <2>5. \A x \in Model!Ids : x # w => Model!Life(x)' = Model!Life(x)
    BY <2>1, <2>3, IdFacts DEF Model!Life
  <2>6. Model!Life(w)' \subseteq {model_changes + 1}
    BY <2>3 DEF Model!Life
  <2>7. \A t \in TabIds : \A tab \in tabs'[t] : windows'[tab.window] # {}
    <3>1. \A t \in TabIds : \A tab \in tabs[t] : tab.window # w
      BY <2>1 DEF Model!TabsOf
    <3> QED
      BY <1>0, <2>1, <2>3, <3>1
  <2> QED
    BY <1>0, <2>1, <2>2, <2>4, <2>5, <2>6, <2>7, IdFacts, OneEvent
<1>3. CASE Model!CreateTab
  <2>1. PICK t \in TabIds, w \in WindowIds :
               /\ windows[w] # {} /\ tabs' = [tabs EXCEPT ![t] = {[since |-> model_changes + 1, window |-> w]}]
               /\ Model!Announce(<<Model!Event("created", t, t)>>) /\ windows' = windows
    BY <1>3 DEF Model!CreateTab
  <2>2. [since |-> model_changes + 1, window |-> w] \in Model!Tabs
    BY <1>0 DEF Model!Tabs
  <2>3. \A u \in TabIds : tabs'[u] = IF u = t THEN {[since |-> model_changes + 1, window |-> w]} ELSE tabs[u]
    BY <1>0, <2>1
  <2>4. tabs' \in [TabIds -> SUBSET Model!Tabs] /\ \A u \in TabIds : Model!AtMostOne(tabs'[u])
    BY <1>0, <2>1, <2>2, <2>3 DEF Model!AtMostOne
  <2>5. \A x \in Model!Ids : x # t => Model!Life(x)' = Model!Life(x)
    BY <2>1, <2>3, IdFacts DEF Model!Life
  <2>6. Model!Life(t)' \subseteq {model_changes + 1}
    BY <2>3, IdFacts DEF Model!Life
  <2>7. \A u \in TabIds : \A tab \in tabs'[u] : windows'[tab.window] # {}
    BY <1>0, <2>1, <2>3
  <2>8. /\ Model!Announce(<<Model!Event("created", t, t)>>) /\ t \in Model!Ids
        /\ windows' \in [WindowIds -> SUBSET Nat] /\ \A v \in WindowIds : Model!AtMostOne(windows'[v])
    BY <1>0, <2>1, IdFacts
  <2> QED
    BY <2>4, <2>5, <2>6, <2>7, <2>8, OneEvent
<1>4. CASE Model!RemoveTab
  <2>1. PICK t \in TabIds : /\ tabs' = [tabs EXCEPT ![t] = {}]
                            /\ Model!Announce(<<Model!Event("removed", t, t)>>) /\ windows' = windows
    BY <1>4 DEF Model!RemoveTab
  <2>3. \A u \in TabIds : tabs'[u] = IF u = t THEN {} ELSE tabs[u]
    BY <1>0, <2>1
  <2>4. tabs' \in [TabIds -> SUBSET Model!Tabs] /\ \A u \in TabIds : Model!AtMostOne(tabs'[u])
    BY <1>0, <2>1, <2>3 DEF Model!AtMostOne
  <2>5. \A x \in Model!Ids : x # t => Model!Life(x)' = Model!Life(x)
    BY <2>1, <2>3, IdFacts DEF Model!Life
  <2>6. Model!Life(t)' \subseteq {model_changes + 1}
    BY <2>3, IdFacts DEF Model!Life
  <2>7. \A u \in TabIds : \A tab \in tabs'[u] : windows'[tab.window] # {}
    BY <1>0, <2>1, <2>3
  <2> QED
    BY <1>0, <2>1, <2>4, <2>5, <2>6, <2>7, IdFacts, OneEvent
<1>5. CASE Model!MoveTab
  <2>0. PICK t \in TabIds, w \in WindowIds : \E tab \in tabs[t] :
               /\ windows[w] # {} /\ tabs' = [tabs EXCEPT ![t] = {[tab EXCEPT !.window = w]}]
               /\ Model!Announce(<<Model!Event("dirty", t, t), Model!Event("dirty", t, t)>>) /\ windows' = windows
    BY <1>5 DEF Model!MoveTab
  <2>1. PICK tab \in tabs[t] :
               /\ windows[w] # {} /\ tabs' = [tabs EXCEPT ![t] = {[tab EXCEPT !.window = w]}]
               /\ Model!Announce(<<Model!Event("dirty", t, t), Model!Event("dirty", t, t)>>) /\ windows' = windows
    BY <2>0
  <2> DEFINE event == Model!Event("dirty", t, t)
             events == <<event, event>>
  <2>2. event \in Model!Events /\ event.type = "dirty" /\ event.at = model_changes + 1
    BY IdFacts, EventFacts
  <2>3. /\ model_changes < ModelChanges /\ model_changes' = model_changes + 1 /\ channel' = channel \o events
        /\ UNCHANGED <<queries, keys, forceNewIds, eventGeneration, reading, Model!knowledge, model_callers, delivered, model_failures>>
    BY <2>1 DEF Model!Announce
  <2> HIDE DEF event
  <2>4. /\ events \in Seq(Model!Events) /\ events # <<>>
        /\ \A i \in DOMAIN events : events[i] = event
    BY <2>2
  <2> HIDE DEF events
  <2>5. \A x \in Model!Ids, i \in DOMAIN events : ~Model!Resets(events[i], x)
    BY <2>2, <2>4 DEF Model!Resets
  <2>6. [tab EXCEPT !.window = w] \in Model!Tabs /\ [tab EXCEPT !.window = w].since = tab.since
        /\ [tab EXCEPT !.window = w].window = w
    BY <1>0, <2>1 DEF Model!Tabs
  <2>7. \A u \in TabIds : tabs'[u] = IF u = t THEN {[tab EXCEPT !.window = w]} ELSE tabs[u]
    BY <1>0, <2>1
  <2>8. tabs' \in [TabIds -> SUBSET Model!Tabs] /\ \A u \in TabIds : Model!AtMostOne(tabs'[u])
    BY <1>0, <2>1, <2>6, <2>7 DEF Model!AtMostOne
  <2>9. \A x \in Model!Ids : Model!Life(x)' = Model!Life(x)
    <3>1. tabs[t] = {tab}
      BY <1>0, <2>1 DEF Model!AtMostOne
    <3>2. {y.since : y \in tabs'[t]} = {tab.since} /\ {y.since : y \in tabs[t]} = {tab.since}
      BY <2>6, <2>7, <3>1
    <3> QED
      BY <2>1, <2>7, <3>2, IdFacts DEF Model!Life
  <2>10. \A u \in TabIds : \A y \in tabs'[u] : windows'[y.window] # {}
    BY <1>0, <2>1, <2>6, <2>7
  <2>11. ChromeChanges(events)
    BY <1>0, <2>1, <2>2, <2>3, <2>4, <2>5, <2>8, <2>9, <2>10 DEF ChromeChanges
  <2> QED
    BY <2>4, <2>11
<1>6. CASE Model!ReplaceTab
  <2>0. PICK t \in TabIds, u \in TabIds : \E tab \in tabs[t] :
               /\ tabs[u] = {}
               /\ tabs' = [tabs EXCEPT ![t] = {}, ![u] = {[tab EXCEPT !.since = model_changes + 1]}]
               /\ Model!Announce(<<Model!Event("replaced", u, t)>>) /\ windows' = windows
    BY <1>6 DEF Model!ReplaceTab
  <2>1. PICK tab \in tabs[t] :
               /\ tabs[u] = {}
               /\ tabs' = [tabs EXCEPT ![t] = {}, ![u] = {[tab EXCEPT !.since = model_changes + 1]}]
               /\ Model!Announce(<<Model!Event("replaced", u, t)>>) /\ windows' = windows
    BY <2>0
  <2>2. [tab EXCEPT !.since = model_changes + 1] \in Model!Tabs /\ [tab EXCEPT !.since = model_changes + 1].since = model_changes + 1
        /\ [tab EXCEPT !.since = model_changes + 1].window = tab.window
    BY <1>0, <2>1 DEF Model!Tabs
  <2>3. t # u
    BY <2>1
  <2>4. \A x \in TabIds : tabs'[x] = IF x = u THEN {[tab EXCEPT !.since = model_changes + 1]}
                                     ELSE IF x = t THEN {} ELSE tabs[x]
    BY <1>0, <2>1, <2>3
  <2>5. tabs' \in [TabIds -> SUBSET Model!Tabs] /\ \A x \in TabIds : Model!AtMostOne(tabs'[x])
    BY <1>0, <2>1, <2>2, <2>4 DEF Model!AtMostOne
  <2>6. \A x \in Model!Ids : x # t /\ x # u => Model!Life(x)' = Model!Life(x)
    BY <2>1, <2>4, IdFacts DEF Model!Life
  <2>7. Model!Life(t)' \subseteq {model_changes + 1} /\ Model!Life(u)' \subseteq {model_changes + 1}
    BY <2>2, <2>4, IdFacts DEF Model!Life
  <2>8. \A x \in TabIds : \A y \in tabs'[x] : windows'[y.window] # {}
    BY <1>0, <2>1, <2>2, <2>4
  <2> QED
    BY <1>0, <2>1, <2>5, <2>6, <2>7, <2>8, IdFacts, OneEvent
<1> QED
  BY <1>1, <1>2, <1>3, <1>4, <1>5, <1>6 DEF Model!Chrome

-----------------------------------------------------------------------------
(* Types *)

LEMMA ChannelFacts ==
    ASSUME Model!Shapes
    PROVE  /\ channel \in Seq(Model!Messages) /\ Len(channel) \in Nat /\ DOMAIN channel = 1..Len(channel)
           /\ \A i \in DOMAIN channel : channel[i] \in Model!Messages
           /\ model_changes \in Nat /\ delivered \in Nat /\ delivered <= model_changes
  BY ModelAssumption DEF Model!Shapes

\* The kinds of messages.
LEMMA MessageFacts ==
    ASSUME NEW m \in Model!Messages
    PROVE  /\ m.type \in {"created", "removed", "dirty", "replaced", "windows", "tabs", "late"}
           /\ m.type \in {"created", "removed", "dirty", "replaced"} => m \in Model!Events
           /\ m.type = "windows" => m \in Model!WindowAnswers
           /\ m.type = "tabs" => m \in Model!TabAnswers
  BY DEF Model!Messages, Model!Events, Model!WindowAnswers, Model!TabAnswers

LEMMA HeadFacts ==
    ASSUME Model!Shapes, channel # <<>>, channel' = Tail(channel)
    PROVE  /\ Head(channel) = channel[1] /\ 1 \in DOMAIN channel /\ Len(channel) > 0
           /\ Head(channel) \in Model!Messages
           /\ channel' \in Seq(Model!Messages)
           /\ Len(channel') = Len(channel) - 1 /\ DOMAIN channel' = 1..(Len(channel) - 1)
           /\ \A i \in DOMAIN channel' : i + 1 \in DOMAIN channel /\ channel'[i] = channel[i + 1]
           /\ \A i \in DOMAIN channel : i # 1 => i - 1 \in DOMAIN channel' /\ channel'[i - 1] = channel[i]
<1>1. channel \in Seq(Model!Messages)
  BY ChannelFacts
<1>2. /\ Tail(channel) \in Seq(Model!Messages)
      /\ Len(channel) \in Nat /\ Len(channel) > 0 /\ DOMAIN channel = 1..Len(channel)
      /\ Head(channel) = channel[1] /\ 1 \in DOMAIN channel
      /\ Len(Tail(channel)) = Len(channel) - 1
      /\ DOMAIN Tail(channel) = 1..(Len(channel) - 1)
      /\ \A i \in DOMAIN Tail(channel) : i + 1 \in DOMAIN channel /\ Tail(channel)[i] = channel[i + 1]
  BY <1>1, TailFacts
<1>3. Head(channel) \in Model!Messages
  BY <1>2, ChannelFacts
<1>4. ASSUME NEW i \in DOMAIN channel, i # 1
      PROVE  i - 1 \in DOMAIN channel' /\ channel'[i - 1] = channel[i]
  <2>1. i - 1 \in DOMAIN Tail(channel) /\ (i - 1) + 1 = i
    BY <1>2, <1>4
  <2> QED
    BY <1>2, <2>1
<1> QED
  BY <1>2, <1>3, <1>4

\* The empty reading that a reconciliation begins with.
Fresh(generation) == [generation |-> generation, windows |-> {}, tabs |-> {}, drained |-> FALSE]

LEMMA StartFacts ==
    ASSUME NEW generation \in Nat, Model!StartRead(generation)
    PROVE  /\ reading' = {Fresh(generation)} /\ queries' = {"windows", "tabs"}
           /\ Fresh(generation) \in Model!Readings
           /\ Fresh(generation).windows = {} /\ Fresh(generation).tabs = {}
           /\ Fresh(generation).generation = generation
  BY DEF Model!StartRead, Fresh, Model!Readings

\* What Shapes says of a reading.
ReadingShape(readings, generation) ==
    /\ readings \subseteq Model!Readings /\ Model!AtMostOne(readings)
    /\ \A read \in readings : /\ Model!AtMostOne(read.windows) /\ Model!AtMostOne(read.tabs)
                              /\ read.generation <= generation

LEMMA FreshShape ==
    ASSUME NEW generation \in Nat, Model!StartRead(generation)
    PROVE  ReadingShape(reading', generation) /\ queries' \subseteq {"windows", "tabs"}
  BY StartFacts DEF ReadingShape, Model!AtMostOne

LEMMA TheReading ==
    ASSUME Model!Shapes, reading # {}
    PROVE  Model!Read \in reading /\ reading = {Model!Read} /\ Model!Read \in Model!Readings
<1>1. Model!Read \in reading
  BY DEF Model!Read
<1>2. reading = {Model!Read}
  BY <1>1 DEF Model!Shapes, Model!AtMostOne
<1> QED
  BY <1>1, <1>2 DEF Model!Shapes

LEMMA ShapesChrome ==
    ASSUME Model!Shapes, NEW events \in Seq(Model!Events), ChromeChanges(events)
    PROVE  Model!Shapes'
<1>1. channel' \in Seq(Model!Messages)
  <2>1. channel \in Seq(Model!Messages) /\ events \in Seq(Model!Messages)
    BY DEF Model!Shapes, Model!Messages
  <2>2. channel \o events \in Seq(Model!Messages)
    BY <2>1, ConcatFacts
  <2> QED
    BY <2>2 DEF ChromeChanges
<1>2. model_changes' \in 0..ModelChanges /\ delivered' \in 0..model_changes'
  BY ModelAssumption DEF Model!Shapes, ChromeChanges
<1>3. /\ UNCHANGED <<queries, keys, forceNewIds, eventGeneration, reading, model_callers, delivered, model_failures>>
      /\ UNCHANGED <<records, modelRevision, support, nextKey, named, reconciledGeneration>>
  BY DEF ChromeChanges, Model!knowledge
<1>4. /\ windows' \in [WindowIds -> SUBSET Nat] /\ \A w \in WindowIds : Model!AtMostOne(windows'[w])
      /\ tabs' \in [TabIds -> SUBSET Model!Tabs] /\ \A t \in TabIds : Model!AtMostOne(tabs'[t])
  BY DEF ChromeChanges
<1> QED
  BY <1>1, <1>2, <1>3, <1>4 DEF Model!Shapes, Model!AtMostOne

LEMMA ShapesAnswerQuery ==
    ASSUME Model!Shapes, Model!AnswerQuery
    PROVE  Model!Shapes'
<1>1. PICK query \in queries :
         /\ queries' = queries \ {query}
         /\ channel' = Append(channel, [type |-> query, at |-> model_changes,
                                        value |-> IF query = "windows" THEN windows ELSE tabs])
         /\ UNCHANGED <<Model!chrome, keys, forceNewIds, eventGeneration, reading, Model!knowledge, model_callers, delivered, model_failures>>
  BY DEF Model!AnswerQuery
<1> DEFINE answer == [type |-> query, at |-> model_changes, value |-> IF query = "windows" THEN windows ELSE tabs]
<1>2. answer \in Model!Messages
  <2>1. query \in {"windows", "tabs"} /\ model_changes \in Nat
    BY ChannelFacts DEF Model!Shapes
  <2>2. CASE query = "windows"
    <3>1. answer \in Model!WindowAnswers
      BY <2>1, <2>2 DEF Model!Shapes, Model!WindowAnswers
    <3> QED
      BY <3>1 DEF Model!Messages
  <2>3. CASE query = "tabs"
    <3>1. answer \in Model!TabAnswers
      BY <2>1, <2>3 DEF Model!Shapes, Model!TabAnswers
    <3> QED
      BY <3>1 DEF Model!Messages
  <2> QED
    BY <2>1, <2>2, <2>3
<1> HIDE DEF answer
<1>3. channel' \in Seq(Model!Messages)
  BY <1>1, <1>2, ChannelFacts DEF answer
<1>4. queries' \subseteq {"windows", "tabs"}
  BY <1>1 DEF Model!Shapes
<1> QED
  BY <1>1, <1>3, <1>4 DEF Model!Shapes, Model!chrome, Model!knowledge, Model!AtMostOne

LEMMA ShapesHandleEvent ==
    ASSUME Model!Shapes, Model!ChannelInOrder, Model!HandleEvent
    PROVE  Model!Shapes'
<1>1. /\ channel' \in Seq(Model!Messages) /\ Head(channel) = channel[1] /\ 1 \in DOMAIN channel
      /\ Head(channel) \in Model!Events
  BY HeadFacts, MessageFacts DEF Model!HandleEvent
<1>2. delivered' = Head(channel).at /\ delivered' \in delivered..model_changes
  BY <1>1 DEF Model!HandleEvent, Model!ChannelInOrder, Model!IsEvent
<1>3. keys' = Model!KeysAfter(Head(channel)) /\ forceNewIds' \subseteq Model!Ids
  BY <1>1 DEF Model!HandleEvent, Model!Shapes, Model!Events
<1>4. keys' \in [Model!Ids -> SUBSET Nat] /\ \A id \in Model!Ids : Model!AtMostOne(keys'[id])
  <2>1. \A id \in Model!Ids : keys'[id] \in {{}, keys[id]}
    BY <1>3 DEF Model!KeysAfter
  <2>2. DOMAIN keys' = Model!Ids /\ keys' = [id \in Model!Ids |-> keys'[id]]
    BY <1>3 DEF Model!KeysAfter
  <2>3. \A id \in Model!Ids : keys'[id] \in SUBSET Nat /\ Model!AtMostOne(keys'[id])
    BY <2>1 DEF Model!Shapes, Model!AtMostOne
  <2> QED
    BY <2>2, <2>3
<1>5. eventGeneration' = eventGeneration + 1 /\ eventGeneration \in Nat
  BY DEF Model!HandleEvent, Model!Shapes
<1>6. ReadingShape(reading', eventGeneration') /\ queries' \subseteq {"windows", "tabs"}
  <2>1. CASE reading = {}
    BY <1>5, <2>1, FreshShape DEF Model!HandleEvent
  <2>2. CASE reading # {}
    <3>1. UNCHANGED <<reading, queries>>
      BY <2>2 DEF Model!HandleEvent
    <3>2. \A read \in reading : read.generation \in Nat
      BY DEF Model!Shapes, Model!Readings
    <3> QED
      BY <1>5, <3>1, <3>2 DEF Model!Shapes, ReadingShape
  <2> QED
    BY <2>1, <2>2
<1>7. UNCHANGED <<windows, tabs, model_changes, records, modelRevision, support, nextKey, named, reconciledGeneration,
                  model_callers, model_failures>>
  BY DEF Model!HandleEvent, Model!chrome, Model!knowledge
<1>8. /\ reconciledGeneration' \in -1..eventGeneration'
      /\ \A c \in ModelCallers : model_callers'[c].asked \in 0..delivered'
      /\ delivered' \in 0..model_changes'
  <2>1. reconciledGeneration \in -1..eventGeneration /\ \A c \in ModelCallers : model_callers[c].asked \in 0..delivered
    BY DEF Model!Shapes
  <2> QED
    BY <1>2, <1>5, <1>7, <2>1, ChannelFacts
<1> QED
  BY <1>1, <1>3, <1>4, <1>5, <1>6, <1>7, <1>8 DEF Model!Shapes, ReadingShape, Model!AtMostOne

LEMMA WithFacts ==
    ASSUME NEW read \in Model!Readings, NEW answer \in Model!Messages,
           Model!AtMostOne(read.windows), Model!AtMostOne(read.tabs)
    PROVE  /\ Model!With(read, answer) \in Model!Readings
           /\ Model!With(read, answer).generation = read.generation
           /\ Model!With(read, answer).windows = IF answer.type = "windows" THEN {answer} ELSE read.windows
           /\ Model!With(read, answer).tabs = IF answer.type = "tabs" THEN {answer} ELSE read.tabs
           /\ Model!AtMostOne(Model!With(read, answer).windows) /\ Model!AtMostOne(Model!With(read, answer).tabs)
<1>1. CASE answer.type = "windows"
  <2>1. {answer} \in SUBSET Model!WindowAnswers
    BY <1>1, MessageFacts
  <2>2. Model!With(read, answer) = [read EXCEPT !.windows = {answer}]
    BY <1>1 DEF Model!With
  <2> QED
    BY <1>1, <2>1, <2>2 DEF Model!Readings, Model!AtMostOne
<1>2. CASE answer.type = "tabs"
  <2>1. {answer} \in SUBSET Model!TabAnswers
    BY <1>2, MessageFacts
  <2>2. Model!With(read, answer) = [read EXCEPT !.tabs = {answer}]
    BY <1>2 DEF Model!With
  <2> QED
    BY <1>2, <2>1, <2>2 DEF Model!Readings, Model!AtMostOne
<1>3. CASE answer.type \notin {"windows", "tabs"}
  BY <1>3 DEF Model!With
<1> QED
  BY <1>1, <1>2, <1>3

LEMMA ShapesHandleAnswer ==
    ASSUME Model!Shapes, Model!HandleAnswer
    PROVE  Model!Shapes'
<1>1. channel' \in Seq(Model!Messages) /\ Head(channel) \in Model!Messages
  BY HeadFacts DEF Model!HandleAnswer
<1>2. reading' = {Model!With(read, Head(channel)) : read \in reading}
  BY DEF Model!HandleAnswer
<1>3. ReadingShape(reading', eventGeneration)
  <2>1. ReadingShape(reading, eventGeneration)
    BY DEF Model!Shapes, ReadingShape
  <2>2. \A read \in reading :
           /\ Model!With(read, Head(channel)) \in Model!Readings
           /\ Model!With(read, Head(channel)).generation <= eventGeneration
           /\ Model!AtMostOne(Model!With(read, Head(channel)).windows) /\ Model!AtMostOne(Model!With(read, Head(channel)).tabs)
    BY <1>1, <2>1, WithFacts DEF ReadingShape
  <2>3. Model!AtMostOne(reading')
    BY <1>2, <2>1 DEF ReadingShape, Model!AtMostOne
  <2> QED
    BY <1>2, <2>2, <2>3 DEF ReadingShape
<1>4. UNCHANGED <<windows, tabs, model_changes, records, modelRevision, support, nextKey, named, reconciledGeneration, queries,
                  keys, forceNewIds, eventGeneration, model_callers, delivered, model_failures>>
  BY DEF Model!HandleAnswer, Model!chrome, Model!knowledge
<1> QED
  BY <1>1, <1>3, <1>4 DEF Model!Shapes, ReadingShape, Model!AtMostOne

LEMMA ShapesReading ==
    ASSUME Model!Shapes, Model!Drain \/ Model!ReadAgain
    PROVE  Model!Shapes'
<1>1. UNCHANGED <<windows, tabs, model_changes, channel, records, modelRevision, support, nextKey, named, reconciledGeneration,
                  keys, forceNewIds, eventGeneration, model_callers, delivered, model_failures>>
  BY DEF Model!Drain, Model!ReadAgain, Model!chrome, Model!knowledge
<1>2. ReadingShape(reading', eventGeneration) /\ queries' \subseteq {"windows", "tabs"}
  <2>1. CASE Model!Drain
    <3>1. reading # {} /\ reading' = {[Model!Read EXCEPT !.drained = TRUE]} /\ UNCHANGED queries
      BY <2>1 DEF Model!Drain, Model!AllRead
    <3>2. Model!Read \in reading /\ Model!Read \in Model!Readings
      BY <3>1, TheReading
    <3>3. /\ [Model!Read EXCEPT !.drained = TRUE] \in Model!Readings
          /\ [Model!Read EXCEPT !.drained = TRUE].windows = Model!Read.windows
          /\ [Model!Read EXCEPT !.drained = TRUE].tabs = Model!Read.tabs
          /\ [Model!Read EXCEPT !.drained = TRUE].generation = Model!Read.generation
      BY <3>2 DEF Model!Readings
    <3> QED
      BY <3>1, <3>2, <3>3 DEF Model!Shapes, ReadingShape, Model!AtMostOne
  <2>2. CASE Model!ReadAgain
    BY <2>2, FreshShape DEF Model!ReadAgain, Model!Shapes
  <2> QED
    BY <2>1, <2>2
<1> QED
  BY <1>1, <1>2 DEF Model!Shapes, ReadingShape, Model!AtMostOne

\* A failed read leaves the events in the channel, and late answers.
LEMMA LateFacts ==
    ASSUME Model!Shapes, Model!ReadFails
    PROVE  /\ channel' \in Seq(Model!Messages) /\ DOMAIN channel' = DOMAIN channel
           /\ \A i \in DOMAIN channel :
                 /\ Model!IsAnswer(i) => channel'[i].type = "late"
                 /\ ~Model!IsAnswer(i) => channel'[i] = channel[i]
<1>1. channel' = [i \in DOMAIN channel |-> Model!Late(channel[i])]
  BY DEF Model!ReadFails
<1>2. \A i \in DOMAIN channel : Model!Late(channel[i]) \in Model!Messages
  <2> SUFFICES ASSUME NEW i \in DOMAIN channel
               PROVE  Model!Late(channel[i]) \in Model!Messages
    OBVIOUS
  <2>1. channel[i] \in Model!Messages
    BY ChannelFacts
  <2>2. [type |-> "late"] \in Model!Messages
    BY DEF Model!Messages
  <2> QED
    BY <2>1, <2>2 DEF Model!Late
<1>3. channel' \in Seq(Model!Messages)
  BY <1>1, <1>2, ChannelFacts
<1> QED
  BY <1>1, <1>3 DEF Model!Late, Model!IsAnswer

LEMMA ShapesReadFails ==
    ASSUME Model!Shapes, Model!ReadFails
    PROVE  Model!Shapes'
<1>1. UNCHANGED <<windows, tabs, model_changes, records, modelRevision, support, nextKey, named, reconciledGeneration,
                  keys, forceNewIds, eventGeneration, delivered>>
      /\ reading' = {} /\ queries' = {} /\ model_failures < ModelFailures /\ model_failures' = model_failures + 1
  BY DEF Model!ReadFails, Model!chrome, Model!knowledge
<1>2. channel' \in Seq(Model!Messages)
  BY LateFacts
<1>3. /\ model_callers' = [c \in ModelCallers |-> IF model_callers[c].at = "waiting" THEN [model_callers[c] EXCEPT !.at = "failed"]
                                       ELSE model_callers[c]]
      /\ model_callers = [c \in ModelCallers |-> [at |-> model_callers[c].at, asked |-> model_callers[c].asked,
                                       given |-> model_callers[c].given]]
      /\ \A c \in ModelCallers : model_callers[c].asked \in 0..delivered
  BY DEF Model!ReadFails, Model!Shapes
<1>4. ASSUME NEW c \in ModelCallers
      PROVE  /\ model_callers'[c] = [at |-> model_callers'[c].at, asked |-> model_callers'[c].asked, given |-> model_callers'[c].given]
             /\ model_callers'[c].asked = model_callers[c].asked
  <2>1. model_callers[c] = [at |-> model_callers[c].at, asked |-> model_callers[c].asked, given |-> model_callers[c].given]
    BY <1>3
  <2>2. model_callers'[c] = IF model_callers[c].at = "waiting" THEN [model_callers[c] EXCEPT !.at = "failed"] ELSE model_callers[c]
    BY <1>3
  <2> QED
    BY <2>1, <2>2
<1>5. model_callers' = [c \in ModelCallers |-> [at |-> model_callers'[c].at, asked |-> model_callers'[c].asked,
                                     given |-> model_callers'[c].given]]
  BY <1>3, <1>4
<1>6. model_failures' \in 0..ModelFailures
  BY <1>1, ModelAssumption DEF Model!Shapes
<1> QED
  BY <1>1, <1>2, <1>3, <1>4, <1>5, <1>6 DEF Model!Shapes, Model!AtMostOne

LEMMA ShapesCall ==
    ASSUME Model!Shapes, NEW c \in ModelCallers, Model!Call(c)
    PROVE  Model!Shapes'
<1>1. UNCHANGED <<windows, tabs, model_changes, channel, records, modelRevision, support, nextKey, named, reconciledGeneration,
                  keys, forceNewIds, eventGeneration, delivered, model_failures>>
  BY DEF Model!Call, Model!chrome, Model!knowledge
<1>2. ReadingShape(reading', eventGeneration) /\ queries' \subseteq {"windows", "tabs"}
  <2>1. ReadingShape(reading, eventGeneration) /\ queries \subseteq {"windows", "tabs"} /\ eventGeneration \in Nat
    BY DEF Model!Shapes, ReadingShape
  <2>2. Model!StartRead(eventGeneration) \/ UNCHANGED <<reading, queries>>
    BY DEF Model!Call
  <2> QED
    BY <2>1, <2>2, FreshShape
<1>3. /\ model_callers = [d \in ModelCallers |-> [at |-> model_callers[d].at, asked |-> model_callers[d].asked,
                                       given |-> model_callers[d].given]]
      /\ \A d \in ModelCallers : model_callers[d].asked \in 0..delivered
      /\ delivered \in Nat
  BY ChannelFacts DEF Model!Shapes
<1>4. PICK at \in {"done", "waiting"}, given \in {records, {}} :
         model_callers' = [model_callers EXCEPT ![c] = [at |-> at, asked |-> delivered, given |-> given]]
  BY DEF Model!Call
<1>5. \A d \in ModelCallers : model_callers'[d] = IF d = c THEN [at |-> at, asked |-> delivered, given |-> given]
                                       ELSE model_callers[d]
  BY <1>3, <1>4
<1>6. ASSUME NEW d \in ModelCallers
      PROVE  /\ model_callers'[d] = [at |-> model_callers'[d].at, asked |-> model_callers'[d].asked, given |-> model_callers'[d].given]
             /\ model_callers'[d].asked \in 0..delivered
  <2>1. model_callers[d] = [at |-> model_callers[d].at, asked |-> model_callers[d].asked, given |-> model_callers[d].given]
    BY <1>3
  <2>2. CASE d = c
    BY <1>3, <1>5, <2>2
  <2>3. CASE d # c
    <3>1. model_callers'[d] = model_callers[d]
      BY <1>5, <2>3
    <3> QED
      BY <1>3, <2>1, <3>1
  <2> QED
    BY <2>2, <2>3
<1>7. model_callers' = [d \in ModelCallers |-> [at |-> model_callers'[d].at, asked |-> model_callers'[d].asked,
                                     given |-> model_callers'[d].given]]
  <2>1. model_callers' = [d \in ModelCallers |-> model_callers'[d]]
    BY <1>3, <1>4
  <2> QED
    BY <1>6, <2>1
<1> QED
  BY <1>1, <1>2, <1>6, <1>7 DEF Model!Shapes, ReadingShape, Model!AtMostOne

-----------------------------------------------------------------------------
(* Keys *)

LEMMA FiniteIds == IsFiniteSet(Model!Ids)
<1>1. IsFiniteSet(WindowIds) /\ IsFiniteSet(TabIds)
  BY ModelAssumption
<1> QED
  BY <1>1, FS_Union DEF Model!Ids

\* A finite set can be numbered.
LEMMA Numbering ==
    ASSUME NEW S, IsFiniteSet(S)
    PROVE  /\ Cardinality(S) \in Nat
           /\ \E f \in [S -> 1..Cardinality(S)] : \A a, b \in S : f[a] = f[b] => a = b
<1>1. Cardinality(S) \in Nat /\ ExistsBijection(1..Cardinality(S), S)
  BY FS_CardinalityType
<1>2. ExistsBijection(S, 1..Cardinality(S))
  BY <1>1, Fun_ExistsBijSymmetric
<1>3. PICK f : f \in Bijection(S, 1..Cardinality(S))
  BY <1>2, Fun_ExistsBij
<1>4. f \in [S -> 1..Cardinality(S)] /\ \A a, b \in S : f[a] = f[b] => a = b
  BY <1>3, Fun_BijectionProperties
<1> QED
  BY <1>1, <1>4

\* The ids that are given a new key.
New(ids) == {id \in ids : Model!Kept(ids)[id] = {}}

\* Of the ids that are there, each keeps its key or gets a new one of its own.
LEMMA KeyedFacts ==
    ASSUME Model!Shapes, NEW ids \in SUBSET Model!Ids
    PROVE  /\ Model!Keyed(ids) \in [Model!Ids -> SUBSET Nat]
           /\ Cardinality(New(ids)) \in Nat
           /\ \A id \in Model!Ids : id \notin ids => Model!Keyed(ids)[id] = {}
           /\ \A id \in ids : id \notin New(ids) =>
                  Model!Keyed(ids)[id] = keys[id] /\ keys[id] # {} /\ id \notin forceNewIds
           /\ \A id \in New(ids) :
                  /\ id \in ids /\ (keys[id] = {} \/ id \in forceNewIds)
                  /\ \E k \in Nat : Model!Keyed(ids)[id] = {k} /\ k >= nextKey /\ k < nextKey + Cardinality(New(ids))
           /\ \A a, b \in New(ids) : Model!Keyed(ids)[a] = Model!Keyed(ids)[b] => a = b
<1>1. New(ids) \subseteq Model!Ids /\ New(ids) \subseteq ids
  BY DEF New
<1>2. IsFiniteSet(New(ids))
  BY <1>1, FiniteIds, FS_Subset
<1> DEFINE n == Model!Cardinality(New(ids))
           order == CHOOSE f \in [New(ids) -> 1..n] : \A a, b \in New(ids) : f[a] = f[b] => a = b
<1>3. n \in Nat /\ order \in [New(ids) -> 1..n] /\ \A a, b \in New(ids) : order[a] = order[b] => a = b
  BY <1>2, Numbering, ModelCardinality
<1>4. Model!Keyed(ids) = [id \in Model!Ids |-> IF id \in New(ids) THEN {nextKey + order[id] - 1} ELSE Model!Kept(ids)[id]]
  BY DEF Model!Keyed, New
<1> HIDE DEF n, order
<1>5. nextKey \in Nat /\ keys \in [Model!Ids -> SUBSET Nat]
  BY DEF Model!Shapes
<1>6. \A id \in Model!Ids : Model!Kept(ids)[id] = IF id \in ids \ forceNewIds THEN keys[id] ELSE {}
  BY DEF Model!Kept
<1>7. \A id \in New(ids) : /\ order[id] \in 1..n /\ nextKey + order[id] - 1 \in Nat
                           /\ nextKey + order[id] - 1 >= nextKey /\ nextKey + order[id] - 1 < nextKey + n
                           /\ Model!Keyed(ids)[id] = {nextKey + order[id] - 1}
  BY <1>1, <1>3, <1>4, <1>5
<1>8. \A id \in Model!Ids : id \notin New(ids) => Model!Keyed(ids)[id] = Model!Kept(ids)[id]
  BY <1>4
<1>9. Model!Keyed(ids) \in [Model!Ids -> SUBSET Nat]
  <2>1. \A id \in Model!Ids : Model!Keyed(ids)[id] \in SUBSET Nat
    BY <1>5, <1>6, <1>7, <1>8
  <2>2. Model!Keyed(ids) = [id \in Model!Ids |-> Model!Keyed(ids)[id]]
    BY <1>4
  <2> HIDE DEF Model!Keyed
  <2> QED
    BY <2>1, <2>2
<1>10. \A id \in Model!Ids : id \notin ids => Model!Keyed(ids)[id] = {}
  BY <1>1, <1>6, <1>8
<1>11. \A id \in ids : id \notin New(ids) =>
          Model!Keyed(ids)[id] = keys[id] /\ keys[id] # {} /\ id \notin forceNewIds
  BY <1>6, <1>8 DEF New
<1>12. \A id \in New(ids) : id \in ids /\ (keys[id] = {} \/ id \in forceNewIds)
  BY <1>6 DEF New
<1>13. \A a, b \in New(ids) : Model!Keyed(ids)[a] = Model!Keyed(ids)[b] => a = b
  <2> SUFFICES ASSUME NEW a \in New(ids), NEW b \in New(ids), Model!Keyed(ids)[a] = Model!Keyed(ids)[b]
               PROVE  a = b
    OBVIOUS
  <2>1. nextKey + order[a] - 1 = nextKey + order[b] - 1
    BY <1>7
  <2>2. order[a] \in Int /\ order[b] \in Int
    BY <1>3, <1>7
  <2>3. order[a] = order[b]
    BY <1>5, <2>1, <2>2
  <2> QED
    BY <1>3, <2>3
<1> QED
  BY <1>3, <1>7, <1>9, <1>10, <1>11, <1>12, <1>13, ModelCardinality DEF n

-----------------------------------------------------------------------------
(* A reconciliation takes effect *)

Present(a, b) == {id \in WindowIds : a.value[id] # {}} \cup {id \in TabIds : b.value[id] # {}}
Content(a, b) == Model!Normalized(a.value, b.value, Model!Keyed(Present(a, b)))

\* What Apply makes of the two answers.
Applies(a, b) ==
    /\ Model!Read.windows = {a} /\ Model!Read.tabs = {b} /\ Model!Read.generation = eventGeneration
    /\ keys' = Model!Keyed(Present(a, b)) /\ forceNewIds' = forceNewIds \ Present(a, b)
    /\ nextKey' = nextKey + Cardinality({id \in Present(a, b) : Model!Keyed(Present(a, b))[id] # keys[id]})
    /\ modelRevision' = Model!NextRevision(Content(a, b))
    /\ records' = {[content |-> Content(a, b), windowsAt |-> a.at, tabsAt |-> b.at]}
    /\ support' = (support \/ (Frozen /\ Content(a, b).tabs # {}))
    /\ named' = named \cup {[id |-> o.id, since |-> o.since, key |-> o.key] :
                                o \in Content(a, b).windows \cup Content(a, b).tabs}
    /\ model_callers' = [c \in ModelCallers |-> IF model_callers[c].at = "waiting"
                                     THEN [model_callers[c] EXCEPT !.at = "done", !.given = records']
                                     ELSE model_callers[c]]
    /\ reconciledGeneration' = eventGeneration
    /\ reading' = {}
    /\ UNCHANGED <<windows, tabs, model_changes, channel, queries, eventGeneration, delivered, model_failures>>

LEMMA ApplyFacts ==
    ASSUME Model!Shapes, Model!Apply
    PROVE  \E a \in Model!WindowAnswers, b \in Model!TabAnswers : Applies(a, b)
<1>1. reading # {} /\ Model!Read.windows # {} /\ Model!Read.tabs # {} /\ Model!Read.generation = eventGeneration
  BY DEF Model!Apply, Model!UpToDate, Model!AllRead
<1>2. Model!Read \in reading /\ Model!Read \in Model!Readings
  BY <1>1, TheReading
<1> DEFINE a == CHOOSE x \in Model!Read.windows : TRUE
           b == CHOOSE x \in Model!Read.tabs : TRUE
<1>3. a \in Model!Read.windows /\ b \in Model!Read.tabs
  BY <1>1
<1>4. Model!Read.windows = {a} /\ Model!Read.tabs = {b}
  BY <1>2, <1>3 DEF Model!Shapes, Model!AtMostOne
<1>5. a \in Model!WindowAnswers /\ b \in Model!TabAnswers
  BY <1>2, <1>3 DEF Model!Readings
<1>6. Applies(a, b)
  <2> DEFINE source == [windows |-> a, tabs |-> b]
  <2>1. source.windows = a /\ source.tabs = b
    OBVIOUS
  <2>2. /\ keys' = Model!Keyed(Present(source.windows, source.tabs))
        /\ forceNewIds' = forceNewIds \ Present(source.windows, source.tabs)
        /\ nextKey' = nextKey + Cardinality({id \in Present(source.windows, source.tabs) :
                                                Model!Keyed(Present(source.windows, source.tabs))[id] # keys[id]})
        /\ modelRevision' = Model!NextRevision(Content(source.windows, source.tabs))
        /\ records' = {[content |-> Content(source.windows, source.tabs),
                        windowsAt |-> source.windows.at, tabsAt |-> source.tabs.at]}
        /\ support' = (support \/ (Frozen /\ Content(source.windows, source.tabs).tabs # {}))
        /\ named' = named \cup {[id |-> o.id, since |-> o.since, key |-> o.key] :
                                    o \in Content(source.windows, source.tabs).windows
                                          \cup Content(source.windows, source.tabs).tabs}
        /\ model_callers' = [c \in ModelCallers |-> IF model_callers[c].at = "waiting"
                                         THEN [model_callers[c] EXCEPT !.at = "done", !.given = records']
                                         ELSE model_callers[c]]
    BY ModelCardinality DEF Model!Apply, Present, Content
  <2>3. /\ reconciledGeneration' = Model!Read.generation
        /\ reading' = {}
        /\ UNCHANGED <<windows, tabs, model_changes, channel, queries, eventGeneration, delivered, model_failures>>
    BY DEF Model!Apply, Model!chrome
  <2> HIDE DEF a, b
  <2> QED
    BY <1>1, <1>4, <2>1, <2>2, <2>3 DEF Applies
<1> QED
  BY <1>5, <1>6

LEMMA PresentFacts ==
    ASSUME NEW a \in Model!WindowAnswers, NEW b \in Model!TabAnswers
    PROVE  /\ Present(a, b) \in SUBSET Model!Ids
           /\ \A id \in WindowIds : /\ id \in Present(a, b) <=> Model!LifeIn(a, id) # {}
                                    /\ Model!Tells(a, id) /\ Model!LifeIn(a, id) = a.value[id]
           /\ \A id \in TabIds : /\ id \in Present(a, b) <=> Model!LifeIn(b, id) # {}
                                 /\ Model!Tells(b, id) /\ Model!LifeIn(b, id) = {tab.since : tab \in b.value[id]}
<1>1. Present(a, b) \in SUBSET Model!Ids
  BY DEF Present, Model!Ids
<1>2. a.type = "windows" /\ b.type = "tabs"
  BY DEF Model!WindowAnswers, Model!TabAnswers
<1>3. \A id \in WindowIds : Model!LifeIn(a, id) = a.value[id] /\ Model!Tells(a, id)
  BY <1>2 DEF Model!LifeIn, Model!Tells
<1>4. \A id \in TabIds : Model!LifeIn(b, id) = {tab.since : tab \in b.value[id]} /\ Model!Tells(b, id)
  BY <1>2, IdFacts DEF Model!LifeIn, Model!Tells
<1>5. \A id \in WindowIds : id \in Present(a, b) <=> Model!LifeIn(a, id) # {}
  BY <1>3, IdFacts DEF Present
<1>6. \A id \in TabIds : id \in Present(a, b) <=> Model!LifeIn(b, id) # {}
  BY <1>4, IdFacts DEF Present
<1> QED
  BY <1>1, <1>3, <1>4, <1>5, <1>6

\* What a reconciliation gives names to: the windows and tabs that are there, each
\* with its life and its key.
Named(a, b, id) ==
    [id |-> id, since |-> IF id \in WindowIds THEN Model!LifeIn(a, id) ELSE Model!LifeIn(b, id),
     key |-> Model!Keyed(Present(a, b))[id]]

LEMMA NamedFacts ==
    ASSUME NEW a \in Model!WindowAnswers, NEW b \in Model!TabAnswers,
           \A t \in TabIds : Model!AtMostOne(Model!LifeIn(b, t))
    PROVE  {[id |-> o.id, since |-> o.since, key |-> o.key] : o \in Content(a, b).windows \cup Content(a, b).tabs}
           = {Named(a, b, id) : id \in Present(a, b)}
<1> DEFINE keyed == Model!Keyed(Present(a, b))
           WindowNow(w) == [key |-> keyed[w], id |-> w, since |-> a.value[w]]
           TabNow(t, tab) == [key |-> keyed[t], id |-> t, since |-> {tab.since}, windowKey |-> keyed[tab.window]]
           Triple(o) == [id |-> o.id, since |-> o.since, key |-> o.key]
<1>1. /\ Content(a, b).windows = {WindowNow(w) : w \in {x \in WindowIds : a.value[x] # {}}}
      /\ Content(a, b).tabs = UNION {{TabNow(t, tab) : tab \in b.value[t]} : t \in TabIds}
  BY DEF Content, Model!Normalized
<1>2. \A w \in WindowIds : Triple(WindowNow(w)) = Named(a, b, w)
  BY PresentFacts DEF Named
<1>3. \A t \in TabIds : \A tab \in b.value[t] : Triple(TabNow(t, tab)) = Named(a, b, t)
  <2> SUFFICES ASSUME NEW t \in TabIds, NEW tab \in b.value[t]
               PROVE  Triple(TabNow(t, tab)) = Named(a, b, t)
    OBVIOUS
  <2>1. Model!LifeIn(b, t) = {x.since : x \in b.value[t]} /\ Model!AtMostOne(Model!LifeIn(b, t))
    BY PresentFacts
  <2>2. Model!LifeIn(b, t) = {tab.since}
    BY <2>1 DEF Model!AtMostOne
  <2> QED
    BY <2>2, IdFacts DEF Named
<1>4. \A id \in Model!Ids : id \in Present(a, b) <=>
         \/ id \in WindowIds /\ a.value[id] # {}
         \/ id \in TabIds /\ b.value[id] # {}
  BY DEF Present
<1>5. Present(a, b) \subseteq Model!Ids
  BY PresentFacts
<1> HIDE DEF keyed, WindowNow, TabNow
<1>6. \A o \in Content(a, b).windows \cup Content(a, b).tabs : \E id \in Present(a, b) : Triple(o) = Named(a, b, id)
  <2>1. ASSUME NEW o \in Content(a, b).windows
        PROVE  \E id \in Present(a, b) : Triple(o) = Named(a, b, id)
    <3>1. PICK w \in WindowIds : a.value[w] # {} /\ o = WindowNow(w)
      BY <1>1, <2>1
    <3> QED
      BY <1>2, <1>4, <3>1, IdFacts
  <2>2. ASSUME NEW o \in Content(a, b).tabs
        PROVE  \E id \in Present(a, b) : Triple(o) = Named(a, b, id)
    <3>1. PICK t \in TabIds : \E tab \in b.value[t] : o = TabNow(t, tab)
      BY <1>1, <2>2
    <3> QED
      BY <1>3, <1>4, <3>1, IdFacts
  <2> QED
    BY <2>1, <2>2
<1>7. \A id \in Present(a, b) : \E o \in Content(a, b).windows \cup Content(a, b).tabs : Triple(o) = Named(a, b, id)
  <2> SUFFICES ASSUME NEW id \in Present(a, b)
               PROVE  \E o \in Content(a, b).windows \cup Content(a, b).tabs : Triple(o) = Named(a, b, id)
    OBVIOUS
  <2>1. CASE id \in WindowIds /\ a.value[id] # {}
    <3>1. WindowNow(id) \in Content(a, b).windows
      BY <1>1, <2>1
    <3> QED
      BY <1>2, <2>1, <3>1
  <2>2. CASE id \in TabIds /\ b.value[id] # {}
    <3>1. PICK tab \in b.value[id] : TRUE
      BY <2>2
    <3>2. TabNow(id, tab) \in Content(a, b).tabs
      BY <1>1, <2>2, <3>1
    <3> QED
      BY <1>3, <2>2, <3>1, <3>2
  <2> QED
    BY <1>4, <1>5, <2>1, <2>2
<1> HIDE DEF Triple
<1>8. {Triple(o) : o \in Content(a, b).windows \cup Content(a, b).tabs} = {Named(a, b, id) : id \in Present(a, b)}
  BY <1>6, <1>7
<1> QED
  BY <1>8 DEF Triple

-----------------------------------------------------------------------------
(* The answers of a reconciliation *)

LEMMA AnswersAre ==
    /\ \A a : a \in Model!Current <=> \E read \in reading : read.generation = eventGeneration
                                                     /\ (a \in read.windows \/ a \in read.tabs)
    /\ \A a : a \in Model!WindowsAnswers <=> \/ \E i \in DOMAIN channel : channel[i].type = "windows" /\ a = channel[i]
                                             \/ \E read \in reading : a \in read.windows
    /\ \A a : a \in Model!TabsAnswers <=> \/ \E i \in DOMAIN channel : channel[i].type = "tabs" /\ a = channel[i]
                                          \/ \E read \in reading : a \in read.tabs
<1>1. \A a : a \in Model!Current <=> \E read \in reading : read.generation = eventGeneration
                                                     /\ (a \in read.windows \/ a \in read.tabs)
  BY DEF Model!Current
<1>2. \A a : a \in Model!WindowsAnswers <=> \/ \E i \in DOMAIN channel : channel[i].type = "windows" /\ a = channel[i]
                                            \/ \E read \in reading : a \in read.windows
  BY DEF Model!WindowsAnswers
<1>3. \A a : a \in Model!TabsAnswers <=> \/ \E i \in DOMAIN channel : channel[i].type = "tabs" /\ a = channel[i]
                                         \/ \E read \in reading : a \in read.tabs
  BY DEF Model!TabsAnswers
<1> QED
  BY <1>1, <1>2, <1>3

LEMMA AnswersAreNext ==
    /\ \A a : a \in Model!Current' <=> \E read \in reading' : read.generation = eventGeneration'
                                                     /\ (a \in read.windows \/ a \in read.tabs)
    /\ \A a : a \in Model!WindowsAnswers' <=> \/ \E i \in DOMAIN channel' : channel'[i].type = "windows" /\ a = channel'[i]
                                              \/ \E read \in reading' : a \in read.windows
    /\ \A a : a \in Model!TabsAnswers' <=> \/ \E i \in DOMAIN channel' : channel'[i].type = "tabs" /\ a = channel'[i]
                                           \/ \E read \in reading' : a \in read.tabs
<1>1. \A a : a \in Model!Current' <=> \E read \in reading' : read.generation = eventGeneration'
                                                     /\ (a \in read.windows \/ a \in read.tabs)
  BY DEF Model!Current
<1>2. \A a : a \in Model!WindowsAnswers' <=> \/ \E i \in DOMAIN channel' : channel'[i].type = "windows" /\ a = channel'[i]
                                             \/ \E read \in reading' : a \in read.windows
  BY DEF Model!WindowsAnswers
<1>3. \A a : a \in Model!TabsAnswers' <=> \/ \E i \in DOMAIN channel' : channel'[i].type = "tabs" /\ a = channel'[i]
                                          \/ \E read \in reading' : a \in read.tabs
  BY DEF Model!TabsAnswers
<1> QED
  BY <1>1, <1>2, <1>3

\* No query's answer is under way.
NoAnswers == queries = {} /\ \A i \in DOMAIN channel : ~Model!IsAnswer(i)

LEMMA AllAnswered ==
    ASSUME Model!Shapes, Model!OneAnswerEach, reading = {} \/ Model!AllRead
    PROVE  NoAnswers
<1>1. CASE reading = {}
  BY <1>1 DEF Model!OneAnswerEach, NoAnswers
<1>2. CASE Model!AllRead
  <2>1. Model!Read \in reading /\ Model!Read.windows # {} /\ Model!Read.tabs # {}
    BY <1>2, TheReading DEF Model!AllRead
  <2>2. queries \subseteq {"windows", "tabs"}
    BY DEF Model!Shapes
  <2> QED
    BY <2>1, <2>2 DEF Model!OneAnswerEach, NoAnswers, Model!IsAnswer
<1> QED
  BY <1>1, <1>2

\* What leaves Chrome and the events alone, and adds no answer.
Quiet ==
    /\ UNCHANGED <<windows, tabs, model_changes, eventGeneration, delivered>>
    /\ DOMAIN channel' = DOMAIN channel
    /\ \A i \in DOMAIN channel : /\ Model!IsEvent(i)' <=> Model!IsEvent(i)
                                 /\ Model!IsAnswer(i)' => Model!IsAnswer(i)
                                 /\ Model!IsEvent(i) \/ Model!IsAnswer(i)' => channel'[i] = channel[i]
    /\ Model!Current' \subseteq Model!Current
    /\ Model!WindowsAnswers' \subseteq Model!WindowsAnswers /\ Model!TabsAnswers' \subseteq Model!TabsAnswers

\* A reading that is new has no answers; one that drained has those it had.
LEMMA QuietReading ==
    ASSUME Model!Shapes,
           UNCHANGED <<windows, tabs, model_changes, channel, eventGeneration, delivered>>,
           \A read \in reading' : \/ read.windows = {} /\ read.tabs = {}
                                  \/ \E was \in reading : /\ read.windows = was.windows /\ read.tabs = was.tabs
                                                          /\ read.generation = was.generation
    PROVE  Quiet
<1>1. Model!Current' \subseteq Model!Current
  BY AnswersAre, AnswersAreNext
<1>2. Model!WindowsAnswers' \subseteq Model!WindowsAnswers
  BY AnswersAre, AnswersAreNext
<1>3. Model!TabsAnswers' \subseteq Model!TabsAnswers
  BY AnswersAre, AnswersAreNext
<1> QED
  BY <1>1, <1>2, <1>3 DEF Quiet, Model!IsEvent, Model!IsAnswer

LEMMA QuietDrain ==
    ASSUME Model!Shapes, Model!Drain
    PROVE  Quiet
<1>1. reading # {} /\ reading' = {[Model!Read EXCEPT !.drained = TRUE]}
      /\ UNCHANGED <<windows, tabs, model_changes, channel, eventGeneration, delivered>>
  BY DEF Model!Drain, Model!AllRead, Model!chrome
<1>2. Model!Read \in reading /\ Model!Read \in Model!Readings
  BY <1>1, TheReading
<1>3. /\ [Model!Read EXCEPT !.drained = TRUE].windows = Model!Read.windows
      /\ [Model!Read EXCEPT !.drained = TRUE].tabs = Model!Read.tabs
      /\ [Model!Read EXCEPT !.drained = TRUE].generation = Model!Read.generation
  BY <1>2 DEF Model!Readings
<1> QED
  BY <1>1, <1>2, <1>3, QuietReading

LEMMA QuietReadAgain ==
    ASSUME Model!Shapes, Model!ReadAgain
    PROVE  Quiet
<1>1. UNCHANGED <<windows, tabs, model_changes, channel, eventGeneration, delivered>>
  BY DEF Model!ReadAgain, Model!chrome
<1>2. \A read \in reading' : read.windows = {} /\ read.tabs = {}
  BY DEF Model!ReadAgain, Model!StartRead
<1> QED
  BY <1>1, <1>2, QuietReading

LEMMA QuietApply ==
    ASSUME Model!Shapes, Model!Apply
    PROVE  Quiet
<1>1. UNCHANGED <<windows, tabs, model_changes, channel, eventGeneration, delivered>> /\ reading' = {}
  BY DEF Model!Apply, Model!chrome
<1> QED
  BY <1>1, QuietReading

LEMMA QuietCall ==
    ASSUME Model!Shapes, NEW c \in ModelCallers, Model!Call(c)
    PROVE  Quiet
<1>1. UNCHANGED <<windows, tabs, model_changes, channel, eventGeneration, delivered>>
  BY DEF Model!Call, Model!chrome
<1>2. \/ reading' = reading
      \/ \A read \in reading' : read.windows = {} /\ read.tabs = {}
  BY DEF Model!Call, Model!StartRead
<1> QED
  BY <1>1, <1>2, QuietReading

LEMMA QuietReadFails ==
    ASSUME Model!Shapes, Model!ReadFails
    PROVE  Quiet
<1>1. UNCHANGED <<windows, tabs, model_changes, eventGeneration, delivered>> /\ reading' = {}
  BY DEF Model!ReadFails, Model!chrome
<1>2. /\ DOMAIN channel' = DOMAIN channel
      /\ \A i \in DOMAIN channel :
            /\ Model!IsAnswer(i) => channel'[i].type = "late"
            /\ ~Model!IsAnswer(i) => channel'[i] = channel[i]
  BY LateFacts
<1>3. \A i \in DOMAIN channel : /\ ~Model!IsAnswer(i)'
                                /\ Model!IsEvent(i)' <=> Model!IsEvent(i)
                                /\ Model!IsEvent(i) => channel'[i] = channel[i]
  BY <1>2 DEF Model!IsAnswer, Model!IsEvent
<1>4. /\ Model!Current' = {}
      /\ \A i \in DOMAIN channel' : channel'[i].type \notin {"windows", "tabs"}
  BY <1>1, <1>2, <1>3, AnswersAreNext DEF Model!IsAnswer
<1>5. Model!WindowsAnswers' = {} /\ Model!TabsAnswers' = {}
  BY <1>1, <1>4, AnswersAreNext
<1> QED
  BY <1>1, <1>2, <1>3, <1>4, <1>5 DEF Quiet

\* Such a step leaves what is said of Chrome and its messages true.
LEMMA QuietInOrder ==
    ASSUME Model!Shapes, Model!ChannelInOrder, Quiet
    PROVE  Model!ChannelInOrder'
<1>1. /\ DOMAIN channel' = DOMAIN channel
      /\ \A i \in DOMAIN channel : /\ Model!IsEvent(i)' <=> Model!IsEvent(i)
                                   /\ Model!IsAnswer(i)' => Model!IsAnswer(i)
                                   /\ Model!IsEvent(i) \/ Model!IsAnswer(i)' => channel'[i] = channel[i]
      /\ model_changes' = model_changes /\ delivered' = delivered
  BY DEF Quiet
<1>2. \A n \in delivered + 1..model_changes : \E i \in DOMAIN channel : Model!IsEvent(i) /\ channel[i].at = n
  BY DEF Model!ChannelInOrder
<1>3. \A n \in delivered' + 1..model_changes' : \E i \in DOMAIN channel' : Model!IsEvent(i)' /\ channel'[i].at = n
  BY <1>1, <1>2
<1>4. \A i \in DOMAIN channel' :
           /\ Model!IsEvent(i)' \/ Model!IsAnswer(i)' => channel'[i].at \in delivered'..model_changes'
           /\ Model!IsEvent(i)' /\ channel'[i].type # "dirty" => channel'[i].at > delivered'
  BY <1>1 DEF Model!ChannelInOrder
<1>5. \A i, j \in DOMAIN channel' : i < j =>
           /\ Model!IsEvent(i)' /\ (Model!IsEvent(j)' \/ Model!IsAnswer(j)') => channel'[i].at <= channel'[j].at
           /\ Model!IsEvent(i)' /\ Model!IsEvent(j)' /\ channel'[j].type # "dirty" => channel'[i].at < channel'[j].at
           /\ Model!IsAnswer(i)' /\ Model!IsEvent(j)' => channel'[i].at < channel'[j].at
  BY <1>1 DEF Model!ChannelInOrder
<1> QED
  BY <1>3, <1>4, <1>5 DEF Model!ChannelInOrder

LEMMA QuietFits ==
    ASSUME Model!Shapes, Model!ChromeFits, Quiet
    PROVE  Model!ChromeFits'
<1>1. /\ UNCHANGED <<windows, tabs, model_changes, delivered>>
      /\ Model!Current' \subseteq Model!Current
      /\ Model!WindowsAnswers' \subseteq Model!WindowsAnswers /\ Model!TabsAnswers' \subseteq Model!TabsAnswers
  BY DEF Quiet
<1>2. \A id \in Model!Ids : Model!Life(id)' = Model!Life(id)
  BY <1>1 DEF Model!Life
<1> QED
  BY <1>1, <1>2 DEF Model!ChromeFits

LEMMA QuietTells ==
    ASSUME Model!Shapes, Model!EventsTell, Quiet
    PROVE  Model!EventsTell'
<1>1. /\ DOMAIN channel' = DOMAIN channel
      /\ \A i \in DOMAIN channel : /\ Model!IsEvent(i)' <=> Model!IsEvent(i)
                                   /\ Model!IsAnswer(i)' => Model!IsAnswer(i)
                                   /\ Model!IsEvent(i) \/ Model!IsAnswer(i)' => channel'[i] = channel[i]
      /\ Model!Current' \subseteq Model!Current
  BY DEF Quiet
<1>2. \A id \in Model!Ids : Model!Life(id)' = Model!Life(id)
  BY DEF Model!Life, Quiet
<1>3. \A id \in Model!Ids, j \in DOMAIN channel : /\ Model!Resets(channel'[j], id) <=> Model!Resets(channel[j], id)
                                                  /\ Model!Resets(channel[j], id) => channel'[j] = channel[j]
  BY <1>1 DEF Model!Resets, Model!IsEvent
<1> QED
  BY <1>1, <1>2, <1>3 DEF Model!EventsTell

LEMMA QuietKeys ==
    ASSUME Model!Shapes, Model!KeysAreRight, Model!GoneForGood, Quiet, UNCHANGED <<keys, forceNewIds, nextKey, named>>
    PROVE  Model!KeysAreRight' /\ Model!GoneForGood'
<1>1. /\ DOMAIN channel' = DOMAIN channel
      /\ \A i \in DOMAIN channel : /\ Model!IsEvent(i)' <=> Model!IsEvent(i)
                                   /\ Model!IsAnswer(i)' => Model!IsAnswer(i)
                                   /\ Model!IsEvent(i) \/ Model!IsAnswer(i)' => channel'[i] = channel[i]
      /\ Model!Current' \subseteq Model!Current /\ delivered' = delivered
  BY DEF Quiet
<1>2. \A id : Model!Life(id)' = Model!Life(id)
  BY DEF Model!Life, Quiet
<1>3. \A j \in DOMAIN channel : \A id : Model!Resets(channel'[j], id) <=> Model!Resets(channel[j], id)
  BY <1>1 DEF Model!Resets, Model!IsEvent
<1>4. Model!KeysAreRight'
  BY <1>1, <1>2, <1>3 DEF Model!KeysAreRight
<1>5. Model!GoneForGood'
  BY <1>1, <1>2 DEF Model!GoneForGood
<1> QED
  BY <1>4, <1>5

-----------------------------------------------------------------------------
(* Chrome's changes and answers enter the channel; the extension takes them out *)

\* Chrome's events behind the messages there are.
LEMMA ChangeFacts ==
    ASSUME Model!Shapes, NEW events \in Seq(Model!Events), ChromeChanges(events)
    PROVE  /\ Len(channel) \in Nat /\ DOMAIN channel = 1..Len(channel)
           /\ Len(events) \in Nat /\ Len(events) > 0
           /\ DOMAIN channel' = 1..(Len(channel) + Len(events))
           /\ \A i \in DOMAIN channel : /\ i \in DOMAIN channel' /\ channel'[i] = channel[i]
                                        /\ Model!IsEvent(i)' <=> Model!IsEvent(i)
                                        /\ Model!IsAnswer(i)' <=> Model!IsAnswer(i)
           /\ \A i \in DOMAIN channel' : i \notin DOMAIN channel =>
                  /\ i > Len(channel) /\ Model!IsEvent(i)' /\ ~Model!IsAnswer(i)'
                  /\ channel'[i].at = model_changes + 1
                  /\ i - Len(channel) \in DOMAIN events /\ channel'[i] = events[i - Len(channel)]
                  /\ channel'[i].type # "dirty" => Len(events) = 1
           /\ \A i \in DOMAIN events : Len(channel) + i \in DOMAIN channel' /\ channel'[Len(channel) + i] = events[i]
           /\ model_changes' = model_changes + 1 /\ Model!Current' = Model!Current
           /\ Model!WindowsAnswers' = Model!WindowsAnswers /\ Model!TabsAnswers' = Model!TabsAnswers
<1>1. /\ channel \in Seq(Model!Messages) /\ Len(channel) \in Nat /\ DOMAIN channel = 1..Len(channel)
  BY ChannelFacts
<1>2. events \in Seq(Model!Messages) /\ events # <<>> /\ \A i \in DOMAIN events : events[i] \in Model!Events
  BY DEF ChromeChanges, Model!Messages
<1>3. channel' = channel \o events /\ model_changes' = model_changes + 1
      /\ reading' = reading /\ eventGeneration' = eventGeneration
      /\ \A i \in DOMAIN events : /\ events[i].at = model_changes + 1
                                  /\ events[i].type # "dirty" => Len(events) = 1
  BY DEF ChromeChanges
<1>4. /\ Len(events) \in Nat /\ DOMAIN events = 1..Len(events)
      /\ DOMAIN (channel \o events) = 1..(Len(channel) + Len(events))
      /\ \A i \in 1..Len(channel) : (channel \o events)[i] = channel[i]
      /\ \A i \in 1..(Len(channel) + Len(events)) : i > Len(channel) =>
            i - Len(channel) \in 1..Len(events) /\ (channel \o events)[i] = events[i - Len(channel)]
  BY <1>1, <1>2, ConcatFacts
<1>5. Len(events) > 0
  BY <1>2, <1>4
<1>6. DOMAIN channel' = 1..(Len(channel) + Len(events))
  BY <1>3, <1>4
<1>7. \A i \in DOMAIN channel : i \in DOMAIN channel' /\ channel'[i] = channel[i]
  BY <1>1, <1>3, <1>4
<1>8. \A i \in DOMAIN channel : /\ Model!IsEvent(i)' <=> Model!IsEvent(i)
                                /\ Model!IsAnswer(i)' <=> Model!IsAnswer(i)
  BY <1>7 DEF Model!IsEvent, Model!IsAnswer
<1>9. ASSUME NEW i \in DOMAIN channel', i \notin DOMAIN channel
      PROVE  /\ i > Len(channel) /\ i - Len(channel) \in DOMAIN events /\ channel'[i] = events[i - Len(channel)]
  BY <1>1, <1>3, <1>4, <1>9
<1>10. ASSUME NEW i \in DOMAIN channel', i \notin DOMAIN channel
       PROVE  /\ Model!IsEvent(i)' /\ ~Model!IsAnswer(i)' /\ channel'[i].at = model_changes + 1
              /\ channel'[i].type # "dirty" => Len(events) = 1
              /\ channel'[i].type \notin {"windows", "tabs"}
  <2>1. channel'[i] \in Model!Events
    BY <1>2, <1>9, <1>10
  <2> QED
    BY <1>3, <1>9, <1>10, <2>1 DEF Model!IsEvent, Model!IsAnswer, Model!Events
<1>11. \A i \in DOMAIN events : Len(channel) + i \in DOMAIN channel' /\ channel'[Len(channel) + i] = events[i]
  <2> SUFFICES ASSUME NEW i \in DOMAIN events
               PROVE  Len(channel) + i \in DOMAIN channel' /\ channel'[Len(channel) + i] = events[i]
    OBVIOUS
  <2>1. Len(channel) + i \in 1..(Len(channel) + Len(events)) /\ Len(channel) + i > Len(channel)
        /\ (Len(channel) + i) - Len(channel) = i
    BY <1>1, <1>4
  <2> QED
    BY <1>3, <1>4, <2>1
<1>12. Model!Current' = Model!Current
  BY <1>3 DEF Model!Current
<1>13. Model!WindowsAnswers' = Model!WindowsAnswers
  <2>1. \A a : a \in Model!WindowsAnswers' <=> a \in Model!WindowsAnswers
    BY <1>3, <1>7, <1>10, AnswersAre, AnswersAreNext
  <2> QED
    BY <2>1
<1>14. Model!TabsAnswers' = Model!TabsAnswers
  <2>1. \A a : a \in Model!TabsAnswers' <=> a \in Model!TabsAnswers
    BY <1>3, <1>7, <1>10, AnswersAre, AnswersAreNext
  <2> QED
    BY <2>1
<1> QED
  BY <1>1, <1>3, <1>4, <1>5, <1>6, <1>7, <1>8, <1>9, <1>10, <1>11, <1>12, <1>13, <1>14

\* An answer behind the messages there are.
Answers(query) ==
    /\ query \in queries /\ query \in {"windows", "tabs"} /\ queries' = queries \ {query}
    /\ Len(channel) \in Nat /\ DOMAIN channel = 1..Len(channel)
    /\ DOMAIN channel' = 1..(Len(channel) + 1)
    /\ \A i \in DOMAIN channel : /\ i \in DOMAIN channel' /\ channel'[i] = channel[i]
                                 /\ Model!IsEvent(i)' <=> Model!IsEvent(i)
                                 /\ Model!IsAnswer(i)' <=> Model!IsAnswer(i)
    /\ channel'[Len(channel) + 1].type = query
    /\ channel'[Len(channel) + 1].at = model_changes
    /\ channel'[Len(channel) + 1].value = IF query = "windows" THEN windows ELSE tabs
    /\ \A i \in DOMAIN channel' : i \notin DOMAIN channel =>
           i = Len(channel) + 1 /\ i > Len(channel) /\ Model!IsAnswer(i)' /\ ~Model!IsEvent(i)'
    /\ Model!Current' = Model!Current
    /\ UNCHANGED <<windows, tabs, model_changes, keys, forceNewIds, eventGeneration, reading, Model!knowledge, model_callers,
                   delivered, model_failures>>

LEMMA AnswerFacts ==
    ASSUME Model!Shapes, Model!AnswerQuery
    PROVE  \E query \in queries : Answers(query)
<1>1. PICK query \in queries :
         /\ queries' = queries \ {query}
         /\ channel' = Append(channel, [type |-> query, at |-> model_changes,
                                        value |-> IF query = "windows" THEN windows ELSE tabs])
         /\ UNCHANGED <<Model!chrome, keys, forceNewIds, eventGeneration, reading, Model!knowledge, model_callers, delivered, model_failures>>
  BY DEF Model!AnswerQuery
<1> DEFINE answer == [type |-> query, at |-> model_changes, value |-> IF query = "windows" THEN windows ELSE tabs]
<1>2. query \in {"windows", "tabs"}
  BY DEF Model!Shapes
<1>3. answer.type = query /\ answer.at = model_changes /\ answer.value = IF query = "windows" THEN windows ELSE tabs
  OBVIOUS
<1>4. channel \in Seq(Model!Messages \cup {answer}) /\ answer \in Model!Messages \cup {answer}
  BY ChannelFacts
<1> HIDE DEF answer
<1>5. /\ Len(channel) \in Nat /\ DOMAIN channel = 1..Len(channel)
      /\ DOMAIN Append(channel, answer) = 1..(Len(channel) + 1)
      /\ Append(channel, answer)[Len(channel) + 1] = answer
      /\ \A i \in 1..Len(channel) : Append(channel, answer)[i] = channel[i]
  BY <1>4, AppendFacts
<1>6. channel' = Append(channel, answer)
  BY <1>1 DEF answer
<1>7. \A i \in DOMAIN channel : /\ i \in DOMAIN channel' /\ channel'[i] = channel[i]
                                /\ Model!IsEvent(i)' <=> Model!IsEvent(i)
                                /\ Model!IsAnswer(i)' <=> Model!IsAnswer(i)
  BY <1>5, <1>6 DEF Model!IsEvent, Model!IsAnswer
<1>8. /\ channel'[Len(channel) + 1] = answer
      /\ \A i \in DOMAIN channel' : i \notin DOMAIN channel =>
            i = Len(channel) + 1 /\ i > Len(channel) /\ Model!IsAnswer(i)' /\ ~Model!IsEvent(i)'
  <2>1. channel'[Len(channel) + 1] = answer /\ DOMAIN channel' = 1..(Len(channel) + 1)
    BY <1>5, <1>6
  <2>2. \A i \in DOMAIN channel' : i \notin DOMAIN channel => i = Len(channel) + 1 /\ i > Len(channel)
    BY <1>5, <2>1
  <2> QED
    BY <1>2, <1>3, <2>1, <2>2 DEF Model!IsEvent, Model!IsAnswer
<1>9. Model!Current' = Model!Current
  BY <1>1 DEF Model!Current
<1>10. Answers(query)
  BY <1>1, <1>2, <1>3, <1>5, <1>6, <1>7, <1>8, <1>9 DEF Answers, Model!chrome
<1> QED
  BY <1>10

\* The first message leaves the channel.
Takes ==
    /\ channel # <<>> /\ Head(channel) = channel[1] /\ 1 \in DOMAIN channel
    /\ Len(channel) \in Nat /\ DOMAIN channel = 1..Len(channel)
    /\ DOMAIN channel' = 1..(Len(channel) - 1)
    /\ \A i \in DOMAIN channel' : /\ i + 1 \in DOMAIN channel /\ i + 1 > 1 /\ channel'[i] = channel[i + 1]
                                  /\ Model!IsEvent(i)' <=> Model!IsEvent(i + 1)
                                  /\ Model!IsAnswer(i)' <=> Model!IsAnswer(i + 1)
    /\ \A i \in DOMAIN channel : i # 1 => i > 1 /\ i - 1 \in DOMAIN channel' /\ (i - 1) + 1 = i

LEMMA TakesFacts ==
    ASSUME Model!Shapes, Model!HandleEvent \/ Model!HandleAnswer
    PROVE  Takes
<1>1. channel # <<>> /\ channel' = Tail(channel)
  BY DEF Model!HandleEvent, Model!HandleAnswer
<1>2. /\ Head(channel) = channel[1] /\ 1 \in DOMAIN channel /\ Len(channel) > 0
      /\ DOMAIN channel' = 1..(Len(channel) - 1)
      /\ \A i \in DOMAIN channel' : i + 1 \in DOMAIN channel /\ channel'[i] = channel[i + 1]
      /\ \A i \in DOMAIN channel : i # 1 => i - 1 \in DOMAIN channel'
  BY <1>1, HeadFacts
<1>3. Len(channel) \in Nat /\ DOMAIN channel = 1..Len(channel)
  BY ChannelFacts
<1>4. \A i \in DOMAIN channel' : /\ Model!IsEvent(i)' <=> Model!IsEvent(i + 1)
                                 /\ Model!IsAnswer(i)' <=> Model!IsAnswer(i + 1)
  BY <1>2 DEF Model!IsEvent, Model!IsAnswer
<1>5. \A i \in DOMAIN channel' : i + 1 > 1
  BY <1>2, <1>3
<1>6. \A i \in DOMAIN channel : i # 1 => i > 1 /\ (i - 1) + 1 = i
  BY <1>3
<1> QED
  BY <1>1, <1>2, <1>3, <1>4, <1>5, <1>6 DEF Takes

\* What a handler makes of the answers.
LEMMA HandlerAnswers ==
    ASSUME Model!Shapes, Model!HandleEvent \/ Model!HandleAnswer
    PROVE  /\ Model!HandleEvent => Model!Current' = {}
           /\ Model!HandleAnswer => \A a \in Model!Current' : a \in Model!Current \/ (a = channel[1] /\ Model!IsAnswer(1))
           /\ Model!WindowsAnswers' \subseteq Model!WindowsAnswers /\ Model!TabsAnswers' \subseteq Model!TabsAnswers
<1>1. Takes
  BY TakesFacts
<1>2. CASE Model!HandleEvent
  <2>1. \A read \in reading' : \/ read \in reading
                               \/ read.windows = {} /\ read.tabs = {}
    BY <1>2 DEF Model!HandleEvent, Model!StartRead
  <2>2. \A read \in reading : read.generation \in Nat /\ read.generation <= eventGeneration
    BY DEF Model!Shapes, Model!Readings
  <2>3. eventGeneration' = eventGeneration + 1 /\ eventGeneration \in Nat
    BY <1>2 DEF Model!HandleEvent, Model!Shapes
  <2>4. \A read \in reading' : read.generation = eventGeneration' => read.windows = {} /\ read.tabs = {}
    BY <2>1, <2>2, <2>3
  <2>5. Model!Current' = {}
    BY <2>4, AnswersAreNext
  <2>6. Model!WindowsAnswers' \subseteq Model!WindowsAnswers
    BY <1>1, <2>1, AnswersAre, AnswersAreNext DEF Takes
  <2>7. Model!TabsAnswers' \subseteq Model!TabsAnswers
    BY <1>1, <2>1, AnswersAre, AnswersAreNext DEF Takes
  <2>8. ~Model!HandleAnswer
    BY <1>2 DEF Model!HandleEvent, Model!HandleAnswer
  <2> QED
    BY <2>5, <2>6, <2>7, <2>8
<1>3. CASE Model!HandleAnswer
  <2>1. reading' = {Model!With(read, channel[1]) : read \in reading} /\ eventGeneration' = eventGeneration
        /\ channel[1].type \in {"windows", "tabs", "late"} /\ channel[1] \in Model!Messages
    BY <1>1, <1>3, ChannelFacts DEF Model!HandleAnswer, Takes
  <2>2. \A read \in reading :
           /\ Model!With(read, channel[1]).generation = read.generation
           /\ Model!With(read, channel[1]).windows = IF channel[1].type = "windows" THEN {channel[1]} ELSE read.windows
           /\ Model!With(read, channel[1]).tabs = IF channel[1].type = "tabs" THEN {channel[1]} ELSE read.tabs
    <3>1. \A read \in reading : read \in Model!Readings /\ Model!AtMostOne(read.windows) /\ Model!AtMostOne(read.tabs)
      BY DEF Model!Shapes
    <3> QED
      BY <2>1, <3>1, WithFacts
  <2>3. \A a \in Model!Current' : a \in Model!Current \/ (a = channel[1] /\ Model!IsAnswer(1))
    <3> SUFFICES ASSUME NEW a \in Model!Current'
                 PROVE  a \in Model!Current \/ (a = channel[1] /\ Model!IsAnswer(1))
      OBVIOUS
    <3>1. PICK read \in reading : /\ Model!With(read, channel[1]).generation = eventGeneration
                                  /\ a \in Model!With(read, channel[1]).windows \/ a \in Model!With(read, channel[1]).tabs
      BY <2>1, AnswersAreNext
    <3>2. \/ a \in read.windows \/ a \in read.tabs
          \/ a = channel[1] /\ channel[1].type \in {"windows", "tabs"}
      BY <2>2, <3>1
    <3> QED
      BY <2>2, <3>1, <3>2, AnswersAre DEF Model!IsAnswer
  <2>4. Model!WindowsAnswers' \subseteq Model!WindowsAnswers
    <3> SUFFICES ASSUME NEW a \in Model!WindowsAnswers'
                 PROVE  a \in Model!WindowsAnswers
      OBVIOUS
    <3>1. CASE \E i \in DOMAIN channel' : channel'[i].type = "windows" /\ a = channel'[i]
      BY <1>1, <3>1, AnswersAre DEF Takes
    <3>2. CASE \E read \in reading' : a \in read.windows
      <4>1. PICK read \in reading : a \in Model!With(read, channel[1]).windows
        BY <2>1, <3>2
      <4>2. a \in read.windows \/ (a = channel[1] /\ channel[1].type = "windows")
        BY <2>2, <4>1
      <4> QED
        BY <1>1, <4>2, AnswersAre DEF Takes
    <3> QED
      BY <3>1, <3>2, AnswersAreNext
  <2>5. Model!TabsAnswers' \subseteq Model!TabsAnswers
    <3> SUFFICES ASSUME NEW a \in Model!TabsAnswers'
                 PROVE  a \in Model!TabsAnswers
      OBVIOUS
    <3>1. CASE \E i \in DOMAIN channel' : channel'[i].type = "tabs" /\ a = channel'[i]
      BY <1>1, <3>1, AnswersAre DEF Takes
    <3>2. CASE \E read \in reading' : a \in read.tabs
      <4>1. PICK read \in reading : a \in Model!With(read, channel[1]).tabs
        BY <2>1, <3>2
      <4>2. a \in read.tabs \/ (a = channel[1] /\ channel[1].type = "tabs")
        BY <2>2, <4>1
      <4> QED
        BY <1>1, <4>2, AnswersAre DEF Takes
    <3> QED
      BY <3>1, <3>2, AnswersAreNext
  <2>6. ~Model!HandleEvent
    BY <1>3 DEF Model!HandleEvent, Model!HandleAnswer
  <2> QED
    BY <2>3, <2>4, <2>5, <2>6
<1> QED
  BY <1>2, <1>3

-----------------------------------------------------------------------------
(* One answer of each query *)

LEMMA OneChanges ==
    ASSUME Model!Shapes, Model!OneAnswerEach, NEW events \in Seq(Model!Events), ChromeChanges(events)
    PROVE  Model!OneAnswerEach'
<1>1. /\ \A i \in DOMAIN channel' : Model!IsAnswer(i)' => i \in DOMAIN channel /\ Model!IsAnswer(i) /\ channel'[i] = channel[i]
      /\ UNCHANGED <<queries, reading>>
  BY ChangeFacts DEF ChromeChanges
<1>2. \A i \in DOMAIN channel' : Model!IsAnswer(i)' <=> channel'[i].type \in {"windows", "tabs"}
  BY DEF Model!IsAnswer
<1>3. \A i \in DOMAIN channel : Model!IsAnswer(i) <=> channel[i].type \in {"windows", "tabs"}
  BY DEF Model!IsAnswer
<1> QED
  BY <1>1, <1>2, <1>3 DEF Model!OneAnswerEach

LEMMA OneAnswers ==
    ASSUME Model!Shapes, Model!OneAnswerEach, NEW query, Answers(query)
    PROVE  Model!OneAnswerEach'
<1>1. /\ query \in queries /\ query \in {"windows", "tabs"} /\ queries' = queries \ {query} /\ reading' = reading
      /\ \A i \in DOMAIN channel' : i \in DOMAIN channel \/ i = Len(channel) + 1
      /\ \A i \in DOMAIN channel : channel'[i] = channel[i]
      /\ channel'[Len(channel) + 1].type = query
  BY DEF Answers
<1>2. \A i \in DOMAIN channel : channel[i].type # query
  BY <1>1 DEF Model!OneAnswerEach, Model!IsAnswer
<1>3. \A i \in DOMAIN channel' : \/ i \in DOMAIN channel /\ channel'[i] = channel[i] /\ channel[i].type # query
                                 \/ i = Len(channel) + 1 /\ channel'[i].type = query
  BY <1>1, <1>2
<1>4. \A read \in reading : /\ query = "windows" => read.windows = {}
                            /\ query = "tabs" => read.tabs = {}
  BY <1>1 DEF Model!OneAnswerEach
<1>5. reading # {}
  BY <1>1 DEF Model!OneAnswerEach
<1>6. \A i, j \in DOMAIN channel' :
         Model!IsAnswer(i)' /\ channel'[i].type = channel'[j].type => i = j
  BY <1>3 DEF Model!OneAnswerEach, Model!IsAnswer
<1>7. \A i \in DOMAIN channel' : Model!IsAnswer(i)' => channel'[i].type \notin queries'
  BY <1>1, <1>3 DEF Model!OneAnswerEach, Model!IsAnswer
<1>8. \A read \in reading' :
           /\ read.windows # {} => "windows" \notin queries' /\ \A i \in DOMAIN channel' : channel'[i].type # "windows"
           /\ read.tabs # {} => "tabs" \notin queries' /\ \A i \in DOMAIN channel' : channel'[i].type # "tabs"
  BY <1>1, <1>3, <1>4 DEF Model!OneAnswerEach
<1> QED
  BY <1>1, <1>5, <1>6, <1>7, <1>8 DEF Model!OneAnswerEach

\* A reconciliation begins to read when no answer is under way.
LEMMA OneStarts ==
    ASSUME \A i \in DOMAIN channel' : ~Model!IsAnswer(i)', NEW generation, Model!StartRead(generation)
    PROVE  Model!OneAnswerEach'
<1>1. \A i \in DOMAIN channel' : channel'[i].type \notin {"windows", "tabs"}
  BY DEF Model!IsAnswer
<1>2. \A read \in reading' : read.windows = {} /\ read.tabs = {}
  BY DEF Model!StartRead
<1>3. reading' # {}
  BY DEF Model!StartRead
<1> QED
  BY <1>1, <1>2, <1>3 DEF Model!OneAnswerEach, Model!IsAnswer

LEMMA OneHandles ==
    ASSUME Model!Shapes, Model!OneAnswerEach, Model!HandleEvent \/ Model!HandleAnswer
    PROVE  Model!OneAnswerEach'
<1>1. Takes
  BY TakesFacts
<1>2. /\ \A i \in DOMAIN channel' : i + 1 \in DOMAIN channel /\ channel'[i] = channel[i + 1] /\ i + 1 # 1
      /\ \A i \in DOMAIN channel' : Model!IsAnswer(i)' => Model!IsAnswer(i + 1)
      /\ \A i, j \in DOMAIN channel' : i + 1 = j + 1 => i = j
      /\ 1 \in DOMAIN channel /\ Head(channel) = channel[1]
  BY <1>1 DEF Takes
<1>3. \A i, j \in DOMAIN channel' : Model!IsAnswer(i)' /\ channel'[i].type = channel'[j].type => i = j
  BY <1>2 DEF Model!OneAnswerEach
<1>4. CASE Model!HandleEvent
  <2>1. CASE reading = {}
    <3>1. \E generation : Model!StartRead(generation)
      BY <1>4, <2>1 DEF Model!HandleEvent
    <3>2. \A i \in DOMAIN channel' : ~Model!IsAnswer(i)'
      BY <1>2, <2>1 DEF Model!OneAnswerEach
    <3> QED
      BY <3>1, <3>2, OneStarts
  <2>2. CASE reading # {}
    <3>1. UNCHANGED <<reading, queries>>
      BY <1>4, <2>2 DEF Model!HandleEvent
    <3>2. \A i \in DOMAIN channel' : Model!IsAnswer(i)' => channel'[i].type \notin queries'
      BY <1>2, <3>1 DEF Model!OneAnswerEach
    <3>3. \A read \in reading' :
             /\ read.windows # {} => "windows" \notin queries' /\ \A i \in DOMAIN channel' : channel'[i].type # "windows"
             /\ read.tabs # {} => "tabs" \notin queries' /\ \A i \in DOMAIN channel' : channel'[i].type # "tabs"
      BY <1>2, <3>1 DEF Model!OneAnswerEach
    <3> QED
      BY <1>3, <2>2, <3>1, <3>2, <3>3 DEF Model!OneAnswerEach
  <2> QED
    BY <2>1, <2>2
<1>5. CASE Model!HandleAnswer
  <2> DEFINE answer == channel[1]
  <2>1. reading' = {Model!With(read, answer) : read \in reading} /\ queries' = queries
        /\ answer.type \in {"windows", "tabs", "late"} /\ answer \in Model!Messages
    BY <1>2, <1>5, ChannelFacts DEF Model!HandleAnswer
  <2>2. \A read \in reading :
           /\ Model!With(read, answer).windows = IF answer.type = "windows" THEN {answer} ELSE read.windows
           /\ Model!With(read, answer).tabs = IF answer.type = "tabs" THEN {answer} ELSE read.tabs
    <3>1. \A read \in reading : read \in Model!Readings /\ Model!AtMostOne(read.windows) /\ Model!AtMostOne(read.tabs)
      BY DEF Model!Shapes
    <3> QED
      BY <2>1, <3>1, WithFacts
  <2>3. answer.type \in {"windows", "tabs"} =>
            answer.type \notin queries /\ \A i \in DOMAIN channel' : channel'[i].type # answer.type
    <3>1. answer.type \in {"windows", "tabs"} => Model!IsAnswer(1)
      BY DEF Model!IsAnswer
    <3> QED
      BY <1>2, <3>1 DEF Model!OneAnswerEach
  <2>4. \A i \in DOMAIN channel' : Model!IsAnswer(i)' => channel'[i].type \notin queries'
    BY <1>2, <2>1 DEF Model!OneAnswerEach
  <2>5. \A read \in reading :
           /\ read.windows # {} => "windows" \notin queries /\ \A i \in DOMAIN channel' : channel'[i].type # "windows"
           /\ read.tabs # {} => "tabs" \notin queries /\ \A i \in DOMAIN channel' : channel'[i].type # "tabs"
    BY <1>2 DEF Model!OneAnswerEach
  <2>6. \A read \in reading :
           /\ Model!With(read, answer).windows # {} =>
                  "windows" \notin queries /\ \A i \in DOMAIN channel' : channel'[i].type # "windows"
           /\ Model!With(read, answer).tabs # {} =>
                  "tabs" \notin queries /\ \A i \in DOMAIN channel' : channel'[i].type # "tabs"
    BY <2>2, <2>3, <2>5
  <2>7. reading' = {} => queries' = {} /\ \A i \in DOMAIN channel' : ~Model!IsAnswer(i)'
    <3>1. reading' = {} => reading = {}
      BY <2>1
    <3> QED
      BY <1>2, <2>1, <3>1 DEF Model!OneAnswerEach
  <2> HIDE DEF answer
  <2>8. \A read \in reading' :
           /\ read.windows # {} => "windows" \notin queries' /\ \A i \in DOMAIN channel' : channel'[i].type # "windows"
           /\ read.tabs # {} => "tabs" \notin queries' /\ \A i \in DOMAIN channel' : channel'[i].type # "tabs"
    BY <2>1, <2>6
  <2> QED
    BY <1>3, <2>4, <2>7, <2>8 DEF Model!OneAnswerEach
<1> QED
  BY <1>4, <1>5

LEMMA OneOthers ==
    ASSUME Model!Shapes, Model!OneAnswerEach, Model!Reconcile \/ Model!ReadFails \/ \E c \in ModelCallers : Model!Call(c)
    PROVE  Model!OneAnswerEach'
<1>1. CASE Model!Drain
  <2>1. reading # {} /\ reading' = {[Model!Read EXCEPT !.drained = TRUE]} /\ UNCHANGED <<channel, queries>>
    BY <1>1 DEF Model!Drain, Model!AllRead
  <2>2. Model!Read \in reading /\ Model!Read \in Model!Readings
    BY <2>1, TheReading
  <2>3. /\ [Model!Read EXCEPT !.drained = TRUE].windows = Model!Read.windows
        /\ [Model!Read EXCEPT !.drained = TRUE].tabs = Model!Read.tabs
    BY <2>2 DEF Model!Readings
  <2> QED
    BY <2>1, <2>2, <2>3 DEF Model!OneAnswerEach, Model!IsAnswer
<1>2. CASE Model!ReadAgain
  <2>1. NoAnswers /\ channel' = channel /\ Model!StartRead(eventGeneration)
    BY <1>2, AllAnswered DEF Model!ReadAgain
  <2>2. \A i \in DOMAIN channel' : ~Model!IsAnswer(i)'
    BY <2>1 DEF NoAnswers, Model!IsAnswer
  <2> QED
    BY <2>1, <2>2, OneStarts
<1>3. CASE Model!Apply
  <2>1. NoAnswers /\ UNCHANGED <<channel, queries>> /\ reading' = {}
    BY <1>3, AllAnswered DEF Model!Apply, Model!UpToDate
  <2> QED
    BY <2>1 DEF Model!OneAnswerEach, NoAnswers, Model!IsAnswer
<1>4. CASE Model!ReadFails
  <2>1. reading' = {} /\ queries' = {}
    BY <1>4 DEF Model!ReadFails
  <2>2. \A i \in DOMAIN channel' : ~Model!IsAnswer(i)'
    <3>1. DOMAIN channel' = DOMAIN channel
          /\ \A i \in DOMAIN channel : /\ Model!IsAnswer(i) => channel'[i].type = "late"
                                       /\ ~Model!IsAnswer(i) => channel'[i] = channel[i]
      BY <1>4, LateFacts
    <3> QED
      BY <3>1 DEF Model!IsAnswer
  <2> QED
    BY <2>1, <2>2 DEF Model!OneAnswerEach
<1>5. CASE \E c \in ModelCallers : Model!Call(c)
  <2>1. channel' = channel
        /\ \/ UNCHANGED <<reading, queries>>
           \/ reading = {} /\ Model!StartRead(eventGeneration)
    BY <1>5 DEF Model!Call
  <2>2. CASE UNCHANGED <<reading, queries>>
    BY <2>1, <2>2 DEF Model!OneAnswerEach, Model!IsAnswer
  <2>3. CASE reading = {} /\ Model!StartRead(eventGeneration)
    <3>1. \A i \in DOMAIN channel' : ~Model!IsAnswer(i)'
      BY <2>1, <2>3 DEF Model!OneAnswerEach, Model!IsAnswer
    <3> QED
      BY <2>3, <3>1, OneStarts
  <2> QED
    BY <2>1, <2>2, <2>3
<1> QED
  BY <1>1, <1>2, <1>3, <1>4, <1>5 DEF Model!Reconcile

-----------------------------------------------------------------------------
(* The channel is in order *)

LEMMA OrderChanges ==
    ASSUME Model!Shapes, Model!ChannelInOrder, NEW events \in Seq(Model!Events), ChromeChanges(events)
    PROVE  Model!ChannelInOrder'
<1>1. /\ model_changes \in Nat /\ delivered \in Nat /\ delivered <= model_changes
      /\ model_changes' = model_changes + 1 /\ delivered' = delivered
  BY ChannelFacts DEF ChromeChanges
<1>2. \A i \in DOMAIN channel : /\ Model!IsEvent(i) \/ Model!IsAnswer(i) => channel[i].at \in delivered..model_changes
                                /\ Model!IsEvent(i) /\ channel[i].type # "dirty" => channel[i].at > delivered
  BY DEF Model!ChannelInOrder
<1>3. /\ Len(channel) \in Nat /\ DOMAIN channel = 1..Len(channel)
      /\ Len(events) \in Nat /\ Len(events) > 0
      /\ DOMAIN channel' = 1..(Len(channel) + Len(events))
      /\ \A i \in DOMAIN channel : /\ i \in DOMAIN channel' /\ channel'[i] = channel[i]
                                   /\ Model!IsEvent(i)' <=> Model!IsEvent(i)
                                   /\ Model!IsAnswer(i)' <=> Model!IsAnswer(i)
      /\ \A i \in DOMAIN channel' : i \notin DOMAIN channel =>
             /\ i > Len(channel) /\ Model!IsEvent(i)' /\ ~Model!IsAnswer(i)'
             /\ channel'[i].at = model_changes + 1
             /\ channel'[i].type # "dirty" => Len(events) = 1
  BY ChangeFacts
<1>4. \A n \in delivered' + 1..model_changes' : \E i \in DOMAIN channel' : Model!IsEvent(i)' /\ channel'[i].at = n
  <2> SUFFICES ASSUME NEW n \in delivered' + 1..model_changes'
               PROVE  \E i \in DOMAIN channel' : Model!IsEvent(i)' /\ channel'[i].at = n
    OBVIOUS
  <2>1. CASE n = model_changes + 1
    <3>1. Len(channel) + 1 \in DOMAIN channel' /\ Len(channel) + 1 \notin DOMAIN channel
      BY <1>3
    <3> QED
      BY <1>3, <2>1, <3>1
  <2>2. CASE n # model_changes + 1
    <3>1. n \in delivered + 1..model_changes
      BY <1>1, <2>2
    <3>2. PICK i \in DOMAIN channel : Model!IsEvent(i) /\ channel[i].at = n
      BY <3>1 DEF Model!ChannelInOrder
    <3> QED
      BY <1>3, <3>2
  <2> QED
    BY <2>1, <2>2
<1>5. \A i \in DOMAIN channel' :
           /\ Model!IsEvent(i)' \/ Model!IsAnswer(i)' => channel'[i].at \in delivered'..model_changes'
           /\ Model!IsEvent(i)' /\ channel'[i].type # "dirty" => channel'[i].at > delivered'
  <2> SUFFICES ASSUME NEW i \in DOMAIN channel'
               PROVE  /\ Model!IsEvent(i)' \/ Model!IsAnswer(i)' => channel'[i].at \in delivered'..model_changes'
                      /\ Model!IsEvent(i)' /\ channel'[i].type # "dirty" => channel'[i].at > delivered'
    OBVIOUS
  <2>1. CASE i \in DOMAIN channel
    BY <1>1, <1>2, <1>3, <2>1
  <2>2. CASE i \notin DOMAIN channel
    BY <1>1, <1>3, <2>2
  <2> QED
    BY <2>1, <2>2
<1>6. ASSUME NEW i \in DOMAIN channel', NEW j \in DOMAIN channel', i < j
      PROVE  /\ Model!IsEvent(i)' /\ (Model!IsEvent(j)' \/ Model!IsAnswer(j)') => channel'[i].at <= channel'[j].at
             /\ Model!IsEvent(i)' /\ Model!IsEvent(j)' /\ channel'[j].type # "dirty" => channel'[i].at < channel'[j].at
             /\ Model!IsAnswer(i)' /\ Model!IsEvent(j)' => channel'[i].at < channel'[j].at
  <2>1. CASE j \in DOMAIN channel
    <3>1. i \in DOMAIN channel
      BY <1>3, <1>6, <2>1
    <3> QED
      BY <1>3, <1>6, <2>1, <3>1 DEF Model!ChannelInOrder
  <2>2. CASE j \notin DOMAIN channel /\ i \in DOMAIN channel
    BY <1>1, <1>2, <1>3, <2>2
  <2>3. CASE j \notin DOMAIN channel /\ i \notin DOMAIN channel
    <3>1. ASSUME Len(events) = 1
          PROVE  FALSE
      <4>1. /\ Len(channel) \in Nat /\ i \in 1..(Len(channel) + 1) /\ i \notin 1..Len(channel)
            /\ j \in 1..(Len(channel) + 1) /\ j \notin 1..Len(channel)
        BY <1>3, <2>3, <3>1
      <4> QED
        BY <1>6, <4>1
    <3> QED
      BY <1>1, <1>3, <2>3, <3>1
  <2> QED
    BY <2>1, <2>2, <2>3
<1> QED
  BY <1>4, <1>5, <1>6 DEF Model!ChannelInOrder

LEMMA OrderAnswers ==
    ASSUME Model!Shapes, Model!ChannelInOrder, NEW query, Answers(query)
    PROVE  Model!ChannelInOrder'
<1>1. /\ model_changes \in Nat /\ delivered \in Nat /\ delivered <= model_changes
      /\ model_changes' = model_changes /\ delivered' = delivered
  BY ChannelFacts DEF Answers
<1>2. \A i \in DOMAIN channel : /\ Model!IsEvent(i) \/ Model!IsAnswer(i) => channel[i].at \in delivered..model_changes
                                /\ Model!IsEvent(i) /\ channel[i].type # "dirty" => channel[i].at > delivered
  BY DEF Model!ChannelInOrder
<1>3. /\ Len(channel) \in Nat /\ DOMAIN channel = 1..Len(channel)
      /\ DOMAIN channel' = 1..(Len(channel) + 1)
      /\ \A i \in DOMAIN channel : /\ i \in DOMAIN channel' /\ channel'[i] = channel[i]
                                   /\ Model!IsEvent(i)' <=> Model!IsEvent(i)
                                   /\ Model!IsAnswer(i)' <=> Model!IsAnswer(i)
      /\ \A i \in DOMAIN channel' : i \notin DOMAIN channel =>
             i > Len(channel) /\ Model!IsAnswer(i)' /\ ~Model!IsEvent(i)' /\ channel'[i].at = model_changes
  BY DEF Answers
<1>4. \A n \in delivered' + 1..model_changes' : \E i \in DOMAIN channel' : Model!IsEvent(i)' /\ channel'[i].at = n
  <2>1. \A n \in delivered + 1..model_changes : \E i \in DOMAIN channel : Model!IsEvent(i) /\ channel[i].at = n
    BY DEF Model!ChannelInOrder
  <2> QED
    BY <1>1, <1>3, <2>1
<1>5. ASSUME NEW i \in DOMAIN channel'
      PROVE  /\ Model!IsEvent(i)' \/ Model!IsAnswer(i)' => channel'[i].at \in delivered'..model_changes'
             /\ Model!IsEvent(i)' /\ channel'[i].type # "dirty" => channel'[i].at > delivered'
  <2>1. CASE i \in DOMAIN channel
    BY <1>1, <1>2, <1>3, <2>1
  <2>2. CASE i \notin DOMAIN channel
    BY <1>1, <1>3, <2>2
  <2> QED
    BY <2>1, <2>2
<1>6. ASSUME NEW i \in DOMAIN channel', NEW j \in DOMAIN channel', i < j
      PROVE  /\ Model!IsEvent(i)' /\ (Model!IsEvent(j)' \/ Model!IsAnswer(j)') => channel'[i].at <= channel'[j].at
             /\ Model!IsEvent(i)' /\ Model!IsEvent(j)' /\ channel'[j].type # "dirty" => channel'[i].at < channel'[j].at
             /\ Model!IsAnswer(i)' /\ Model!IsEvent(j)' => channel'[i].at < channel'[j].at
  <2>0. i \in DOMAIN channel
    BY <1>3, <1>6
  <2>1. CASE j \in DOMAIN channel
    BY <1>3, <1>6, <2>0, <2>1 DEF Model!ChannelInOrder
  <2>2. CASE j \notin DOMAIN channel
    BY <1>1, <1>2, <1>3, <2>0, <2>2
  <2> QED
    BY <2>1, <2>2
<1> QED
  BY <1>4, <1>5, <1>6 DEF Model!ChannelInOrder

LEMMA OrderHandles ==
    ASSUME Model!Shapes, Model!ChannelInOrder, Model!HandleEvent \/ Model!HandleAnswer
    PROVE  Model!ChannelInOrder'
<1>1. /\ 1 \in DOMAIN channel /\ channel # <<>> /\ Head(channel) = channel[1]
      /\ \A i \in DOMAIN channel' : /\ i + 1 \in DOMAIN channel /\ i + 1 > 1 /\ channel'[i] = channel[i + 1]
                                    /\ Model!IsEvent(i)' <=> Model!IsEvent(i + 1)
                                    /\ Model!IsAnswer(i)' <=> Model!IsAnswer(i + 1)
      /\ \A i \in DOMAIN channel : i # 1 => i > 1 /\ i - 1 \in DOMAIN channel' /\ (i - 1) + 1 = i
      /\ \A i, j \in DOMAIN channel' : i < j => i + 1 < j + 1
  BY TakesFacts DEF Takes
<1>2. /\ model_changes \in Nat /\ delivered \in Nat /\ delivered <= model_changes /\ model_changes' = model_changes
  BY ChannelFacts DEF Model!HandleEvent, Model!HandleAnswer, Model!chrome
<1>3. \A i \in DOMAIN channel : /\ Model!IsEvent(i) \/ Model!IsAnswer(i) => channel[i].at \in delivered..model_changes
                                /\ Model!IsEvent(i) /\ channel[i].type # "dirty" => channel[i].at > delivered
  BY DEF Model!ChannelInOrder
<1>4. \/ Model!IsEvent(1) /\ delivered' = channel[1].at
      \/ ~Model!IsEvent(1) /\ delivered' = delivered
  BY <1>1 DEF Model!HandleEvent, Model!HandleAnswer, Model!IsEvent
<1>5. delivered' \in delivered..model_changes
  BY <1>1, <1>2, <1>3, <1>4
<1>6. ASSUME NEW n \in Int, n > delivered', n <= model_changes
      PROVE  \E i \in DOMAIN channel' : Model!IsEvent(i)' /\ channel'[i].at = n
  <2>0. delivered' \in Int /\ delivered' >= delivered
    BY <1>2, <1>5
  <2>1. n \in delivered + 1..model_changes
    BY <1>2, <1>6, <2>0
  <2>2. PICK i \in DOMAIN channel : Model!IsEvent(i) /\ channel[i].at = n
    BY <2>1 DEF Model!ChannelInOrder
  <2>3. i # 1
    BY <1>4, <1>6, <2>0, <2>2
  <2>4. i - 1 \in DOMAIN channel' /\ (i - 1) + 1 = i
    BY <1>1, <2>3
  <2>5. channel'[i - 1] = channel[i] /\ Model!IsEvent(i)
    BY <1>1, <2>2, <2>4
  <2>6. \A k \in DOMAIN channel' : k + 1 = i => Model!IsEvent(k)' /\ channel'[k].at = n
    BY <1>1, <2>2
  <2> QED
    BY <2>4, <2>6
<1>7. ASSUME NEW i \in DOMAIN channel'
      PROVE  /\ Model!IsEvent(i)' \/ Model!IsAnswer(i)' => channel'[i].at \in delivered'..model_changes'
             /\ Model!IsEvent(i)' /\ channel'[i].type # "dirty" => channel'[i].at > delivered'
  <2>1. i + 1 \in DOMAIN channel /\ i + 1 > 1 /\ channel'[i] = channel[i + 1]
        /\ (Model!IsEvent(i)' <=> Model!IsEvent(i + 1)) /\ (Model!IsAnswer(i)' <=> Model!IsAnswer(i + 1))
    BY <1>1
  <2>2. CASE Model!IsEvent(1) /\ delivered' = channel[1].at
    <3>1. /\ Model!IsEvent(i + 1) \/ Model!IsAnswer(i + 1) => channel[1].at <= channel[i + 1].at
          /\ Model!IsEvent(i + 1) /\ channel[i + 1].type # "dirty" => channel[1].at < channel[i + 1].at
      BY <1>1, <2>1, <2>2 DEF Model!ChannelInOrder
    <3>2. Model!IsEvent(i + 1) \/ Model!IsAnswer(i + 1) => channel[i + 1].at \in delivered..model_changes
      BY <1>3, <2>1
    <3>3. channel[1].at \in delivered..model_changes
      BY <1>1, <1>3, <2>2
    <3> QED
      BY <1>2, <2>1, <2>2, <3>1, <3>2, <3>3
  <2>3. CASE delivered' = delivered
    BY <1>2, <1>3, <2>1, <2>3
  <2> QED
    BY <1>4, <2>2, <2>3
<1>8. ASSUME NEW i \in DOMAIN channel', NEW j \in DOMAIN channel', i < j
      PROVE  /\ Model!IsEvent(i)' /\ (Model!IsEvent(j)' \/ Model!IsAnswer(j)') => channel'[i].at <= channel'[j].at
             /\ Model!IsEvent(i)' /\ Model!IsEvent(j)' /\ channel'[j].type # "dirty" => channel'[i].at < channel'[j].at
             /\ Model!IsAnswer(i)' /\ Model!IsEvent(j)' => channel'[i].at < channel'[j].at
  BY <1>1, <1>8 DEF Model!ChannelInOrder
<1>9. \A n \in delivered' + 1..model_changes' : n \in Int /\ n > delivered' /\ n <= model_changes
  <2>1. delivered' \in Nat
    BY <1>2, <1>5
  <2>2. model_changes' \in Nat /\ model_changes' = model_changes
    BY <1>2
  <2>3. \A d, m \in Nat : \A n \in d + 1..m : n \in Int /\ n > d /\ n <= m
    OBVIOUS
  <2> QED
    BY <2>1, <2>2, <2>3
<1>10. \A n \in delivered' + 1..model_changes' : \E i \in DOMAIN channel' : Model!IsEvent(i)' /\ channel'[i].at = n
  BY <1>6, <1>9
<1> QED
  BY <1>7, <1>8, <1>10 DEF Model!ChannelInOrder

\* An answer that is next was given after the last event that was delivered, and
\* before the next change.
LEMMA NextAnswer ==
    ASSUME Model!Shapes, Model!ChannelInOrder, 1 \in DOMAIN channel, Model!IsAnswer(1)
    PROVE  channel[1].at = delivered
<1>1. channel[1].at \in delivered..model_changes
  BY DEF Model!ChannelInOrder
<1>2. ASSUME channel[1].at # delivered
      PROVE  FALSE
  <2>1. channel[1].at \in delivered + 1..model_changes
    BY <1>1, <1>2, ChannelFacts
  <2>2. PICK i \in DOMAIN channel : Model!IsEvent(i) /\ channel[i].at = channel[1].at
    BY <2>1 DEF Model!ChannelInOrder
  <2>3. i > 1
    BY <2>2, ChannelFacts DEF Model!IsEvent, Model!IsAnswer
  <2>4. channel[1].at < channel[i].at
    BY <2>2, <2>3 DEF Model!ChannelInOrder
  <2> QED
    BY <1>1, <2>2, <2>4
<1> QED
  BY <1>2

-----------------------------------------------------------------------------
(* What Chrome has and what its answers say *)

LEMMA AnswerTypes ==
    ASSUME Model!Shapes
    PROVE  /\ \A a \in Model!WindowsAnswers : a \in Model!WindowAnswers /\ a.type = "windows" /\ a.at \in Nat
           /\ \A a \in Model!TabsAnswers : a \in Model!TabAnswers /\ a.type = "tabs" /\ a.at \in Nat
           /\ \A a \in Model!Current : a \in Model!WindowsAnswers \/ a \in Model!TabsAnswers
<1>1. \A i \in DOMAIN channel : /\ channel[i].type = "windows" => channel[i] \in Model!WindowAnswers
                                /\ channel[i].type = "tabs" => channel[i] \in Model!TabAnswers
  BY ChannelFacts, MessageFacts
<1>2. \A read \in reading : read.windows \subseteq Model!WindowAnswers /\ read.tabs \subseteq Model!TabAnswers
  BY DEF Model!Shapes, Model!Readings
<1>3. \A a \in Model!WindowsAnswers : a \in Model!WindowAnswers
  BY <1>1, <1>2, AnswersAre
<1>4. \A a \in Model!TabsAnswers : a \in Model!TabAnswers
  BY <1>1, <1>2, AnswersAre
<1>5. /\ \A a \in Model!WindowAnswers : a.type = "windows" /\ a.at \in Nat
      /\ \A a \in Model!TabAnswers : a.type = "tabs" /\ a.at \in Nat
  BY DEF Model!WindowAnswers, Model!TabAnswers
<1>6. \A a \in Model!Current : a \in Model!WindowsAnswers \/ a \in Model!TabsAnswers
  BY AnswersAre
<1> QED
  BY <1>3, <1>4, <1>5, <1>6

LEMMA FitsChanges ==
    ASSUME Model!Shapes, Model!ChromeFits, NEW events \in Seq(Model!Events), ChromeChanges(events)
    PROVE  Model!ChromeFits'
<1>1. /\ model_changes \in Nat /\ model_changes' = model_changes + 1 /\ Model!Current' = Model!Current
      /\ Model!WindowsAnswers' = Model!WindowsAnswers /\ Model!TabsAnswers' = Model!TabsAnswers /\ delivered' = delivered
  BY ChannelFacts, ChangeFacts DEF ChromeChanges
<1>2. \A t \in TabIds : \A tab \in tabs'[t] : windows'[tab.window] # {}
  BY DEF ChromeChanges
<1>3. \A tab \in UNION {tabs'[t] : t \in TabIds} : windows'[tab.window] # {}
  BY <1>2
<1>4. \A id \in Model!Ids : Model!Life(id)' = Model!Life(id) \/ Model!Life(id)' \subseteq {model_changes + 1}
  BY DEF ChromeChanges
<1>5. \A id \in Model!Ids : \A since \in Model!Life(id) : since \in Nat
  BY DEF Model!Life, Model!Shapes, Model!Ids, Model!Tabs
<1>6. \A id \in Model!Ids : \A since \in Model!Life(id)' : since <= model_changes'
  <2> SUFFICES ASSUME NEW id \in Model!Ids, NEW since \in Model!Life(id)'
               PROVE  since <= model_changes'
    OBVIOUS
  <2>1. CASE Model!Life(id)' = Model!Life(id)
    <3>1. since <= model_changes /\ since \in Nat
      BY <1>5, <2>1 DEF Model!ChromeFits
    <3> QED
      BY <1>1, <3>1
  <2>2. CASE Model!Life(id)' \subseteq {model_changes + 1}
    BY <1>1, <2>2
  <2> QED
    BY <1>4, <2>1, <2>2
<1>7. \A a \in Model!WindowsAnswers \cup Model!TabsAnswers : a.at \in Nat /\ a.at <= model_changes /\ a.at # model_changes' /\ a.at <= model_changes'
  <2>1. \A a \in Model!WindowsAnswers \cup Model!TabsAnswers : a.at \in Nat /\ a.at <= model_changes
    BY AnswerTypes DEF Model!ChromeFits
  <2> QED
    BY <1>1, <2>1
<1>8. /\ \A a \in Model!WindowsAnswers \cup Model!TabsAnswers : \A id \in Model!Ids :
             Model!Tells(a, id) => Model!AtMostOne(Model!LifeIn(a, id)) /\ \A since \in Model!LifeIn(a, id) : since <= a.at
      /\ \A a \in Model!WindowsAnswers, b \in Model!TabsAnswers :
             a.at = b.at => \A t \in TabIds : \A tab \in b.value[t] : a.value[tab.window] # {}
      /\ \A a \in Model!Current : a.at = delivered
  BY DEF Model!ChromeFits
<1> QED
  BY <1>1, <1>3, <1>6, <1>7, <1>8 DEF Model!ChromeFits

\* An answer says what Chrome has.
LEMMA AnswerTells ==
    ASSUME Model!Shapes, NEW answer, NEW id \in Model!Ids, Model!Tells(answer, id),
           answer.value = IF answer.type = "windows" THEN windows ELSE tabs
    PROVE  Model!LifeIn(answer, id) = Model!Life(id)
  BY DEF Model!Tells, Model!LifeIn, Model!Life

LEMMA FitsAnswers ==
    ASSUME Model!Shapes, Model!ChromeFits, NEW query, Answers(query)
    PROVE  Model!ChromeFits'
<1> DEFINE answer == channel'[Len(channel) + 1]
<1>1. /\ model_changes \in Nat /\ UNCHANGED <<windows, tabs, model_changes, delivered, reading>> /\ Model!Current' = Model!Current
      /\ query \in {"windows", "tabs"}
      /\ answer.type = query /\ answer.at = model_changes
      /\ answer.value = IF query = "windows" THEN windows ELSE tabs
      /\ \A i \in DOMAIN channel : channel'[i] = channel[i]
      /\ \A i \in DOMAIN channel' : i \in DOMAIN channel \/ i = Len(channel) + 1
  BY ChannelFacts DEF Answers
<1>2. \A a \in Model!WindowsAnswers' : a \in Model!WindowsAnswers \/ (a = answer /\ answer.type = "windows")
  BY <1>1, AnswersAre, AnswersAreNext
<1>3. \A a \in Model!TabsAnswers' : a \in Model!TabsAnswers \/ (a = answer /\ answer.type = "tabs")
  BY <1>1, AnswersAre, AnswersAreNext
<1> HIDE DEF answer
<1>4. \A id \in Model!Ids : Model!Life(id)' = Model!Life(id)
  BY <1>1 DEF Model!Life
<1>5. \A id \in Model!Ids : Model!AtMostOne(Model!Life(id)) /\ \A since \in Model!Life(id) : since <= model_changes
  BY DEF Model!Life, Model!Shapes, Model!Ids, Model!AtMostOne, Model!ChromeFits
<1>6. /\ answer.at = model_changes
      /\ \A id \in Model!Ids : Model!Tells(answer, id) => Model!AtMostOne(Model!LifeIn(answer, id))
                                              /\ \A since \in Model!LifeIn(answer, id) : since <= answer.at
  BY <1>1, <1>5, AnswerTells
<1>7. \A a \in Model!WindowsAnswers' \cup Model!TabsAnswers' :
         /\ a.at <= model_changes
         /\ \A id \in Model!Ids : Model!Tells(a, id) => Model!AtMostOne(Model!LifeIn(a, id)) /\ \A since \in Model!LifeIn(a, id) : since <= a.at
  <2>1. \A a \in Model!WindowsAnswers \cup Model!TabsAnswers :
         /\ a.at <= model_changes
         /\ \A id \in Model!Ids : Model!Tells(a, id) => Model!AtMostOne(Model!LifeIn(a, id)) /\ \A since \in Model!LifeIn(a, id) : since <= a.at
    BY DEF Model!ChromeFits
  <2> QED
    BY <1>1, <1>2, <1>3, <1>6, <2>1
<1>8. /\ \A a \in Model!WindowsAnswers' : a.at = model_changes => a.value = windows
      /\ \A a \in Model!TabsAnswers' : a.at = model_changes => a.value = tabs
  BY <1>1, <1>2, <1>3 DEF Model!ChromeFits
<1>9. \A t \in TabIds : \A tab \in tabs[t] : windows[tab.window] # {}
  BY DEF Model!ChromeFits
<1>10. ASSUME NEW a \in Model!WindowsAnswers', NEW b \in Model!TabsAnswers', a.at = b.at
       PROVE  \A t \in TabIds : \A tab \in b.value[t] : a.value[tab.window] # {}
  <2>1. CASE a \in Model!WindowsAnswers /\ b \in Model!TabsAnswers
    BY <1>10, <2>1 DEF Model!ChromeFits
  <2>2. CASE a = answer \/ b = answer
    <3>1. a.value = windows /\ b.value = tabs
      BY <1>1, <1>8, <1>10, <2>2
    <3> QED
      BY <1>9, <3>1
  <2> QED
    BY <1>2, <1>3, <2>1, <2>2
<1> QED
  BY <1>1, <1>4, <1>7, <1>8, <1>10 DEF Model!ChromeFits

LEMMA FitsHandles ==
    ASSUME Model!Shapes, Model!ChannelInOrder, Model!ChromeFits, Model!HandleEvent \/ Model!HandleAnswer
    PROVE  Model!ChromeFits'
<1>1. UNCHANGED <<windows, tabs, model_changes>>
  BY DEF Model!HandleEvent, Model!HandleAnswer, Model!chrome
<1>2. \A id \in Model!Ids : Model!Life(id)' = Model!Life(id)
  BY <1>1 DEF Model!Life
<1>3. Model!WindowsAnswers' \subseteq Model!WindowsAnswers /\ Model!TabsAnswers' \subseteq Model!TabsAnswers
  BY HandlerAnswers
<1>4. \A a \in Model!Current' : a.at = delivered'
  <2>1. CASE Model!HandleEvent
    BY <2>1, HandlerAnswers
  <2>2. CASE Model!HandleAnswer
    <3>1. delivered' = delivered
      BY <2>2 DEF Model!HandleAnswer
    <3>2. \A a \in Model!Current' : a \in Model!Current \/ (a = channel[1] /\ Model!IsAnswer(1))
      BY <2>2, HandlerAnswers
    <3>3. 1 \in DOMAIN channel
      BY TakesFacts DEF Takes
    <3>4. \A a \in Model!Current : a.at = delivered
      BY DEF Model!ChromeFits
    <3> QED
      BY <3>1, <3>2, <3>3, <3>4, NextAnswer
  <2> QED
    BY <2>1, <2>2
<1> QED
  BY <1>1, <1>2, <1>3, <1>4 DEF Model!ChromeFits

-----------------------------------------------------------------------------
(* The events tell of the difference *)

LEMMA EventOrAnswer ==
    \A i : ~(Model!IsEvent(i) /\ Model!IsAnswer(i))
  BY DEF Model!IsEvent, Model!IsAnswer

LEMMA ResetsEvent ==
    \A m, id : Model!Resets(m, id) => m.type \in {"created", "removed", "replaced"}
  BY DEF Model!Resets

LEMMA TellsChanges ==
    ASSUME Model!Shapes, Model!ChannelInOrder, Model!EventsTell, NEW events \in Seq(Model!Events), ChromeChanges(events)
    PROVE  Model!EventsTell'
<1>1. /\ Len(channel) \in Nat /\ DOMAIN channel = 1..Len(channel)
      /\ \A i \in DOMAIN channel : /\ i \in DOMAIN channel' /\ channel'[i] = channel[i]
                                   /\ Model!IsAnswer(i)' <=> Model!IsAnswer(i)
      /\ \A i \in DOMAIN channel' : i \notin DOMAIN channel =>
             /\ i > Len(channel) /\ ~Model!IsAnswer(i)' /\ channel'[i].at = model_changes + 1
             /\ i - Len(channel) \in DOMAIN events /\ channel'[i] = events[i - Len(channel)]
      /\ \A i \in DOMAIN events : Len(channel) + i \in DOMAIN channel' /\ channel'[Len(channel) + i] = events[i]
      /\ DOMAIN events = 1..Len(events) /\ Len(events) \in Nat
      /\ Model!Current' = Model!Current
  BY ChangeFacts
<1>2. \A id \in Model!Ids : \/ Model!Life(id)' = Model!Life(id) /\ \A i \in DOMAIN events : ~Model!Resets(events[i], id)
                            \/ Model!Life(id)' \subseteq {model_changes + 1} /\ \E i \in DOMAIN events : Model!Resets(events[i], id)
  BY DEF ChromeChanges
<1>3. \A j \in DOMAIN channel : \A id : Model!Resets(channel[j], id) => channel[j].at \in Nat /\ channel[j].at <= model_changes
  BY ChannelFacts, ResetsEvent DEF Model!ChannelInOrder, Model!IsEvent
<1>4. ASSUME NEW id \in Model!Ids
      PROVE  /\ \A i \in DOMAIN channel' : Model!IsAnswer(i)' /\ Model!Tells(channel'[i], id) =>
                   Model!LifeIn(channel'[i], id) = Model!Life(id)' \/ \E j \in DOMAIN channel' : j > i /\ Model!Resets(channel'[j], id)
             /\ \A a \in Model!Current' : Model!Tells(a, id) =>
                   Model!LifeIn(a, id) = Model!Life(id)' \/ \E j \in DOMAIN channel' : Model!Resets(channel'[j], id)
             /\ \A j \in DOMAIN channel' : Model!Resets(channel'[j], id) =>
                   /\ \A since \in Model!Life(id)' : since >= channel'[j].at
                   /\ \A i \in DOMAIN channel' : i > j /\ Model!IsAnswer(i)' /\ Model!Tells(channel'[i], id) =>
                          \A since \in Model!LifeIn(channel'[i], id) : since >= channel'[j].at
  <2>1. /\ \A i \in DOMAIN channel : Model!IsAnswer(i) /\ Model!Tells(channel[i], id) =>
               Model!LifeIn(channel[i], id) = Model!Life(id) \/ \E j \in DOMAIN channel : j > i /\ Model!Resets(channel[j], id)
        /\ \A a \in Model!Current : Model!Tells(a, id) =>
               Model!LifeIn(a, id) = Model!Life(id) \/ \E j \in DOMAIN channel : Model!Resets(channel[j], id)
        /\ \A j \in DOMAIN channel : Model!Resets(channel[j], id) =>
               /\ \A since \in Model!Life(id) : since >= channel[j].at
               /\ \A i \in DOMAIN channel : i > j /\ Model!IsAnswer(i) /\ Model!Tells(channel[i], id) =>
                      \A since \in Model!LifeIn(channel[i], id) : since >= channel[j].at
    BY DEF Model!EventsTell
  <2>2. ASSUME \E i \in DOMAIN events : Model!Resets(events[i], id)
        PROVE  \E j \in DOMAIN channel' : j \notin DOMAIN channel /\ j > Len(channel) /\ Model!Resets(channel'[j], id)
    <3>1. PICK i \in DOMAIN events : Model!Resets(events[i], id)
      BY <2>2
    <3>2. Len(channel) + i \in DOMAIN channel' /\ channel'[Len(channel) + i] = events[i]
      BY <1>1
    <3>3. Len(channel) + i > Len(channel) /\ Len(channel) + i \notin DOMAIN channel
      BY <1>1
    <3> QED
      BY <3>1, <3>2, <3>3
  <2>3. \A i \in DOMAIN channel' : Model!IsAnswer(i)' /\ Model!Tells(channel'[i], id) =>
            Model!LifeIn(channel'[i], id) = Model!Life(id)' \/ \E j \in DOMAIN channel' : j > i /\ Model!Resets(channel'[j], id)
    <3> SUFFICES ASSUME NEW i \in DOMAIN channel', Model!IsAnswer(i)', Model!Tells(channel'[i], id)
                 PROVE  Model!LifeIn(channel'[i], id) = Model!Life(id)' \/ \E j \in DOMAIN channel' : j > i /\ Model!Resets(channel'[j], id)
      OBVIOUS
    <3>1. i \in DOMAIN channel /\ Model!IsAnswer(i) /\ channel'[i] = channel[i] /\ i \in 1..Len(channel)
      BY <1>1
    <3>2. CASE Model!Life(id)' = Model!Life(id)
      BY <1>1, <2>1, <3>1, <3>2
    <3>3. CASE \E k \in DOMAIN events : Model!Resets(events[k], id)
      <4>1. PICK j \in DOMAIN channel' : j > Len(channel) /\ Model!Resets(channel'[j], id)
        BY <2>2, <3>3
      <4>2. j > i
        BY <1>1, <3>1, <4>1, ChangeFacts
      <4> QED
        BY <4>1, <4>2
    <3> QED
      BY <1>2, <3>2, <3>3
  <2>4. \A a \in Model!Current' : Model!Tells(a, id) =>
            Model!LifeIn(a, id) = Model!Life(id)' \/ \E j \in DOMAIN channel' : Model!Resets(channel'[j], id)
    <3>1. CASE Model!Life(id)' = Model!Life(id)
      BY <1>1, <2>1, <3>1
    <3>2. CASE \E k \in DOMAIN events : Model!Resets(events[k], id)
      BY <2>2, <3>2
    <3> QED
      BY <1>2, <3>1, <3>2
  <2>5. ASSUME NEW j \in DOMAIN channel', Model!Resets(channel'[j], id)
        PROVE  /\ \A since \in Model!Life(id)' : since >= channel'[j].at
               /\ \A i \in DOMAIN channel' : i > j /\ Model!IsAnswer(i)' /\ Model!Tells(channel'[i], id) =>
                      \A since \in Model!LifeIn(channel'[i], id) : since >= channel'[j].at
    <3>1. CASE j \in DOMAIN channel
      <4>1. channel'[j] = channel[j] /\ Model!Resets(channel[j], id)
        BY <1>1, <2>5, <3>1
      <4>2. \A since \in Model!Life(id)' : since >= channel'[j].at
        <5>1. CASE Model!Life(id)' = Model!Life(id)
          BY <2>1, <3>1, <4>1, <5>1
        <5>2. CASE Model!Life(id)' \subseteq {model_changes + 1}
          BY <1>3, <3>1, <4>1, <5>2, ChannelFacts
        <5> QED
          BY <1>2, <5>1, <5>2
      <4> QED
        BY <1>1, <2>1, <3>1, <4>1, <4>2
    <3>2. CASE j \notin DOMAIN channel
      <4>1. j > Len(channel) /\ channel'[j].at = model_changes + 1 /\ \E k \in DOMAIN events : Model!Resets(events[k], id)
        BY <1>1, <2>5, <3>2
      <4>2. Model!Life(id)' \subseteq {model_changes + 1}
        BY <1>2, <4>1
      <4>3. \A i \in DOMAIN channel' : i > j => ~Model!IsAnswer(i)'
        <5>1. \A i \in DOMAIN channel : ~(i > j)
          BY <1>1, <4>1, ChangeFacts
        <5> QED
          BY <1>1, <5>1
      <4> QED
        BY <4>1, <4>2, <4>3, ChannelFacts
    <3> QED
      BY <3>1, <3>2
  <2> QED
    BY <2>3, <2>4, <2>5
<1> QED
  BY <1>4 DEF Model!EventsTell

LEMMA TellsAnswers ==
    ASSUME Model!Shapes, Model!EventsTell, NEW query, Answers(query)
    PROVE  Model!EventsTell'
<1> DEFINE last == Len(channel) + 1
<1>1. /\ Len(channel) \in Nat /\ DOMAIN channel = 1..Len(channel)
      /\ last \in DOMAIN channel'
      /\ \A i \in DOMAIN channel : /\ i \in DOMAIN channel' /\ channel'[i] = channel[i]
                                   /\ Model!IsAnswer(i)' <=> Model!IsAnswer(i)
      /\ \A i \in DOMAIN channel' : i \notin DOMAIN channel => i = last
      /\ channel'[last].type = query /\ query \in {"windows", "tabs"}
      /\ channel'[last].value = IF query = "windows" THEN windows ELSE tabs
      /\ Model!Current' = Model!Current
  BY DEF Answers
<1>2. \A id \in Model!Ids : Model!Life(id)' = Model!Life(id)
  BY DEF Model!Life, Answers
<1>3. \A id \in Model!Ids : Model!Tells(channel'[last], id) => Model!LifeIn(channel'[last], id) = Model!Life(id)
  BY <1>1, AnswerTells
<1>4. \A id : ~Model!Resets(channel'[last], id)
  BY <1>1, ResetsEvent
<1> HIDE DEF last
<1>5. ASSUME NEW id \in Model!Ids
      PROVE  /\ \A i \in DOMAIN channel' : Model!IsAnswer(i)' /\ Model!Tells(channel'[i], id) =>
                   Model!LifeIn(channel'[i], id) = Model!Life(id)' \/ \E j \in DOMAIN channel' : j > i /\ Model!Resets(channel'[j], id)
             /\ \A a \in Model!Current' : Model!Tells(a, id) =>
                   Model!LifeIn(a, id) = Model!Life(id)' \/ \E j \in DOMAIN channel' : Model!Resets(channel'[j], id)
             /\ \A j \in DOMAIN channel' : Model!Resets(channel'[j], id) =>
                   /\ \A since \in Model!Life(id)' : since >= channel'[j].at
                   /\ \A i \in DOMAIN channel' : i > j /\ Model!IsAnswer(i)' /\ Model!Tells(channel'[i], id) =>
                          \A since \in Model!LifeIn(channel'[i], id) : since >= channel'[j].at
  <2>1. /\ \A i \in DOMAIN channel : Model!IsAnswer(i) /\ Model!Tells(channel[i], id) =>
               Model!LifeIn(channel[i], id) = Model!Life(id) \/ \E j \in DOMAIN channel : j > i /\ Model!Resets(channel[j], id)
        /\ \A a \in Model!Current : Model!Tells(a, id) =>
               Model!LifeIn(a, id) = Model!Life(id) \/ \E j \in DOMAIN channel : Model!Resets(channel[j], id)
        /\ \A j \in DOMAIN channel : Model!Resets(channel[j], id) =>
               /\ \A since \in Model!Life(id) : since >= channel[j].at
               /\ \A i \in DOMAIN channel : i > j /\ Model!IsAnswer(i) /\ Model!Tells(channel[i], id) =>
                      \A since \in Model!LifeIn(channel[i], id) : since >= channel[j].at
    BY DEF Model!EventsTell
  <2>2. \A i \in DOMAIN channel' : Model!IsAnswer(i)' /\ Model!Tells(channel'[i], id) =>
            Model!LifeIn(channel'[i], id) = Model!Life(id)' \/ \E j \in DOMAIN channel' : j > i /\ Model!Resets(channel'[j], id)
    BY <1>1, <1>2, <1>3, <2>1
  <2>3. \A a \in Model!Current' : Model!Tells(a, id) =>
            Model!LifeIn(a, id) = Model!Life(id)' \/ \E j \in DOMAIN channel' : Model!Resets(channel'[j], id)
    BY <1>1, <1>2, <2>1
  <2>4. ASSUME NEW j \in DOMAIN channel', Model!Resets(channel'[j], id)
        PROVE  /\ \A since \in Model!Life(id)' : since >= channel'[j].at
               /\ \A i \in DOMAIN channel' : i > j /\ Model!IsAnswer(i)' /\ Model!Tells(channel'[i], id) =>
                      \A since \in Model!LifeIn(channel'[i], id) : since >= channel'[j].at
    <3>1. j \in DOMAIN channel /\ channel'[j] = channel[j]
      BY <1>1, <1>4, <2>4
    <3>2. \A since \in Model!Life(id) : since >= channel'[j].at
      BY <2>1, <2>4, <3>1
    <3> QED
      BY <1>1, <1>2, <1>3, <2>1, <2>4, <3>1, <3>2
  <2> QED
    BY <2>2, <2>3, <2>4
<1> QED
  BY <1>5 DEF Model!EventsTell

LEMMA TellsHandles ==
    ASSUME Model!Shapes, Model!EventsTell, Model!HandleEvent \/ Model!HandleAnswer
    PROVE  Model!EventsTell'
<1>1. /\ \A i \in DOMAIN channel' : /\ i + 1 \in DOMAIN channel /\ channel'[i] = channel[i + 1]
                                    /\ Model!IsAnswer(i)' <=> Model!IsAnswer(i + 1)
      /\ \A i \in DOMAIN channel : i # 1 => i > 1 /\ i - 1 \in DOMAIN channel' /\ (i - 1) + 1 = i
      /\ \A i, j \in DOMAIN channel' : i < j <=> i + 1 < j + 1
      /\ 1 \in DOMAIN channel /\ Head(channel) = channel[1]
      /\ \A i \in DOMAIN channel : ~(i < 1)
  BY TakesFacts DEF Takes
<1>2. \A id \in Model!Ids : Model!Life(id)' = Model!Life(id)
  BY DEF Model!Life, Model!HandleEvent, Model!HandleAnswer, Model!chrome
<1>3. ASSUME NEW id \in Model!Ids
      PROVE  /\ \A i \in DOMAIN channel' : Model!IsAnswer(i)' /\ Model!Tells(channel'[i], id) =>
                   Model!LifeIn(channel'[i], id) = Model!Life(id)' \/ \E j \in DOMAIN channel' : j > i /\ Model!Resets(channel'[j], id)
             /\ \A a \in Model!Current' : Model!Tells(a, id) =>
                   Model!LifeIn(a, id) = Model!Life(id)' \/ \E j \in DOMAIN channel' : Model!Resets(channel'[j], id)
             /\ \A j \in DOMAIN channel' : Model!Resets(channel'[j], id) =>
                   /\ \A since \in Model!Life(id)' : since >= channel'[j].at
                   /\ \A i \in DOMAIN channel' : i > j /\ Model!IsAnswer(i)' /\ Model!Tells(channel'[i], id) =>
                          \A since \in Model!LifeIn(channel'[i], id) : since >= channel'[j].at
  <2>1. /\ \A i \in DOMAIN channel : Model!IsAnswer(i) /\ Model!Tells(channel[i], id) =>
               Model!LifeIn(channel[i], id) = Model!Life(id) \/ \E j \in DOMAIN channel : j > i /\ Model!Resets(channel[j], id)
        /\ \A a \in Model!Current : Model!Tells(a, id) =>
               Model!LifeIn(a, id) = Model!Life(id) \/ \E j \in DOMAIN channel : Model!Resets(channel[j], id)
        /\ \A j \in DOMAIN channel : Model!Resets(channel[j], id) =>
               /\ \A since \in Model!Life(id) : since >= channel[j].at
               /\ \A i \in DOMAIN channel : i > j /\ Model!IsAnswer(i) /\ Model!Tells(channel[i], id) =>
                      \A since \in Model!LifeIn(channel[i], id) : since >= channel[j].at
    BY DEF Model!EventsTell
  <2>2. \A j \in DOMAIN channel : j # 1 /\ Model!Resets(channel[j], id) =>
            \E k \in DOMAIN channel' : k + 1 = j /\ Model!Resets(channel'[k], id)
    <3> SUFFICES ASSUME NEW j \in DOMAIN channel, j # 1, Model!Resets(channel[j], id)
                 PROVE  \E k \in DOMAIN channel' : k + 1 = j /\ Model!Resets(channel'[k], id)
      OBVIOUS
    <3>1. j - 1 \in DOMAIN channel' /\ (j - 1) + 1 = j
      BY <1>1
    <3>2. channel'[j - 1] = channel[(j - 1) + 1]
      BY <1>1, <3>1
    <3> QED
      BY <3>1, <3>2
  <2>3. \A i \in DOMAIN channel' : Model!IsAnswer(i)' /\ Model!Tells(channel'[i], id) =>
            Model!LifeIn(channel'[i], id) = Model!Life(id)' \/ \E j \in DOMAIN channel' : j > i /\ Model!Resets(channel'[j], id)
    <3> SUFFICES ASSUME NEW i \in DOMAIN channel', Model!IsAnswer(i)', Model!Tells(channel'[i], id), Model!LifeIn(channel'[i], id) # Model!Life(id)'
                 PROVE  \E j \in DOMAIN channel' : j > i /\ Model!Resets(channel'[j], id)
      OBVIOUS
    <3>1. PICK j \in DOMAIN channel : j > i + 1 /\ Model!Resets(channel[j], id)
      BY <1>1, <1>2, <2>1
    <3>2. j # 1
      BY <1>1, <3>1
    <3>3. PICK k \in DOMAIN channel' : k + 1 = j /\ Model!Resets(channel'[k], id)
      BY <2>2, <3>1, <3>2
    <3>4. i < k
      BY <1>1, <3>1, <3>3
    <3> QED
      BY <3>3, <3>4
  <2>4. \A a \in Model!Current' : Model!Tells(a, id) =>
            Model!LifeIn(a, id) = Model!Life(id)' \/ \E j \in DOMAIN channel' : Model!Resets(channel'[j], id)
    <3>1. CASE Model!HandleEvent
      BY <3>1, HandlerAnswers
    <3>2. CASE Model!HandleAnswer
      <4>1. \A a \in Model!Current' : a \in Model!Current \/ (a = channel[1] /\ Model!IsAnswer(1))
        BY <3>2, HandlerAnswers
      <4>2. ~Model!Resets(channel[1], id)
        BY <1>1, <3>2, ResetsEvent DEF Model!HandleAnswer
      <4>3. \A a \in Model!Current' : Model!Tells(a, id) =>
                Model!LifeIn(a, id) = Model!Life(id) \/ \E j \in DOMAIN channel : Model!Resets(channel[j], id)
        BY <1>1, <2>1, <4>1
      <4> QED
        BY <1>2, <2>2, <4>2, <4>3
    <3> QED
      BY <3>1, <3>2
  <2>5. ASSUME NEW j \in DOMAIN channel', Model!Resets(channel'[j], id)
        PROVE  /\ \A since \in Model!Life(id)' : since >= channel'[j].at
               /\ \A i \in DOMAIN channel' : i > j /\ Model!IsAnswer(i)' /\ Model!Tells(channel'[i], id) =>
                      \A since \in Model!LifeIn(channel'[i], id) : since >= channel'[j].at
    <3>1. j + 1 \in DOMAIN channel /\ channel'[j] = channel[j + 1] /\ Model!Resets(channel[j + 1], id)
      BY <1>1, <2>5
    <3>2. \A i \in DOMAIN channel' : i > j => i + 1 > j + 1
      BY <1>1
    <3> QED
      BY <1>1, <1>2, <2>1, <3>1, <3>2
  <2> QED
    BY <2>3, <2>4, <2>5
<1> QED
  BY <1>3 DEF Model!EventsTell

-----------------------------------------------------------------------------
(* Keys, while no reconciliation takes effect *)

\* The one that has the key of an id is what Chrome and its answers tell of.
Holds(n, id) ==
    /\ n.id = id /\ n.key = keys[id]
    /\ Model!Life(id) = n.since \/ \E j \in DOMAIN channel : Model!Resets(channel[j], id)
    /\ \A i \in DOMAIN channel : Model!IsAnswer(i) /\ Model!Tells(channel[i], id) =>
           Model!LifeIn(channel[i], id) = n.since \/ \E j \in DOMAIN channel : j < i /\ Model!Resets(channel[j], id)
    /\ \A a \in Model!Current : Model!Tells(a, id) => Model!LifeIn(a, id) = n.since

LEMMA KeysHeld ==
    /\ Model!KeysAreRight <=> \A id \in Model!Ids : /\ id \in forceNewIds => keys[id] = {}
                                                    /\ keys[id] # {} => \E n \in named : Holds(n, id)
    /\ Model!KeysAreRight' <=> \A id \in Model!Ids : /\ id \in forceNewIds' => keys'[id] = {}
                                                     /\ keys'[id] # {} => \E n \in named' : Holds(n, id)'
  BY DEF Model!KeysAreRight, Holds

\* Nothing tells of what has lost its key.
Gone(n) ==
    /\ Model!Life(n.id) # n.since
    /\ \A i \in DOMAIN channel : Model!IsAnswer(i) /\ Model!Tells(channel[i], n.id) => Model!LifeIn(channel[i], n.id) # n.since
    /\ \A a \in Model!Current : Model!Tells(a, n.id) => Model!LifeIn(a, n.id) # n.since

LEMMA NamesGone ==
    /\ Model!GoneForGood <=> \A n \in named :
           /\ n.key # {} /\ \A k \in n.key : k < nextKey
           /\ n.since # {} /\ \A since \in n.since : since <= delivered
           /\ keys[n.id] = n.key \/ Gone(n)
    /\ Model!GoneForGood' <=> \A n \in named' :
           /\ n.key # {} /\ \A k \in n.key : k < nextKey'
           /\ n.since # {} /\ \A since \in n.since : since <= delivered'
           /\ keys'[n.id] = n.key \/ Gone(n)'
  BY DEF Model!GoneForGood, Gone

LEMMA NamedShape ==
    ASSUME Model!Shapes, NEW n \in named
    PROVE  /\ n.id \in Model!Ids
           /\ \A since \in n.since : since \in Nat
           /\ \A k \in n.key : k \in Nat
  BY DEF Model!Shapes

LEMMA KeysChanges ==
    ASSUME Model!Shapes, Model!ChromeFits, Model!KeysAreRight, Model!GoneForGood, NEW events \in Seq(Model!Events), ChromeChanges(events)
    PROVE  Model!KeysAreRight' /\ Model!GoneForGood'
<1>1. /\ Len(channel) \in Nat /\ DOMAIN channel = 1..Len(channel)
      /\ \A i \in DOMAIN channel : /\ i \in DOMAIN channel' /\ channel'[i] = channel[i]
                                   /\ Model!IsAnswer(i)' <=> Model!IsAnswer(i)
      /\ \A i \in DOMAIN channel' : i \notin DOMAIN channel => ~Model!IsAnswer(i)'
      /\ \A i \in DOMAIN events : Len(channel) + i \in DOMAIN channel' /\ channel'[Len(channel) + i] = events[i]
      /\ Model!Current' = Model!Current
  BY ChangeFacts
<1>2. \A id \in Model!Ids : \/ Model!Life(id)' = Model!Life(id) /\ \A i \in DOMAIN events : ~Model!Resets(events[i], id)
                            \/ Model!Life(id)' \subseteq {model_changes + 1} /\ \E i \in DOMAIN events : Model!Resets(events[i], id)
  BY DEF ChromeChanges
<1>3. UNCHANGED <<keys, forceNewIds, nextKey, named, delivered>>
  BY DEF ChromeChanges, Model!knowledge
<1>4. ASSUME NEW id \in Model!Ids, NEW n \in named, Holds(n, id)
      PROVE  Holds(n, id)'
  <2>1. Model!Life(id)' = n.since \/ \E j \in DOMAIN channel' : Model!Resets(channel'[j], id)
    <3>1. CASE Model!Life(id)' = Model!Life(id)
      BY <1>1, <1>4, <3>1 DEF Holds
    <3>2. CASE \E i \in DOMAIN events : Model!Resets(events[i], id)
      BY <1>1, <3>2
    <3> QED
      BY <1>2, <3>1, <3>2
  <2>2. \A i \in DOMAIN channel' : Model!IsAnswer(i)' /\ Model!Tells(channel'[i], id) =>
           Model!LifeIn(channel'[i], id) = n.since \/ \E j \in DOMAIN channel' : j < i /\ Model!Resets(channel'[j], id)
    BY <1>1, <1>4 DEF Holds
  <2> QED
    BY <1>1, <1>3, <1>4, <2>1, <2>2 DEF Holds
<1>5. Model!KeysAreRight'
  BY <1>3, <1>4, KeysHeld
<1>6. ASSUME NEW n \in named, Gone(n)
      PROVE  Gone(n)'
  <2>1. n.id \in Model!Ids /\ n.since # {} /\ \A since \in n.since : since \in Nat /\ since <= delivered
    BY NamesGone, NamedShape
  <2>2. Model!Life(n.id)' # n.since
    <3>1. CASE Model!Life(n.id)' = Model!Life(n.id)
      BY <1>6, <3>1 DEF Gone
    <3>2. CASE Model!Life(n.id)' \subseteq {model_changes + 1}
      BY <2>1, <3>2, ChannelFacts
    <3> QED
      BY <1>2, <2>1, <3>1, <3>2
  <2> QED
    BY <1>1, <1>6, <2>2 DEF Gone
<1>7. Model!GoneForGood'
  BY <1>3, <1>6, NamesGone
<1> QED
  BY <1>5, <1>7

LEMMA KeysAnswers ==
    ASSUME Model!Shapes, Model!KeysAreRight, Model!GoneForGood, NEW query, Answers(query)
    PROVE  Model!KeysAreRight' /\ Model!GoneForGood'
<1> DEFINE last == Len(channel) + 1
<1>1. /\ Len(channel) \in Nat /\ DOMAIN channel = 1..Len(channel)
      /\ last \in DOMAIN channel' /\ \A i \in DOMAIN channel : i < last
      /\ \A i \in DOMAIN channel : /\ i \in DOMAIN channel' /\ channel'[i] = channel[i]
                                   /\ Model!IsAnswer(i)' <=> Model!IsAnswer(i)
      /\ \A i \in DOMAIN channel' : i \notin DOMAIN channel => i = last
      /\ channel'[last].type = query /\ query \in {"windows", "tabs"}
      /\ channel'[last].value = IF query = "windows" THEN windows ELSE tabs
      /\ Model!Current' = Model!Current
  BY DEF Answers
<1>2. \A id : Model!Life(id)' = Model!Life(id)
  BY DEF Model!Life, Answers
<1>3. \A id \in Model!Ids : Model!Tells(channel'[last], id) => Model!LifeIn(channel'[last], id) = Model!Life(id)
  BY <1>1, AnswerTells
<1>4. UNCHANGED <<keys, forceNewIds, nextKey, named, delivered>>
  BY DEF Answers, Model!knowledge
<1> HIDE DEF last
<1>5. ASSUME NEW id \in Model!Ids, NEW n \in named, Holds(n, id)
      PROVE  Holds(n, id)'
  <2>1. Model!Life(id)' = n.since \/ \E j \in DOMAIN channel' : Model!Resets(channel'[j], id)
    BY <1>1, <1>2, <1>5 DEF Holds
  <2>2. \A i \in DOMAIN channel' : Model!IsAnswer(i)' /\ Model!Tells(channel'[i], id) =>
           Model!LifeIn(channel'[i], id) = n.since \/ \E j \in DOMAIN channel' : j < i /\ Model!Resets(channel'[j], id)
    BY <1>1, <1>3, <1>5 DEF Holds
  <2> QED
    BY <1>1, <1>4, <1>5, <2>1, <2>2 DEF Holds
<1>6. Model!KeysAreRight'
  BY <1>4, <1>5, KeysHeld
<1>7. ASSUME NEW n \in named, Gone(n)
      PROVE  Gone(n)'
  <2>1. n.id \in Model!Ids
    BY NamedShape
  <2> QED
    BY <1>1, <1>2, <1>3, <1>7, <2>1 DEF Gone
<1>8. Model!GoneForGood'
  BY <1>4, <1>7, NamesGone
<1> QED
  BY <1>6, <1>8

\* The first message has been handled: whoever still has its key is what the others
\* tell of, and who was gone is gone.
LEMMA KeysTaken ==
    ASSUME Model!Shapes, Model!KeysAreRight, Model!GoneForGood, Model!HandleEvent \/ Model!HandleAnswer
    PROVE  /\ \A id \in Model!Ids, n \in named : Holds(n, id) /\ ~Model!Resets(channel[1], id) /\ keys'[id] = keys[id] => Holds(n, id)'
           /\ \A n \in named : Gone(n) => Gone(n)'
<1>1. /\ \A i \in DOMAIN channel' : /\ i + 1 \in DOMAIN channel /\ channel'[i] = channel[i + 1]
                                    /\ Model!IsAnswer(i)' <=> Model!IsAnswer(i + 1)
      /\ \A i \in DOMAIN channel : i # 1 => i > 1 /\ i - 1 \in DOMAIN channel' /\ (i - 1) + 1 = i
      /\ \A i, j \in DOMAIN channel' : i < j <=> i + 1 < j + 1
      /\ 1 \in DOMAIN channel /\ \A i \in DOMAIN channel : ~(i < 1)
  BY TakesFacts DEF Takes
<1>2. \A id : Model!Life(id)' = Model!Life(id)
  BY DEF Model!Life, Model!HandleEvent, Model!HandleAnswer, Model!chrome
<1>3. \A a \in Model!Current' : a \in Model!Current \/ (a = channel[1] /\ Model!IsAnswer(1))
  BY HandlerAnswers
<1>4. ASSUME NEW id \in Model!Ids, NEW n \in named, Holds(n, id), ~Model!Resets(channel[1], id), keys'[id] = keys[id]
      PROVE  Holds(n, id)'
  <2>1. \A j \in DOMAIN channel : Model!Resets(channel[j], id) =>
            \E k \in DOMAIN channel' : k + 1 = j /\ Model!Resets(channel'[k], id)
    <3> SUFFICES ASSUME NEW j \in DOMAIN channel, Model!Resets(channel[j], id)
                 PROVE  \E k \in DOMAIN channel' : k + 1 = j /\ Model!Resets(channel'[k], id)
      OBVIOUS
    <3>1. j # 1
      BY <1>4
    <3>2. j - 1 \in DOMAIN channel' /\ (j - 1) + 1 = j
      BY <1>1, <3>1
    <3>3. channel'[j - 1] = channel[(j - 1) + 1]
      BY <1>1, <3>2
    <3> QED
      BY <3>2, <3>3
  <2>2. Model!Life(id)' = n.since \/ \E j \in DOMAIN channel' : Model!Resets(channel'[j], id)
    BY <1>2, <1>4, <2>1 DEF Holds
  <2>3. \A i \in DOMAIN channel' : Model!IsAnswer(i)' /\ Model!Tells(channel'[i], id) =>
           Model!LifeIn(channel'[i], id) = n.since \/ \E j \in DOMAIN channel' : j < i /\ Model!Resets(channel'[j], id)
    <3> SUFFICES ASSUME NEW i \in DOMAIN channel', Model!IsAnswer(i)', Model!Tells(channel'[i], id), Model!LifeIn(channel'[i], id) # n.since
                 PROVE  \E j \in DOMAIN channel' : j < i /\ Model!Resets(channel'[j], id)
      OBVIOUS
    <3>1. PICK j \in DOMAIN channel : j < i + 1 /\ Model!Resets(channel[j], id)
      BY <1>1, <1>4 DEF Holds
    <3>2. PICK k \in DOMAIN channel' : k + 1 = j /\ Model!Resets(channel'[k], id)
      BY <2>1, <3>1
    <3>3. k < i
      BY <1>1, <3>1, <3>2
    <3> QED
      BY <3>2, <3>3
  <2>4. \A a \in Model!Current' : Model!Tells(a, id) => Model!LifeIn(a, id) = n.since
    BY <1>1, <1>3, <1>4 DEF Holds
  <2> QED
    BY <1>4, <2>2, <2>3, <2>4 DEF Holds
<1>5. ASSUME NEW n \in named, Gone(n)
      PROVE  Gone(n)'
  BY <1>1, <1>2, <1>3, <1>5 DEF Gone
<1> QED
  BY <1>4, <1>5

LEMMA KeysHandleAnswer ==
    ASSUME Model!Shapes, Model!KeysAreRight, Model!GoneForGood, Model!HandleAnswer
    PROVE  Model!KeysAreRight' /\ Model!GoneForGood'
<1>1. UNCHANGED <<keys, forceNewIds, nextKey, named, delivered>>
  BY DEF Model!HandleAnswer, Model!knowledge
<1>2. \A id : ~Model!Resets(channel[1], id)
  BY TakesFacts, ResetsEvent DEF Model!HandleAnswer, Takes
<1>3. Model!KeysAreRight'
  BY <1>1, <1>2, KeysHeld, KeysTaken
<1>4. Model!GoneForGood'
  BY <1>1, NamesGone, KeysTaken
<1> QED
  BY <1>3, <1>4

LEMMA KeysHandleEvent ==
    ASSUME Model!Shapes, Model!ChannelInOrder, Model!EventsTell, Model!KeysAreRight, Model!GoneForGood, Model!HandleEvent
    PROVE  Model!KeysAreRight' /\ Model!GoneForGood'
<1>1. /\ Takes /\ UNCHANGED <<nextKey, named>> /\ channel[1] \in Model!Events /\ Model!IsEvent(1) /\ 1 \in DOMAIN channel
      /\ keys' = Model!KeysAfter(channel[1]) /\ delivered' = channel[1].at
      /\ forceNewIds' = IF channel[1].type \in {"created", "replaced"}
                        THEN forceNewIds \cup {channel[1].id} ELSE forceNewIds
  <2>1. Takes
    BY TakesFacts
  <2>2. Head(channel) = channel[1] /\ 1 \in DOMAIN channel
    BY <2>1 DEF Takes
  <2> QED
    BY <2>1, <2>2, ChannelFacts, MessageFacts DEF Model!HandleEvent, Model!knowledge, Model!IsEvent
<1>2. \A id \in Model!Ids : keys'[id] = IF Model!Resets(channel[1], id) THEN {} ELSE keys[id]
  BY <1>1 DEF Model!KeysAfter, Model!Resets
<1>3. delivered' \in delivered..model_changes /\ delivered \in Nat
  BY <1>1, ChannelFacts DEF Model!ChannelInOrder
<1>4. Model!KeysAreRight'
  <2>1. ASSUME NEW id \in Model!Ids, id \in forceNewIds'
        PROVE  keys'[id] = {}
    <3>1. CASE id \in forceNewIds
      BY <1>2, <3>1, KeysHeld
    <3>2. CASE id \notin forceNewIds
      <4>1. Model!Resets(channel[1], id)
        BY <1>1, <2>1, <3>2 DEF Model!Resets
      <4> QED
        BY <1>2, <4>1
    <3> QED
      BY <3>1, <3>2
  <2>2. ASSUME NEW id \in Model!Ids, keys'[id] # {}
        PROVE  \E n \in named' : Holds(n, id)'
    <3>1. keys'[id] = keys[id] /\ ~Model!Resets(channel[1], id)
      BY <1>2, <2>2
    <3>2. PICK n \in named : Holds(n, id)
      BY <2>2, <3>1, KeysHeld
    <3>3. Holds(n, id)'
      BY <3>1, <3>2, KeysTaken
    <3> QED
      BY <1>1, <3>3
  <2> QED
    BY <2>1, <2>2, KeysHeld
<1>5. Model!GoneForGood'
  <2>1. ASSUME NEW n \in named
        PROVE  /\ n.key # {} /\ \A k \in n.key : k < nextKey'
               /\ n.since # {} /\ \A since \in n.since : since <= delivered'
               /\ keys'[n.id] = n.key \/ Gone(n)'
    <3>1. /\ n.key # {} /\ \A k \in n.key : k < nextKey
          /\ n.since # {} /\ \A since \in n.since : since \in Nat /\ since <= delivered
          /\ keys[n.id] = n.key \/ Gone(n)
          /\ n.id \in Model!Ids
      BY NamesGone, NamedShape
    <3>2. \A since \in n.since : since <= delivered'
      BY <1>3, <3>1
    <3>3. keys'[n.id] = n.key \/ Gone(n)'
      <4>1. CASE Gone(n)
        BY <4>1, KeysTaken
      <4>2. CASE keys[n.id] = n.key /\ ~Model!Resets(channel[1], n.id)
        BY <1>2, <3>1, <4>2
      <4>3. CASE Model!Resets(channel[1], n.id)
        <5>1. channel[1].at > delivered /\ channel[1].at \in Nat
          BY <1>1, <1>3, <4>3, ResetsEvent DEF Model!ChannelInOrder
        <5>2. /\ \A since \in Model!Life(n.id) : since >= channel[1].at
              /\ \A i \in DOMAIN channel : i > 1 /\ Model!IsAnswer(i) /\ Model!Tells(channel[i], n.id) =>
                    \A since \in Model!LifeIn(channel[i], n.id) : since >= channel[1].at
          BY <1>1, <3>1, <4>3 DEF Model!EventsTell
        <5>3. \A S : (\A since \in S : since >= channel[1].at) => S # n.since
          BY <1>3, <3>1, <5>1
        <5>4. Model!Life(n.id)' = Model!Life(n.id)
          BY DEF Model!Life, Model!HandleEvent, Model!chrome
        <5>5. \A i \in DOMAIN channel' : Model!IsAnswer(i)' /\ Model!Tells(channel'[i], n.id) => Model!LifeIn(channel'[i], n.id) # n.since
          BY <1>1, <5>2, <5>3 DEF Takes
        <5>6. Model!Current' = {}
          BY HandlerAnswers
        <5> QED
          BY <5>2, <5>3, <5>4, <5>5, <5>6 DEF Gone
      <4> QED
        BY <3>1, <4>1, <4>2, <4>3
    <3> QED
      BY <1>1, <3>1, <3>2, <3>3
  <2> QED
    BY <1>1, <2>1, NamesGone
<1> QED
  BY <1>4, <1>5

-----------------------------------------------------------------------------
(* A reconciliation takes effect: it has read what Chrome had when the last event *)
(* that was delivered was sent.                                                   *)

\* What the two answers say of an id.
LifeRead(a, b, id) == IF id \in WindowIds THEN Model!LifeIn(a, id) ELSE Model!LifeIn(b, id)

LEMMA AnswersRead ==
    ASSUME Model!Shapes, Model!ChromeFits, Model!Apply, NEW a \in Model!WindowAnswers, NEW b \in Model!TabAnswers, Applies(a, b)
    PROVE  /\ a \in Model!Current /\ b \in Model!Current /\ a.at = delivered /\ b.at = delivered
           /\ a \in Model!WindowsAnswers /\ b \in Model!TabsAnswers
           /\ \A t \in TabIds : Model!AtMostOne(Model!LifeIn(b, t))
           /\ \A t \in TabIds : \A tab \in b.value[t] : a.value[tab.window] # {}
<1>1. Model!Read \in reading /\ Model!Read.windows = {a} /\ Model!Read.tabs = {b} /\ Model!Read.generation = eventGeneration
  BY TheReading DEF Model!Apply, Model!UpToDate, Model!AllRead, Applies
<1>2. a \in Model!Current /\ b \in Model!Current /\ a \in Model!WindowsAnswers /\ b \in Model!TabsAnswers
  BY <1>1, AnswersAre
<1>3. a.at = delivered /\ b.at = delivered
  BY <1>2 DEF Model!ChromeFits
<1>4. \A t \in TabIds : Model!AtMostOne(Model!LifeIn(b, t))
  BY <1>2, PresentFacts, IdFacts DEF Model!ChromeFits
<1> QED
  BY <1>2, <1>3, <1>4 DEF Model!ChromeFits

LEMMA ReadLives ==
    ASSUME Model!Shapes, Model!ChromeFits, Model!EventsTell, Model!KeysAreRight, Model!GoneForGood, Model!Apply,
           NEW a \in Model!WindowAnswers, NEW b \in Model!TabAnswers, Applies(a, b),
           NEW id \in Model!Ids
    PROVE  /\ id \in Present(a, b) <=> LifeRead(a, b, id) # {}
           /\ LifeRead(a, b, id) = Model!Life(id) \/ \E j \in DOMAIN channel : Model!Resets(channel[j], id)
           /\ \A since \in LifeRead(a, b, id) : since \in Nat /\ since <= delivered
           /\ \A n \in named : /\ Holds(n, id) => LifeRead(a, b, id) = n.since
                               /\ n.id = id /\ Gone(n) => LifeRead(a, b, id) # n.since
           /\ LifeRead(a, b, id) \in SUBSET Nat
<1>1. \E x \in {a, b} : /\ Model!Tells(x, id) /\ LifeRead(a, b, id) = Model!LifeIn(x, id)
                        /\ id \in Present(a, b) <=> Model!LifeIn(x, id) # {}
                        /\ Model!LifeIn(x, id) \in SUBSET Nat
  <2>1. CASE id \in WindowIds
    <3>1. a.value \in [WindowIds -> SUBSET Nat]
      BY DEF Model!WindowAnswers
    <3> QED
      BY <2>1, <3>1, PresentFacts DEF LifeRead
  <2>2. CASE id \in TabIds
    <3>1. b.value \in [TabIds -> SUBSET Model!Tabs]
      BY DEF Model!TabAnswers
    <3>2. \A tab \in b.value[id] : tab.since \in Nat
      BY <2>2, <3>1 DEF Model!Tabs
    <3>3. Model!LifeIn(b, id) = {tab.since : tab \in b.value[id]} /\ Model!Tells(b, id)
          /\ (id \in Present(a, b) <=> Model!LifeIn(b, id) # {})
      BY <2>2, PresentFacts
    <3>4. LifeRead(a, b, id) = Model!LifeIn(b, id)
      BY <2>2, IdFacts DEF LifeRead
    <3>5. Model!LifeIn(b, id) \in SUBSET Nat
      BY <3>2, <3>3
    <3> QED
      BY <3>3, <3>4, <3>5
  <2> QED
    BY <2>1, <2>2, IdFacts
<1>2. PICK x \in {a, b} : /\ Model!Tells(x, id) /\ LifeRead(a, b, id) = Model!LifeIn(x, id)
                          /\ id \in Present(a, b) <=> Model!LifeIn(x, id) # {}
                          /\ Model!LifeIn(x, id) \in SUBSET Nat
  BY <1>1
<1>3. x \in Model!Current /\ x \in Model!WindowsAnswers \cup Model!TabsAnswers /\ x.at = delivered
  BY AnswersRead
<1>4. Model!LifeIn(x, id) = Model!Life(id) \/ \E j \in DOMAIN channel : Model!Resets(channel[j], id)
  BY <1>2, <1>3 DEF Model!EventsTell
<1>5. \A since \in Model!LifeIn(x, id) : since \in Nat /\ since <= delivered
  BY <1>2, <1>3 DEF Model!ChromeFits
<1>6. \A n \in named : /\ Holds(n, id) => Model!LifeIn(x, id) = n.since
                       /\ n.id = id /\ Gone(n) => Model!LifeIn(x, id) # n.since
  BY <1>2, <1>3 DEF Holds, Gone
<1> QED
  BY <1>2, <1>4, <1>5, <1>6

\* The keys after a reconciliation: an id that is there has the key that it had, or
\* one that nobody had; the key of an id that is not there was taken away before.
LEMMA KeysRead ==
    ASSUME Model!Shapes, Model!ChromeFits, Model!EventsTell, Model!KeysAreRight, Model!GoneForGood, Model!Apply,
           NEW a \in Model!WindowAnswers, NEW b \in Model!TabAnswers, Applies(a, b)
    PROVE  /\ Present(a, b) \in SUBSET Model!Ids
           /\ nextKey' \in Nat /\ nextKey <= nextKey'
           /\ \A id \in Model!Ids : id \notin Present(a, b) => keys[id] = {} /\ keys'[id] = {}
           /\ \A id \in Present(a, b) : \/ keys[id] # {} /\ keys'[id] = keys[id]
                                        \/ /\ keys[id] = {} /\ keys'[id] # {}
                                           /\ \A k \in keys'[id] : k \in Nat /\ nextKey <= k /\ k < nextKey'
           /\ \A c, d \in Present(a, b) : keys[c] = {} /\ keys[d] = {} /\ keys'[c] = keys'[d] => c = d
<1> DEFINE ids == Present(a, b)
<1>1. ids \in SUBSET Model!Ids
  BY PresentFacts
<1>2. keys' = Model!Keyed(ids) /\ nextKey' = nextKey + Cardinality({id \in ids : Model!Keyed(ids)[id] # keys[id]})
  BY DEF Applies
<1>3. nextKey \in Nat
  BY DEF Model!Shapes
<1>4. \A id \in Model!Ids : id \notin ids => keys[id] = {}
  <2> SUFFICES ASSUME NEW id \in Model!Ids, id \notin ids, keys[id] # {}
               PROVE  FALSE
    OBVIOUS
  <2>1. PICK n \in named : Holds(n, id)
    BY KeysHeld
  <2>2. LifeRead(a, b, id) = n.since /\ LifeRead(a, b, id) = {}
    BY <2>1, ReadLives
  <2> QED
    BY <2>2, NamesGone
<1> HIDE DEF ids
<1>5. /\ Cardinality(New(ids)) \in Nat
      /\ \A id \in Model!Ids : id \notin ids => Model!Keyed(ids)[id] = {}
      /\ \A id \in ids : id \notin New(ids) =>
             Model!Keyed(ids)[id] = keys[id] /\ keys[id] # {} /\ id \notin forceNewIds
      /\ \A id \in New(ids) :
             /\ id \in ids /\ (keys[id] = {} \/ id \in forceNewIds)
             /\ \E k \in Nat : Model!Keyed(ids)[id] = {k} /\ k >= nextKey /\ k < nextKey + Cardinality(New(ids))
      /\ \A c, d \in New(ids) : Model!Keyed(ids)[c] = Model!Keyed(ids)[d] => c = d
  BY <1>1, KeyedFacts
<1>6. \A id \in New(ids) : keys[id] = {}
  BY <1>1, <1>5, KeysHeld
<1>7. {id \in ids : Model!Keyed(ids)[id] # keys[id]} = New(ids)
  <2>1. \A id \in New(ids) : Model!Keyed(ids)[id] # {}
    BY <1>5
  <2>2. \A id \in New(ids) : id \in ids /\ Model!Keyed(ids)[id] # keys[id]
    BY <1>5, <1>6, <2>1
  <2>3. \A id \in ids : Model!Keyed(ids)[id] # keys[id] => id \in New(ids)
    BY <1>5
  <2> QED
    BY <2>2, <2>3
<1>8. nextKey' = nextKey + Cardinality(New(ids))
  BY <1>2, <1>7
<1>9. nextKey' \in Nat /\ nextKey <= nextKey'
  BY <1>3, <1>5, <1>8
<1>10. \A id \in ids : \/ keys[id] # {} /\ keys'[id] = keys[id]
                       \/ /\ keys[id] = {} /\ keys'[id] # {}
                          /\ \A k \in keys'[id] : k \in Nat /\ nextKey <= k /\ k < nextKey'
  <2> SUFFICES ASSUME NEW id \in ids
               PROVE  \/ keys[id] # {} /\ keys'[id] = keys[id]
                      \/ /\ keys[id] = {} /\ keys'[id] # {}
                         /\ \A k \in keys'[id] : k \in Nat /\ nextKey <= k /\ k < nextKey'
    OBVIOUS
  <2>1. CASE id \in New(ids)
    <3>0. keys'[id] = Model!Keyed(ids)[id]
      BY <1>2
    <3>1. PICK k \in Nat : keys'[id] = {k} /\ k >= nextKey /\ k < nextKey'
      BY <1>5, <1>8, <2>1, <3>0
    <3>2. keys'[id] # {} /\ \A m \in keys'[id] : m \in Nat /\ nextKey <= m /\ m < nextKey'
      BY <1>3, <3>1
    <3> QED
      BY <1>6, <2>1, <3>2
  <2>2. CASE id \notin New(ids)
    BY <1>2, <1>5, <2>2
  <2> QED
    BY <2>1, <2>2
<1>11. \A c, d \in ids : keys[c] = {} /\ keys[d] = {} /\ keys'[c] = keys'[d] => c = d
  <2>1. \A c \in ids : keys[c] = {} => c \in New(ids)
    BY <1>5
  <2> QED
    BY <1>2, <1>5, <2>1
<1>12. \A id \in Model!Ids : id \notin ids => keys'[id] = {}
  BY <1>2, <1>5
<1> QED
  BY <1>1, <1>4, <1>9, <1>10, <1>11, <1>12 DEF ids

LEMMA NamedRead ==
    ASSUME Model!Shapes, Model!ChromeFits, Model!Apply, NEW a \in Model!WindowAnswers, NEW b \in Model!TabAnswers, Applies(a, b)
    PROVE  /\ \A n \in named' : n \in named \/ \E id \in Present(a, b) : n = [id |-> id, since |-> LifeRead(a, b, id), key |-> keys'[id]]
           /\ \A n \in named : n \in named'
           /\ \A id \in Present(a, b) : [id |-> id, since |-> LifeRead(a, b, id), key |-> keys'[id]] \in named'
<1>1. \A t \in TabIds : Model!AtMostOne(Model!LifeIn(b, t))
  BY AnswersRead
<1>2. {[id |-> o.id, since |-> o.since, key |-> o.key] : o \in Content(a, b).windows \cup Content(a, b).tabs}
      = {Named(a, b, id) : id \in Present(a, b)}
  BY <1>1, NamedFacts
<1>3. named' = named \cup {Named(a, b, id) : id \in Present(a, b)} /\ keys' = Model!Keyed(Present(a, b))
  BY <1>2 DEF Applies
<1>4. \A id : Named(a, b, id) = [id |-> id, since |-> LifeRead(a, b, id), key |-> keys'[id]]
  BY <1>3 DEF Named, LifeRead
<1> HIDE DEF Named
<1> QED
  BY <1>3, <1>4

LEMMA ShapesApply ==
    ASSUME Model!Shapes, Model!ChromeFits, Model!EventsTell, Model!KeysAreRight, Model!GoneForGood, Model!Apply
    PROVE  Model!Shapes'
<1>1. PICK a \in Model!WindowAnswers, b \in Model!TabAnswers : Applies(a, b)
  BY ApplyFacts
<1>2. UNCHANGED <<windows, tabs, model_changes, channel, queries, eventGeneration, delivered, model_failures>>
      /\ reading' = {} /\ reconciledGeneration' = eventGeneration
  BY <1>1 DEF Applies
<1>3. Present(a, b) \in SUBSET Model!Ids /\ nextKey' \in Nat
  BY <1>1, KeysRead
<1>4. keys' \in [Model!Ids -> SUBSET Nat] /\ \A id \in Model!Ids : Model!AtMostOne(keys'[id])
  <2>1. keys' = Model!Keyed(Present(a, b))
    BY <1>1 DEF Applies
  <2>2. \A id \in Model!Ids : Model!AtMostOne(keys'[id])
    <3> SUFFICES ASSUME NEW id \in Model!Ids
                 PROVE  Model!AtMostOne(keys'[id])
      OBVIOUS
    <3>1. Model!AtMostOne(keys[id])
      BY DEF Model!Shapes
    <3>2. keys'[id] = {} \/ keys'[id] = keys[id] \/ \E k \in Nat : keys'[id] = {k}
      BY <1>3, <2>1, KeyedFacts
    <3> QED
      BY <3>1, <3>2 DEF Model!AtMostOne
  <2> QED
    BY <1>3, <2>1, <2>2, KeyedFacts
<1>5. forceNewIds' \subseteq Model!Ids
  BY <1>1 DEF Applies, Model!Shapes
<1>6. modelRevision' \in Nat /\ modelRevision' # 0 /\ records' # {} /\ Model!AtMostOne(records')
  <2>1. modelRevision' = Model!NextRevision(Content(a, b))
        /\ records' = {[content |-> Content(a, b), windowsAt |-> a.at, tabsAt |-> b.at]}
    BY <1>1 DEF Applies
  <2>2. modelRevision \in Nat /\ (modelRevision = 0 <=> records = {})
    BY DEF Model!Shapes
  <2>3. modelRevision' \in Nat /\ modelRevision' # 0
    <3>1. CASE \E r \in records : r.content = Content(a, b)
      BY <2>1, <2>2, <3>1 DEF Model!NextRevision
    <3>2. CASE ~\E r \in records : r.content = Content(a, b)
      BY <2>1, <2>2, <3>2 DEF Model!NextRevision
    <3> QED
      BY <3>1, <3>2
  <2>4. records' # {} /\ Model!AtMostOne(records')
    BY <2>1 DEF Model!AtMostOne
  <2> QED
    BY <2>3, <2>4
<1>7. support' \in BOOLEAN
  <2>1. support' = (support \/ (Frozen /\ Content(a, b).tabs # {}))
    BY <1>1 DEF Applies
  <2> QED
    BY <2>1, ZenonT(30) DEF Model!Shapes
<1>8. named' \subseteq [id : Model!Ids, since : SUBSET Nat, key : SUBSET Nat]
  <2>1. named \subseteq [id : Model!Ids, since : SUBSET Nat, key : SUBSET Nat]
    BY DEF Model!Shapes
  <2>2. \A id \in Present(a, b) : /\ id \in Model!Ids /\ LifeRead(a, b, id) \in SUBSET Nat
                                  /\ keys'[id] \in SUBSET Nat
    BY <1>1, <1>3, <1>4, ReadLives
  <2>3. \A n \in named' : n \in named \/ \E id \in Present(a, b) : n = [id |-> id, since |-> LifeRead(a, b, id), key |-> keys'[id]]
    BY <1>1, NamedRead
  <2> QED
    BY <2>1, <2>2, <2>3
<1>9. /\ model_callers' = [c \in ModelCallers |-> [at |-> model_callers'[c].at, asked |-> model_callers'[c].asked,
                                        given |-> model_callers'[c].given]]
      /\ \A c \in ModelCallers : model_callers'[c].asked \in 0..delivered
  <2>1. /\ model_callers' = [c \in ModelCallers |-> IF model_callers[c].at = "waiting"
                                         THEN [model_callers[c] EXCEPT !.at = "done", !.given = records']
                                         ELSE model_callers[c]]
        /\ model_callers = [c \in ModelCallers |-> [at |-> model_callers[c].at, asked |-> model_callers[c].asked,
                                         given |-> model_callers[c].given]]
        /\ \A c \in ModelCallers : model_callers[c].asked \in 0..delivered
    BY <1>1 DEF Applies, Model!Shapes
  <2>2. ASSUME NEW c \in ModelCallers
        PROVE  /\ model_callers'[c] = [at |-> model_callers'[c].at, asked |-> model_callers'[c].asked, given |-> model_callers'[c].given]
               /\ model_callers'[c].asked = model_callers[c].asked
    <3>1. model_callers[c] = [at |-> model_callers[c].at, asked |-> model_callers[c].asked, given |-> model_callers[c].given]
      BY <2>1
    <3>2. model_callers'[c] = IF model_callers[c].at = "waiting"
                        THEN [model_callers[c] EXCEPT !.at = "done", !.given = records'] ELSE model_callers[c]
      BY <2>1
    <3> QED
      BY <3>1, <3>2
  <2> QED
    BY <2>1, <2>2
<1>10. reconciledGeneration' \in -1..eventGeneration'
  BY <1>2 DEF Model!Shapes
<1> QED
  BY <1>2, <1>3, <1>4, <1>5, <1>6, <1>7, <1>8, <1>9, <1>10 DEF Model!Shapes, Model!AtMostOne

LEMMA KeysApply ==
    ASSUME Model!Shapes, Model!OneAnswerEach, Model!ChromeFits, Model!EventsTell, Model!KeysAreRight, Model!GoneForGood, Model!Apply
    PROVE  Model!KeysAreRight' /\ Model!GoneForGood'
<1>1. PICK a \in Model!WindowAnswers, b \in Model!TabAnswers : Applies(a, b)
  BY ApplyFacts
<1>2. UNCHANGED <<windows, tabs, channel, delivered>> /\ Model!Current' = {} /\ \A i \in DOMAIN channel : ~Model!IsAnswer(i)
  <2>1. UNCHANGED <<windows, tabs, channel, delivered>> /\ reading' = {}
    BY <1>1 DEF Applies
  <2>2. NoAnswers
    BY AllAnswered DEF Model!Apply, Model!UpToDate
  <2> QED
    BY <2>1, <2>2 DEF NoAnswers, Model!Current
<1>3. \A id : Model!Life(id)' = Model!Life(id)
  BY <1>2 DEF Model!Life
<1>4. \A i \in DOMAIN channel' : ~Model!IsAnswer(i)'
  BY <1>2 DEF Model!IsAnswer
<1>5. /\ Present(a, b) \in SUBSET Model!Ids
      /\ nextKey' \in Nat /\ nextKey <= nextKey' /\ nextKey \in Nat
      /\ \A id \in Model!Ids : id \notin Present(a, b) => keys[id] = {} /\ keys'[id] = {}
      /\ \A id \in Present(a, b) : \/ keys[id] # {} /\ keys'[id] = keys[id]
                                   \/ /\ keys[id] = {} /\ keys'[id] # {}
                                      /\ \A k \in keys'[id] : k \in Nat /\ nextKey <= k /\ k < nextKey'
  BY <1>1, KeysRead DEF Model!Shapes
<1>6. \A id \in Present(a, b) :
         /\ LifeRead(a, b, id) # {} /\ \A since \in LifeRead(a, b, id) : since <= delivered
         /\ LifeRead(a, b, id) = Model!Life(id) \/ \E j \in DOMAIN channel : Model!Resets(channel[j], id)
         /\ [id |-> id, since |-> LifeRead(a, b, id), key |-> keys'[id]] \in named'
  BY <1>1, <1>5, ReadLives, NamedRead
<1>7. Model!KeysAreRight'
  <2>1. ASSUME NEW id \in Model!Ids, id \in forceNewIds'
        PROVE  keys'[id] = {}
    <3>1. id \notin Present(a, b)
      BY <1>1, <2>1 DEF Applies
    <3> QED
      BY <1>5, <3>1
  <2>2. ASSUME NEW id \in Model!Ids, keys'[id] # {}
        PROVE  \E n \in named' : Holds(n, id)'
    <3> DEFINE n == [id |-> id, since |-> LifeRead(a, b, id), key |-> keys'[id]]
    <3>1. id \in Present(a, b)
      BY <1>5, <2>2
    <3>2. n \in named' /\ n.id = id /\ n.key = keys'[id] /\ n.since = LifeRead(a, b, id)
      BY <1>6, <3>1
    <3> HIDE DEF n
    <3>3. PICK m \in named' : m.id = id /\ m.key = keys'[id] /\ m.since = LifeRead(a, b, id)
      BY <3>2
    <3>4. Model!Life(id)' = m.since \/ \E j \in DOMAIN channel' : Model!Resets(channel'[j], id)
      BY <1>2, <1>3, <1>6, <3>1, <3>3
    <3>5. Holds(m, id)'
      BY <1>2, <1>4, <3>3, <3>4 DEF Holds
    <3> QED
      BY <3>5
  <2> QED
    BY <2>1, <2>2, KeysHeld
<1>8. Model!GoneForGood'
  <2>1. ASSUME NEW n \in named'
        PROVE  /\ n.key # {} /\ \A k \in n.key : k < nextKey'
               /\ n.since # {} /\ \A since \in n.since : since <= delivered'
               /\ keys'[n.id] = n.key \/ Gone(n)'
    <3>1. CASE n \in named
      <4>1. /\ n.key # {} /\ \A k \in n.key : k < nextKey
            /\ n.since # {} /\ \A since \in n.since : since <= delivered
            /\ keys[n.id] = n.key \/ Gone(n)
            /\ n.id \in Model!Ids /\ \A k \in n.key : k \in Nat
        BY <3>1, NamesGone, NamedShape
      <4>2. \A k \in n.key : k < nextKey'
        BY <1>5, <4>1
      <4>3. CASE Gone(n)
        <5>1. Gone(n)'
          BY <1>2, <1>3, <1>4, <4>3 DEF Gone
        <5> QED
          BY <1>2, <4>1, <4>2, <5>1
      <4>4. CASE keys[n.id] = n.key
        <5>1. keys'[n.id] = n.key
          BY <1>5, <4>1, <4>4
        <5> QED
          BY <1>2, <4>1, <4>2, <5>1
      <4> QED
        BY <4>1, <4>3, <4>4
    <3>2. CASE \E id \in Present(a, b) : n = [id |-> id, since |-> LifeRead(a, b, id), key |-> keys'[id]]
      <4>1. PICK id \in Present(a, b) : n = [id |-> id, since |-> LifeRead(a, b, id), key |-> keys'[id]]
        BY <3>2
      <4>2. n.id = id /\ n.since = LifeRead(a, b, id) /\ n.key = keys'[id] /\ id \in Model!Ids
        BY <1>5, <4>1
      <4>3. n.key # {} /\ \A k \in n.key : k < nextKey'
        <5>1. CASE keys[id] # {} /\ keys'[id] = keys[id]
          <6>1. PICK m \in named : m.key = keys[id]
            BY <4>2, <5>1, KeysHeld DEF Holds
          <6>2. \A k \in m.key : k \in Nat /\ k < nextKey
            BY <6>1, NamesGone, NamedShape
          <6> QED
            BY <1>5, <4>2, <5>1, <6>1, <6>2
        <5>2. CASE keys'[id] # {} /\ \A k \in keys'[id] : k < nextKey'
          BY <4>2, <5>2
        <5> QED
          BY <1>5, <5>1, <5>2
      <4> QED
        BY <1>2, <1>6, <4>2, <4>3
    <3> QED
      BY <1>1, <3>1, <3>2, NamedRead
  <2> QED
    BY <2>1, NamesGone
<1> QED
  BY <1>7, <1>8

\* Keys and lives go together.
LEMMA FollowApply ==
    ASSUME Model!Shapes, Model!ChromeFits, Model!EventsTell, Model!KeysAreRight, Model!GoneForGood, Model!KeysFollowLives, Model!Apply
    PROVE  Model!KeysFollowLives'
<1>1. PICK a \in Model!WindowAnswers, b \in Model!TabAnswers : Applies(a, b)
  BY ApplyFacts
<1>2. /\ Present(a, b) \in SUBSET Model!Ids /\ nextKey \in Nat
      /\ \A id \in Present(a, b) : \/ keys[id] # {} /\ keys'[id] = keys[id]
                                   \/ /\ keys[id] = {} /\ keys'[id] # {}
                                      /\ \A k \in keys'[id] : k \in Nat /\ nextKey <= k
      /\ \A c, d \in Present(a, b) : keys[c] = {} /\ keys[d] = {} /\ keys'[c] = keys'[d] => c = d
  BY <1>1, KeysRead DEF Model!Shapes
\* Of an id that is there: it is one that has been named, with its key, or its key is
\* new and nobody of its life has been named.
<1>3. ASSUME NEW id \in Present(a, b)
      PROVE  \/ \E n \in named : n.id = id /\ n.since = LifeRead(a, b, id) /\ n.key = keys'[id]
             \/ /\ keys[id] = {}
                /\ \A n \in named : n.key # keys'[id] /\ ~(n.id = id /\ n.since = LifeRead(a, b, id))
  <2>0. id \in Model!Ids
    BY <1>2
  <2>1. CASE keys[id] # {} /\ keys'[id] = keys[id]
    <3>1. PICK n \in named : Holds(n, id)
      BY <2>0, <2>1, KeysHeld
    <3>2. LifeRead(a, b, id) = n.since
      BY <1>1, <2>0, <3>1, ReadLives
    <3> QED
      BY <2>1, <3>1, <3>2 DEF Holds
  <2>2. CASE keys[id] = {} /\ keys'[id] # {} /\ \A k \in keys'[id] : k \in Nat /\ nextKey <= k
    <3>1. ASSUME NEW n \in named
          PROVE  n.key # keys'[id] /\ ~(n.id = id /\ n.since = LifeRead(a, b, id))
      <4>1. n.key # {} /\ \A k \in n.key : k \in Nat /\ k < nextKey
        BY NamesGone, NamedShape
      <4>2. n.key # keys'[id]
        BY <1>2, <2>2, <4>1
      <4>3. n.id = id => Gone(n)
        BY <2>2, <4>1, NamesGone
      <4> QED
        BY <1>1, <2>0, <4>2, <4>3, ReadLives
    <3> QED
      BY <2>2, <3>1
  <2> QED
    BY <1>2, <2>1, <2>2
<1>4. \A m, n \in named : m.key = n.key <=> m.id = n.id /\ m.since = n.since
  BY DEF Model!KeysFollowLives
<1>5. \A n \in named' : \/ \E m \in named : n.id = m.id /\ n.since = m.since /\ n.key = m.key
                        \/ /\ n.id \in Present(a, b) /\ keys[n.id] = {} /\ n.key = keys'[n.id]
                           /\ n.since = LifeRead(a, b, n.id)
                           /\ \A m \in named : m.key # n.key /\ ~(m.id = n.id /\ m.since = n.since)
  <2> SUFFICES ASSUME NEW n \in named', n \notin named
               PROVE  \/ \E m \in named : n.id = m.id /\ n.since = m.since /\ n.key = m.key
                      \/ /\ n.id \in Present(a, b) /\ keys[n.id] = {} /\ n.key = keys'[n.id]
                         /\ n.since = LifeRead(a, b, n.id)
                         /\ \A m \in named : m.key # n.key /\ ~(m.id = n.id /\ m.since = n.since)
    OBVIOUS
  <2>1. PICK id \in Present(a, b) : n = [id |-> id, since |-> LifeRead(a, b, id), key |-> keys'[id]]
    BY <1>1, NamedRead
  <2>2. n.id = id /\ n.since = LifeRead(a, b, id) /\ n.key = keys'[id]
    BY <2>1
  <2> QED
    BY <1>3, <2>2
<1>6. ASSUME NEW m \in named', NEW n \in named'
      PROVE  m.key = n.key <=> m.id = n.id /\ m.since = n.since
  <2>1. CASE (\E x \in named : m.id = x.id /\ m.since = x.since /\ m.key = x.key)
             /\ (\E x \in named : n.id = x.id /\ n.since = x.since /\ n.key = x.key)
    BY <1>4, <2>1
  <2>2. CASE (\E x \in named : m.id = x.id /\ m.since = x.since /\ m.key = x.key)
             /\ (\A x \in named : x.key # n.key /\ ~(x.id = n.id /\ x.since = n.since))
    BY <2>2
  <2>3. CASE (\E x \in named : n.id = x.id /\ n.since = x.since /\ n.key = x.key)
             /\ (\A x \in named : x.key # m.key /\ ~(x.id = m.id /\ x.since = m.since))
    BY <2>3
  <2>4. CASE /\ m.id \in Present(a, b) /\ keys[m.id] = {} /\ m.key = keys'[m.id] /\ m.since = LifeRead(a, b, m.id)
             /\ n.id \in Present(a, b) /\ keys[n.id] = {} /\ n.key = keys'[n.id] /\ n.since = LifeRead(a, b, n.id)
    BY <1>2, <2>4
  <2> QED
    BY <1>5, <2>1, <2>2, <2>3, <2>4
<1> QED
  BY <1>6 DEF Model!KeysFollowLives

\* The records are of the moment when the last event was sent that was delivered.
LEMMA RecordsApply ==
    ASSUME Model!Shapes, Model!ChromeFits, Model!Apply
    PROVE  Model!RecordsOfOneMoment' /\ \A r \in records' : r.tabsAt = delivered
<1>1. PICK a \in Model!WindowAnswers, b \in Model!TabAnswers : Applies(a, b)
  BY ApplyFacts
<1>2. /\ a.at = delivered /\ b.at = delivered
      /\ \A t \in TabIds : \A tab \in b.value[t] : a.value[tab.window] # {}
  BY <1>1, AnswersRead
<1> DEFINE keyed == Model!Keyed(Present(a, b))
           WindowNow(w) == [key |-> keyed[w], id |-> w, since |-> a.value[w]]
           TabNow(t, tab) == [key |-> keyed[t], id |-> t, since |-> {tab.since}, windowKey |-> keyed[tab.window]]
           record == [content |-> Content(a, b), windowsAt |-> a.at, tabsAt |-> b.at]
<1>3. /\ Content(a, b).windows = {WindowNow(w) : w \in {x \in WindowIds : a.value[x] # {}}}
      /\ Content(a, b).tabs = UNION {{TabNow(t, tab) : tab \in b.value[t]} : t \in TabIds}
  BY DEF Content, Model!Normalized
<1>4. records' = {record} /\ record.content = Content(a, b) /\ record.windowsAt = a.at /\ record.tabsAt = b.at
  BY <1>1 DEF Applies
<1>5. \A o \in Content(a, b).tabs : \E w \in Content(a, b).windows : o.windowKey = w.key
  <2> SUFFICES ASSUME NEW o \in Content(a, b).tabs
               PROVE  \E w \in Content(a, b).windows : o.windowKey = w.key
    OBVIOUS
  <2>1. PICK t \in TabIds : \E tab \in b.value[t] : o = TabNow(t, tab)
    BY <1>3
  <2>2. PICK tab \in b.value[t] : o = TabNow(t, tab)
    BY <2>1
  <2>3. tab.window \in WindowIds
    BY DEF Model!TabAnswers, Model!Tabs
  <2>4. a.value[tab.window] # {}
    BY <1>2
  <2>5. WindowNow(tab.window) \in Content(a, b).windows
    BY <1>3, <2>3, <2>4
  <2>6. o.windowKey = WindowNow(tab.window).key
    BY <2>2
  <2> QED
    BY <2>5, <2>6
<1> HIDE DEF record, WindowNow, TabNow, keyed
<1>6. \A r \in records' : /\ r.windowsAt = r.tabsAt /\ r.tabsAt = delivered
                          /\ \A o \in r.content.tabs : \E w \in r.content.windows : o.windowKey = w.key
  BY <1>2, <1>4, <1>5
<1> QED
  BY <1>6 DEF Model!RecordsOfOneMoment

-----------------------------------------------------------------------------
(* What is given to the callers, and the whole invariant *)

LEMMA StaleApply ==
    ASSUME Model!Shapes, Model!ChromeFits, Model!NeverStale, Model!Apply
    PROVE  Model!NeverStale'
<1>1. model_callers' = [c \in ModelCallers |-> IF model_callers[c].at = "waiting"
                                    THEN [model_callers[c] EXCEPT !.at = "done", !.given = records']
                                    ELSE model_callers[c]]
  BY DEF Model!Apply
<1>2. /\ \A r \in records' : r.tabsAt = delivered
      /\ delivered \in Nat /\ \A c \in ModelCallers : model_callers[c].asked \in 0..delivered
  BY RecordsApply, ChannelFacts DEF Model!Shapes
<1>3. ASSUME NEW c \in ModelCallers, NEW r \in model_callers'[c].given
      PROVE  r.tabsAt >= model_callers'[c].asked
  <2>1. model_callers[c] = [at |-> model_callers[c].at, asked |-> model_callers[c].asked, given |-> model_callers[c].given]
    BY DEF Model!Shapes
  <2>2. CASE model_callers[c].at = "waiting"
    <3>1. model_callers'[c] = [model_callers[c] EXCEPT !.at = "done", !.given = records']
      BY <1>1, <2>2
    <3>2. model_callers'[c].given = records' /\ model_callers'[c].asked = model_callers[c].asked
      BY <2>1, <3>1
    <3> QED
      BY <1>2, <1>3, <3>2
  <2>3. CASE model_callers[c].at # "waiting"
    <3>1. model_callers'[c] = model_callers[c]
      BY <1>1, <2>3
    <3> QED
      BY <1>3, <3>1 DEF Model!NeverStale
  <2> QED
    BY <2>2, <2>3
<1> QED
  BY <1>3 DEF Model!NeverStale

LEMMA StaleReadFails ==
    ASSUME Model!Shapes, Model!NeverStale, Model!ReadFails
    PROVE  Model!NeverStale'
<1>1. model_callers' = [c \in ModelCallers |-> IF model_callers[c].at = "waiting" THEN [model_callers[c] EXCEPT !.at = "failed"]
                                    ELSE model_callers[c]]
  BY DEF Model!ReadFails
<1>2. \A c \in ModelCallers : model_callers'[c].given = model_callers[c].given /\ model_callers'[c].asked = model_callers[c].asked
  <2> SUFFICES ASSUME NEW c \in ModelCallers
               PROVE  model_callers'[c].given = model_callers[c].given /\ model_callers'[c].asked = model_callers[c].asked
    OBVIOUS
  <2>1. model_callers[c] = [at |-> model_callers[c].at, asked |-> model_callers[c].asked, given |-> model_callers[c].given]
    BY DEF Model!Shapes
  <2>2. model_callers'[c] = IF model_callers[c].at = "waiting" THEN [model_callers[c] EXCEPT !.at = "failed"] ELSE model_callers[c]
    BY <1>1
  <2> QED
    BY <2>1, <2>2
<1> QED
  BY <1>2 DEF Model!NeverStale

LEMMA StaleCall ==
    ASSUME Model!Shapes, Model!RecordsAreCurrent, Model!NeverStale, NEW c \in ModelCallers, Model!Call(c)
    PROVE  Model!NeverStale'
<1>1. \/ /\ reconciledGeneration = eventGeneration
         /\ model_callers' = [model_callers EXCEPT ![c] = [at |-> "done", asked |-> delivered, given |-> records]]
      \/ model_callers' = [model_callers EXCEPT ![c] = [at |-> "waiting", asked |-> delivered, given |-> {}]]
  BY DEF Model!Call
<1>2. model_callers = [d \in ModelCallers |-> [at |-> model_callers[d].at, asked |-> model_callers[d].asked,
                                    given |-> model_callers[d].given]]
  BY DEF Model!Shapes
<1>3. ASSUME NEW d \in ModelCallers, NEW r \in model_callers'[d].given
      PROVE  r.tabsAt >= model_callers'[d].asked
  <2>1. CASE d # c
    <3>1. model_callers'[d] = model_callers[d]
      BY <1>1, <1>2, <2>1
    <3> QED
      BY <1>3, <3>1 DEF Model!NeverStale
  <2>2. CASE d = c
    <3>1. CASE reconciledGeneration = eventGeneration /\ model_callers'[c] = [at |-> "done", asked |-> delivered, given |-> records]
      <4>1. \A x \in records : x.tabsAt = delivered
        BY <3>1 DEF Model!RecordsAreCurrent
      <4> QED
        BY <1>3, <2>2, <3>1, <4>1, ChannelFacts
    <3>2. CASE model_callers'[c] = [at |-> "waiting", asked |-> delivered, given |-> {}]
      BY <1>3, <2>2, <3>2
    <3> QED
      BY <1>1, <1>2, <3>1, <3>2
  <2> QED
    BY <2>1, <2>2
<1> QED
  BY <1>3 DEF Model!NeverStale

\* What leaves the records, the keys that were given and the callers alone.
LEMMA KnowledgeKept ==
    ASSUME Model!RecordsOfOneMoment, Model!KeysFollowLives, UNCHANGED Model!knowledge
    PROVE  /\ Model!RecordsOfOneMoment' /\ Model!KeysFollowLives'
           /\ Model!NeverStale /\ UNCHANGED model_callers => Model!NeverStale'
           /\ Model!RecordsAreCurrent /\ UNCHANGED <<eventGeneration, delivered>> => Model!RecordsAreCurrent'
<1>1. UNCHANGED <<records, named, reconciledGeneration>>
  BY DEF Model!knowledge
<1> QED
  BY <1>1 DEF Model!RecordsOfOneMoment, Model!KeysFollowLives, Model!NeverStale, Model!RecordsAreCurrent

LEMMA StepChrome ==
    ASSUME Model!IInv, Model!Chrome
    PROVE  Model!IInv'
<1>1. PICK events \in Seq(Model!Events) : ChromeChanges(events)
  BY ChromeFacts DEF Model!IInv
<1>2. UNCHANGED <<Model!knowledge, model_callers, eventGeneration, delivered>>
  BY <1>1 DEF ChromeChanges
<1>3. Model!Shapes' /\ Model!OneAnswerEach' /\ Model!ChannelInOrder'
  BY <1>1, ShapesChrome, OneChanges, OrderChanges DEF Model!IInv
<1>4. Model!ChromeFits' /\ Model!EventsTell'
  BY <1>1, FitsChanges, TellsChanges DEF Model!IInv
<1>5. Model!KeysAreRight' /\ Model!GoneForGood'
  BY <1>1, KeysChanges DEF Model!IInv
<1>6. Model!RecordsAreCurrent' /\ Model!RecordsOfOneMoment' /\ Model!KeysFollowLives' /\ Model!NeverStale'
  BY <1>2, KnowledgeKept DEF Model!IInv
<1> QED
  BY <1>3, <1>4, <1>5, <1>6 DEF Model!IInv

LEMMA StepAnswerQuery ==
    ASSUME Model!IInv, Model!AnswerQuery
    PROVE  Model!IInv'
<1>1. PICK query \in queries : Answers(query)
  BY AnswerFacts DEF Model!IInv
<1>2. UNCHANGED <<Model!knowledge, model_callers, eventGeneration, delivered>>
  BY <1>1 DEF Answers
<1>3. Model!Shapes' /\ Model!OneAnswerEach' /\ Model!ChannelInOrder'
  BY <1>1, ShapesAnswerQuery, OneAnswers, OrderAnswers DEF Model!IInv
<1>4. Model!ChromeFits' /\ Model!EventsTell'
  BY <1>1, FitsAnswers, TellsAnswers DEF Model!IInv
<1>5. Model!KeysAreRight' /\ Model!GoneForGood'
  BY <1>1, KeysAnswers DEF Model!IInv
<1>6. Model!RecordsAreCurrent' /\ Model!RecordsOfOneMoment' /\ Model!KeysFollowLives' /\ Model!NeverStale'
  BY <1>2, KnowledgeKept DEF Model!IInv
<1> QED
  BY <1>3, <1>4, <1>5, <1>6 DEF Model!IInv

LEMMA StepHandle ==
    ASSUME Model!IInv, Model!HandleEvent \/ Model!HandleAnswer
    PROVE  Model!IInv'
<1>1. UNCHANGED <<Model!knowledge, model_callers>>
  BY DEF Model!HandleEvent, Model!HandleAnswer
<1>2. Model!Shapes' /\ Model!OneAnswerEach' /\ Model!ChannelInOrder'
  BY ShapesHandleEvent, ShapesHandleAnswer, OneHandles, OrderHandles DEF Model!IInv
<1>3. Model!ChromeFits' /\ Model!EventsTell'
  BY FitsHandles, TellsHandles DEF Model!IInv
<1>4. Model!KeysAreRight' /\ Model!GoneForGood'
  BY KeysHandleEvent, KeysHandleAnswer DEF Model!IInv
<1>5. Model!RecordsAreCurrent'
  <2>1. CASE Model!HandleEvent
    <3>1. /\ eventGeneration' = eventGeneration + 1 /\ reconciledGeneration' = reconciledGeneration
          /\ eventGeneration \in Nat /\ reconciledGeneration \in -1..eventGeneration
      BY <2>1 DEF Model!HandleEvent, Model!knowledge, Model!IInv, Model!Shapes
    <3> QED
      BY <3>1 DEF Model!RecordsAreCurrent
  <2>2. CASE Model!HandleAnswer
    <3>1. UNCHANGED <<eventGeneration, delivered>>
      BY <2>2 DEF Model!HandleAnswer
    <3> QED
      BY <1>1, <3>1, KnowledgeKept DEF Model!IInv
  <2> QED
    BY <2>1, <2>2
<1>6. Model!RecordsOfOneMoment' /\ Model!KeysFollowLives' /\ Model!NeverStale'
  BY <1>1, KnowledgeKept DEF Model!IInv
<1> QED
  BY <1>2, <1>3, <1>4, <1>5, <1>6 DEF Model!IInv

LEMMA StepApply ==
    ASSUME Model!IInv, Model!Apply
    PROVE  Model!IInv'
<1>1. Quiet
  BY QuietApply DEF Model!IInv
<1>2. Model!Shapes' /\ Model!OneAnswerEach' /\ Model!ChannelInOrder'
  BY <1>1, ShapesApply, OneOthers, QuietInOrder DEF Model!IInv, Model!Reconcile
<1>3. Model!ChromeFits' /\ Model!EventsTell'
  BY <1>1, QuietFits, QuietTells DEF Model!IInv
<1>4. Model!KeysAreRight' /\ Model!GoneForGood' /\ Model!KeysFollowLives'
  BY KeysApply, FollowApply DEF Model!IInv
<1>5. Model!RecordsOfOneMoment' /\ \A r \in records' : r.tabsAt = delivered
  BY RecordsApply DEF Model!IInv
<1>6. Model!RecordsAreCurrent'
  <2>1. delivered' = delivered
    BY <1>1 DEF Quiet
  <2> QED
    BY <1>5, <2>1 DEF Model!RecordsAreCurrent
<1>7. Model!NeverStale'
  BY StaleApply DEF Model!IInv
<1> QED
  BY <1>2, <1>3, <1>4, <1>5, <1>6, <1>7 DEF Model!IInv

\* The steps that begin, go on with or give up a reading.
LEMMA StepReading ==
    ASSUME Model!IInv, Model!Drain \/ Model!ReadAgain \/ Model!ReadFails \/ \E c \in ModelCallers : Model!Call(c)
    PROVE  Model!IInv'
<1>1. Quiet
  BY QuietDrain, QuietReadAgain, QuietReadFails, QuietCall DEF Model!IInv
<1>2. UNCHANGED <<keys, forceNewIds, Model!knowledge, eventGeneration, delivered>>
  BY DEF Model!Drain, Model!ReadAgain, Model!ReadFails, Model!Call
<1>3. Model!Shapes' /\ Model!OneAnswerEach' /\ Model!ChannelInOrder'
  BY <1>1, ShapesReading, ShapesReadFails, ShapesCall, OneOthers, QuietInOrder DEF Model!IInv, Model!Reconcile
<1>4. Model!ChromeFits' /\ Model!EventsTell'
  BY <1>1, QuietFits, QuietTells DEF Model!IInv
<1>5. Model!KeysAreRight' /\ Model!GoneForGood'
  BY <1>1, <1>2, QuietKeys DEF Model!IInv, Model!knowledge
<1>6. Model!RecordsAreCurrent' /\ Model!RecordsOfOneMoment' /\ Model!KeysFollowLives'
  BY <1>2, KnowledgeKept DEF Model!IInv
<1>7. Model!NeverStale'
  <2>1. CASE Model!Drain \/ Model!ReadAgain
    BY <1>2, <2>1, KnowledgeKept DEF Model!IInv, Model!Drain, Model!ReadAgain
  <2>2. CASE Model!ReadFails \/ \E c \in ModelCallers : Model!Call(c)
    BY <2>2, StaleReadFails, StaleCall DEF Model!IInv
  <2> QED
    BY <2>1, <2>2
<1> QED
  BY <1>3, <1>4, <1>5, <1>6, <1>7 DEF Model!IInv

LEMMA InitHolds ==
    ASSUME Model!Init
    PROVE  Model!IInv
<1>1. /\ windows \in [WindowIds -> {{}, {0}}]
      /\ tabs \in [TabIds -> {{}} \cup {{[since |-> 0, window |-> w]} : w \in WindowIds}]
      /\ \A tab \in UNION {tabs[t] : t \in TabIds} : windows[tab.window] # {}
      /\ model_changes = 0 /\ channel = <<>> /\ delivered = 0 /\ model_failures = 0 /\ eventGeneration = 0
      /\ reconciledGeneration = -1 /\ nextKey = 1 /\ modelRevision = 0 /\ support = FALSE
      /\ keys = [id \in Model!Ids |-> {}] /\ forceNewIds = {} /\ records = {} /\ named = {}
      /\ reading = {Fresh(0)} /\ queries = {"windows", "tabs"}
      /\ model_callers = [c \in ModelCallers |-> [at |-> "none", asked |-> 0, given |-> {}]]
  BY DEF Model!Init, Fresh
<1>2. DOMAIN channel = {}
  BY <1>1
<1>3. \A t \in TabIds : \A tab \in tabs[t] : tab \in Model!Tabs /\ tab.since = 0 /\ tabs[t] = {tab}
  BY <1>1 DEF Model!Tabs
<1>4. Fresh(0) \in Model!Readings /\ Fresh(0).windows = {} /\ Fresh(0).tabs = {} /\ Fresh(0).generation = 0
  BY DEF Fresh, Model!Readings
<1>5. \A id \in Model!Ids : \A since \in Model!Life(id) : since = 0
  BY <1>1, <1>3 DEF Model!Life, Model!Ids
<1>6. Model!Current = {} /\ Model!WindowsAnswers = {} /\ Model!TabsAnswers = {}
  <2>1. \A a : a \notin Model!Current /\ a \notin Model!WindowsAnswers /\ a \notin Model!TabsAnswers
    BY <1>1, <1>2, <1>4, AnswersAre
  <2> QED
    BY <2>1
<1> HIDE DEF Fresh
<1>7. Model!Shapes
  <2>1. windows \in [WindowIds -> SUBSET Nat] /\ \A w \in WindowIds : Model!AtMostOne(windows[w])
    BY <1>1 DEF Model!AtMostOne
  <2>2. tabs \in [TabIds -> SUBSET Model!Tabs] /\ \A t \in TabIds : Model!AtMostOne(tabs[t])
    <3>1. \A t \in TabIds : tabs[t] \in SUBSET Model!Tabs /\ Model!AtMostOne(tabs[t])
      BY <1>3 DEF Model!AtMostOne
    <3> QED
      BY <1>1, <3>1
  <2>3. /\ model_changes \in 0..ModelChanges /\ model_failures \in 0..ModelFailures /\ delivered \in 0..model_changes
        /\ channel \in Seq(Model!Messages)
    BY <1>1, ModelAssumption
  <2>4. /\ keys \in [Model!Ids -> SUBSET Nat] /\ \A id \in Model!Ids : Model!AtMostOne(keys[id])
        /\ Model!AtMostOne(reading) /\ Model!AtMostOne(records)
    BY <1>1 DEF Model!AtMostOne
  <2>5. \A read \in reading : /\ Model!AtMostOne(read.windows) /\ Model!AtMostOne(read.tabs)
                              /\ read.generation <= eventGeneration
    BY <1>1, <1>4 DEF Model!AtMostOne
  <2>6. /\ model_callers = [c \in ModelCallers |-> [at |-> model_callers[c].at, asked |-> model_callers[c].asked,
                                         given |-> model_callers[c].given]]
        /\ \A c \in ModelCallers : model_callers[c].asked \in 0..delivered
    <3>1. \A c \in ModelCallers : model_callers[c] = [at |-> "none", asked |-> 0, given |-> {}]
      BY <1>1
    <3>2. \A c \in ModelCallers : /\ model_callers[c] = [at |-> model_callers[c].at, asked |-> model_callers[c].asked,
                                                   given |-> model_callers[c].given]
                                  /\ model_callers[c].asked = 0
      BY <3>1
    <3> QED
      BY <1>1, <3>2
  <2>7. /\ eventGeneration \in Nat /\ reconciledGeneration \in -1..eventGeneration
        /\ modelRevision \in Nat /\ nextKey \in Nat
    BY <1>1
  <2>10. support \in BOOLEAN
    BY <1>1
  <2>8. reading \subseteq Model!Readings /\ queries \subseteq {"windows", "tabs"} /\ forceNewIds \subseteq Model!Ids
    BY <1>1, <1>4
  <2>9. /\ modelRevision = 0 <=> records = {}
        /\ named \subseteq [id : Model!Ids, since : SUBSET Nat, key : SUBSET Nat]
    BY <1>1
  <2> QED
    BY <2>1, <2>2, <2>3, <2>4, <2>5, <2>6, <2>7, <2>8, <2>9, <2>10 DEF Model!Shapes
<1>8. Model!OneAnswerEach
  BY <1>1, <1>2, <1>4 DEF Model!OneAnswerEach
<1>9. Model!ChannelInOrder
  BY <1>1, <1>2 DEF Model!ChannelInOrder
<1>10. Model!ChromeFits
  BY <1>1, <1>5, <1>6 DEF Model!ChromeFits
<1>11. Model!EventsTell /\ Model!KeysAreRight /\ Model!GoneForGood
  BY <1>1, <1>2, <1>6 DEF Model!EventsTell, Model!KeysAreRight, Model!GoneForGood
<1>12. Model!RecordsAreCurrent /\ Model!RecordsOfOneMoment /\ Model!KeysFollowLives /\ Model!NeverStale
  BY <1>1 DEF Model!RecordsAreCurrent, Model!RecordsOfOneMoment, Model!KeysFollowLives, Model!NeverStale
<1> QED
  BY <1>7, <1>8, <1>9, <1>10, <1>11, <1>12 DEF Model!IInv

LEMMA StepHolds ==
    ASSUME Model!IInv, [Model!Next]_(Model!vars)
    PROVE  Model!IInv'
<1>1. CASE Model!Next
  BY <1>1, StepChrome, StepAnswerQuery, StepHandle, StepApply, StepReading DEF Model!Next, Model!Reconcile
<1>2. CASE UNCHANGED Model!vars
  <2>1. Quiet /\ UNCHANGED <<keys, forceNewIds, nextKey, named>>
    BY <1>2, QuietReading DEF Model!vars, Model!IInv
  <2>2. Model!ChannelInOrder' /\ Model!ChromeFits' /\ Model!EventsTell' /\ Model!KeysAreRight' /\ Model!GoneForGood'
    BY <2>1, QuietInOrder, QuietFits, QuietTells, QuietKeys DEF Model!IInv
  <2>3. Model!Shapes'
    BY <1>2 DEF Model!vars, Model!IInv, Model!Shapes, Model!AtMostOne
  <2>4. Model!OneAnswerEach'
    BY <1>2 DEF Model!vars, Model!IInv, Model!OneAnswerEach, Model!IsAnswer
  <2>5. Model!RecordsAreCurrent' /\ Model!RecordsOfOneMoment' /\ Model!KeysFollowLives' /\ Model!NeverStale'
    BY <1>2, KnowledgeKept DEF Model!vars, Model!IInv, Model!knowledge
  <2> QED
    BY <2>2, <2>3, <2>4, <2>5 DEF Model!IInv
<1> QED
  BY <1>1, <1>2

LEMMA HoldsEnough ==
    ASSUME Model!IInv
    PROVE  Model!ModelIsTrue
<1>1. Model!Shapes
  BY DEF Model!IInv
<1>2. /\ \A w \in WindowIds : Cardinality(windows[w]) <= 1
      /\ \A t \in TabIds : Cardinality(tabs[t]) <= 1
      /\ \A id \in Model!Ids : Cardinality(keys[id]) <= 1
      /\ Cardinality(reading) <= 1 /\ Cardinality(records) <= 1
  BY <1>1, OptionCardinality DEF Model!Shapes, Model!AtMostOne
<1>3. \A tab \in UNION {tabs[t] : t \in TabIds} : windows[tab.window] # {}
  BY DEF Model!IInv, Model!ChromeFits
<1>4. queries # {} => reading # {}
  BY DEF Model!IInv, Model!OneAnswerEach
<1>5. Model!TypeOK
  BY <1>1, <1>2, <1>3, <1>4, ModelCardinality DEF Model!Shapes, Model!TypeOK
<1> QED
  BY <1>5 DEF Model!IInv, Model!ModelIsTrue

\* The inductive invariant of the model of Chrome's windows and tabs, for any windows,
\* tabs and callers (extension/browser-model.js).
THEOREM ModelInvariance == Model!Spec => []Model!IInv
<1>1. Model!Init => Model!IInv
  BY InitHolds
<1>2. Model!IInv /\ [Model!Next]_(Model!vars) => Model!IInv'
  BY StepHolds
<1> QED
  BY <1>1, <1>2, PTL DEF Model!Spec

\* Both controllers together are the model and another one.
LEMMA ExtensionHasModel == ExtensionSpec => Model!Spec
<1>1. ExtensionInit => Model!Init
  BY DEF ExtensionInit
<1>2. [ExtensionNext]_<<vars, model_vars, subject>> => [Model!Next]_(Model!vars)
  BY DEF ExtensionNext, model_vars, Model!vars
<1> QED
  BY <1>1, <1>2, PTL DEF ExtensionSpec, Model!Spec

\* The records are Chrome's state of one moment, no older than the events that had been
\* delivered to who asks, and a key belongs to one window or tab for as long as it lives
\* (extension/browser-model.js:99-296).
THEOREM ModelIsSound == ExtensionSpec => []ModelIsTrue
<1>1. Model!IInv => ModelIsTrue
  BY HoldsEnough DEF ModelIsTrue
<1> QED
  BY <1>1, ModelInvariance, ExtensionHasModel, PTL

=============================================================================
