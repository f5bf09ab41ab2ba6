------------------------ MODULE SnapshotRuntimeProofs ------------------------
(***************************************************************************)
(* Proofs about SnapshotRuntime, for any callers, keys and bounds.  The       *)
(* argument has two halves.  A reference stays the object's because a result  *)
(* never comes from an older model than the last one, and an object that left *)
(* the model never comes back.  An answer is not refused for its frozen flag   *)
(* because the capability state it waited for is ahead of it on the wire.     *)
(***************************************************************************)
EXTENDS SnapshotRuntime, SequenceTheorems, TLAPS

-----------------------------------------------------------------------------
(* Sequences *)

LEMMA AppendFacts ==
    ASSUME NEW S, NEW q \in Seq(S), NEW x \in S
    PROVE  /\ Append(q, x) \in Seq(S) /\ Append(q, x) # <<>>
           /\ Len(q) \in Nat /\ DOMAIN q = 1..Len(q)
           /\ Len(Append(q, x)) = Len(q) + 1
           /\ DOMAIN Append(q, x) = 1..(Len(q) + 1)
           /\ Append(q, x)[Len(q) + 1] = x
           /\ \A i \in 1..Len(q) : Append(q, x)[i] = q[i]
  OBVIOUS

LEMMA TailFacts ==
    ASSUME NEW S, NEW q \in Seq(S), q # <<>>
    PROVE  /\ Tail(q) \in Seq(S)
           /\ Len(q) \in Nat /\ Len(q) > 0 /\ DOMAIN q = 1..Len(q)
           /\ Head(q) = q[1] /\ 1 \in DOMAIN q
           /\ Len(Tail(q)) = Len(q) - 1
           /\ DOMAIN Tail(q) = 1..(Len(q) - 1)
           /\ \A i \in DOMAIN Tail(q) : i + 1 \in DOMAIN q /\ Tail(q)[i] = q[i + 1]
  OBVIOUS

\* Without the r-th element, the ones behind it move up.
LEMMA RemoveFacts ==
    ASSUME NEW S, NEW q \in Seq(S), NEW r \in DOMAIN q
    PROVE  /\ RemoveAt(q, r) \in Seq(S)
           /\ Len(q) \in Nat /\ DOMAIN q = 1..Len(q) /\ r \in 1..Len(q)
           /\ DOMAIN RemoveAt(q, r) = 1..(Len(q) - 1)
           /\ \A i \in 1..(Len(q) - 1) :
                  RemoveAt(q, r)[i] = IF i < r THEN q[i] ELSE q[i + 1]
  <1>1. Len(q) \in Nat /\ DOMAIN q = 1..Len(q) /\ r \in 1..Len(q)
    OBVIOUS
  <1> DEFINE front == SubSeq(q, 1, r - 1)
             back == SubSeq(q, r + 1, Len(q))
  <1>2. /\ front \in Seq(S) /\ Len(front) = r - 1
        /\ \A i \in 1..r - 1 : front[i] = q[i]
    BY <1>1
  <1>3. /\ back \in Seq(S) /\ Len(back) = Len(q) - r
        /\ \A i \in 1..Len(q) - r : back[i] = q[i + r]
    BY <1>1
  <1> HIDE DEF front, back
  <1>4. /\ front \o back \in Seq(S) /\ Len(front \o back) = Len(q) - 1
        /\ \A i \in 1..Len(q) - 1 :
               (front \o back)[i] = IF i <= r - 1 THEN front[i] ELSE back[i - (r - 1)]
    <2>1. /\ front \o back \in Seq(S) /\ Len(front \o back) = Len(front) + Len(back)
          /\ \A i \in 1..Len(front) + Len(back) :
                 (front \o back)[i] = IF i <= Len(front) THEN front[i] ELSE back[i - Len(front)]
      BY <1>2, <1>3, ConcatProperties
    <2>2. Len(front) = r - 1 /\ Len(front) + Len(back) = Len(q) - 1
      BY <1>1, <1>2, <1>3
    <2>3. QED BY <2>1, <2>2
  <1>5. \A i \in 1..Len(q) - 1 : (front \o back)[i] = IF i < r THEN q[i] ELSE q[i + 1]
    <2>1. TAKE i \in 1..Len(q) - 1
    <2>2. CASE i < r
      BY <1>1, <1>2, <1>4, <2>2
    <2>3. CASE ~(i < r)
      <3>1. i - (r - 1) \in 1..Len(q) - r
        BY <1>1, <2>3
      <3>2. (front \o back)[i] = back[i - (r - 1)]
        BY <1>1, <1>4, <2>3
      <3>3. back[i - (r - 1)] = q[(i - (r - 1)) + r] /\ (i - (r - 1)) + r = i + 1
        BY <1>1, <1>3, <3>1
      <3>4. QED BY <2>3, <3>2, <3>3
    <2>4. QED BY <2>2, <2>3
  <1>6. RemoveAt(q, r) = front \o back
    BY DEF RemoveAt, front, back
  <1>7. DOMAIN (front \o back) = 1..Len(q) - 1
    BY <1>4
  <1>8. QED BY <1>1, <1>4, <1>5, <1>6, <1>7

-----------------------------------------------------------------------------
(* Types *)

\* What the registry becomes is again a registry, with references of the issued
\* snapshot for new objects.
LEMMA ReconciledFacts ==
    ASSUME TypeOK, issued < MaxIssued, NEW baseline \in Baselines
    PROVE  /\ Reconciled(baseline) \in References
           /\ Seen(Reconciled(baseline)) \subseteq Shown
           /\ DOMAIN Reconciled(baseline) = baseline.objects
           /\ baseline.objects \subseteq Keys
           /\ issued + 1 \in 1..MaxIssued
  <1>1. baseline.objects \subseteq Keys /\ issued + 1 \in 1..MaxIssued
    BY RuntimeAssumption DEF TypeOK, Baselines
  <1>2. PICK keys \in SUBSET Keys : references \in [keys -> Refs]
    BY DEF TypeOK, References
  <1>3. \A key \in baseline.objects : [of |-> key, by |-> issued + 1] \in Refs
    BY <1>1 DEF Refs
  <1>4. Reconciled(baseline) \in [baseline.objects -> Refs]
    BY <1>2, <1>3 DEF Reconciled
  <1>5. Reconciled(baseline) \in References
    BY <1>1, <1>4 DEF References
  <1>6. Seen(Reconciled(baseline)) \subseteq Shown
    BY <1>1, <1>4 DEF Seen, Shown
  <1>7. QED BY <1>1, <1>4, <1>5, <1>6

\* A reference is seen exactly when the registry, or a retained page, has it.
LEMMA SeenFacts ==
    ASSUME NEW refs, NEW object
    PROVE  object \in Seen(refs)
               <=> \E key \in DOMAIN refs : object = [key |-> key, ref |-> refs[key]]
  BY DEF Seen

LEMMA IdleIsCall ==
    ASSUME NEW result \in Results
    PROVE  [Idle EXCEPT !.result = result] \in Calls
  BY DEF Idle, Calls, PCs, Params, NoParams, Baselines, NoBaseline, Results

LEMMA PublicCodeIsResult == ASSUME NEW code PROVE PublicCode(code) \in Results
  BY DEF PublicCode, Results

LEMMA RefusalIsResult == ASSUME NEW c PROVE Refusal(c) \in Results
  BY DEF Refusal, Results

\* A call that ends is idle, with its result, and no other call is touched.
LEMMA ReturnFacts ==
    ASSUME TypeOK, NEW c \in Callers, NEW result \in Results, Return(c, result)
    PROVE  /\ calls' \in [Callers -> Calls]
           /\ calls'[c].pc = "idle" /\ calls'[c].result = result
           /\ calls'[c].params.target = {}
           /\ \A d \in Callers \ {c} : calls'[d] = calls[d]
  <1>1. calls \in [Callers -> Calls] /\ calls' = [calls EXCEPT ![c] = [Idle EXCEPT !.result = result]]
    BY DEF TypeOK, Return
  <1>2. /\ [Idle EXCEPT !.result = result].pc = "idle"
        /\ [Idle EXCEPT !.result = result].result = result
        /\ [Idle EXCEPT !.result = result].params.target = {}
    BY DEF Idle, NoParams
  <1>3. QED BY <1>1, <1>2, IdleIsCall

-----------------------------------------------------------------------------
(* What the steps of a call do *)

LEMMA CurrentFacts ==
    ASSUME TypeOK
    PROVE  /\ Len(models) \in DOMAIN models /\ Len(models) \in Nat
           /\ DOMAIN models = 1..Len(models)
           /\ Current = models[Len(models)] /\ Current \in Models
           /\ \A n \in DOMAIN models : models[n] \in Models
           /\ \A n \in DOMAIN models : models[n].objects \subseteq Used
  <1>1. models \in Seq(Models) /\ models # <<>>
    BY DEF TypeOK
  <1>2. Len(models) \in DOMAIN models /\ Len(models) \in Nat /\ DOMAIN models = 1..Len(models)
    BY <1>1
  <1>3. \A n \in DOMAIN models : models[n] \in Models
    BY <1>1
  <1>4. QED BY <1>1, <1>2, <1>3 DEF Current, Last, Used

LEMMA CaptureFacts ==
    ASSUME TypeOK, NEW c \in Callers, Capture(c)
    PROVE  /\ calls' \in [Callers -> Calls]
           /\ calls'[c].pc = "captured" /\ IsCapture(calls'[c].baseline)
           /\ calls'[c].result = calls[c].result /\ calls'[c].params = calls[c].params
           /\ calls[c].pc = "requested"
           /\ \A d \in Callers \ {c} : calls'[d] = calls[d]
  <1> DEFINE b == [revision |-> Len(models), objects |-> Current.objects, frozen |-> Current.frozen]
  <1>1. b \in Baselines /\ IsCapture(b)
    BY CurrentFacts DEF Baselines, Models, IsCapture
  <1>2. calls \in [Callers -> Calls] /\ calls' = [calls EXCEPT ![c].pc = "captured", ![c].baseline = b]
    BY DEF TypeOK, Capture
  <1> HIDE DEF b
  <1>3. /\ calls' \in [Callers -> Calls]
        /\ calls'[c].pc = "captured" /\ calls'[c].baseline = b
        /\ calls'[c].result = calls[c].result /\ calls'[c].params = calls[c].params
        /\ \A d \in Callers \ {c} : calls'[d] = calls[d]
    BY <1>1, <1>2 DEF Calls, PCs
  <1>4. IsCapture(calls'[c].baseline)
    BY <1>1, <1>3
  <1>5. QED BY <1>3, <1>4 DEF Capture

LEMMA SynchronizeFacts ==
    ASSUME TypeOK, NEW c \in Callers, Synchronize(c)
    PROVE  /\ calls' \in [Callers -> Calls]
           /\ calls'[c].pc = "synchronized" /\ calls'[c].awaits = capability.revision
           /\ calls'[c].result = calls[c].result /\ calls'[c].params = calls[c].params
           /\ calls'[c].baseline = calls[c].baseline
           /\ calls[c].pc = "captured"
           /\ \A d \in Callers \ {c} : calls'[d] = calls[d]
  <1>1. calls \in [Callers -> Calls] /\ capability.revision \in Nat
    BY DEF TypeOK, CapabilityStates
  <1>2. QED BY <1>1 DEF Synchronize, Calls, PCs

\* Only the program counter moves.
LEMMA AdvanceFacts ==
    ASSUME TypeOK, NEW c \in Callers, NEW pc \in PCs, calls' = [calls EXCEPT ![c].pc = pc]
    PROVE  /\ calls' \in [Callers -> Calls]
           /\ calls'[c].pc = pc
           /\ calls'[c].result = calls[c].result /\ calls'[c].params = calls[c].params
           /\ calls'[c].baseline = calls[c].baseline /\ calls'[c].awaits = calls[c].awaits
           /\ \A d \in Callers \ {c} : calls'[d] = calls[d]
  <1>1. calls \in [Callers -> Calls]
    BY DEF TypeOK
  <1>2. QED BY <1>1 DEF Calls

\* An admitted call: nothing is known of it but what the client asked.
LEMMA RequestFacts ==
    ASSUME TypeOK, NEW c \in Callers, Request(c)
    PROVE  /\ calls' \in [Callers -> Calls]
           /\ calls'[c].pc \in {"idle", "requested"}
           /\ calls'[c].pc = "requested" => calls'[c].result = "none"
           /\ calls'[c].params.target \subseteq shown
           /\ \A a, b \in calls'[c].params.target : a = b
           /\ calls[c].pc = "idle"
           /\ \A d \in Callers \ {c} : calls'[d] = calls[d]
  <1>1. calls \in [Callers -> Calls] /\ shown \subseteq Shown /\ calls[c].pc = "idle"
    BY DEF TypeOK, Request
  <1>2. CASE Return(c, "CAPABILITY_UNAVAILABLE")
    <2>1. "CAPABILITY_UNAVAILABLE" \in Results
      BY DEF Results
    <2>2. QED BY <1>1, <1>2, <2>1, ReturnFacts
  <1>3. CASE ~Return(c, "CAPABILITY_UNAVAILABLE")
    <2>1. PICK ask \in Asks, target \in {{}} \cup {{object} : object \in shown} :
              calls' = [calls EXCEPT ![c] =
                           [Idle EXCEPT !.pc = "requested",
                                        !.params = [detail |-> ask.detail, frozen |-> ask.frozen,
                                                    target |-> target]]]
      BY <1>3 DEF Request
    <2> DEFINE p == [detail |-> ask.detail, frozen |-> ask.frozen, target |-> target]
               call == [Idle EXCEPT !.pc = "requested", !.params = p]
    <2>2. target \subseteq shown /\ \A a, b \in target : a = b
      OBVIOUS
    <2>3. p \in Params /\ p.target = target
      BY <1>1, <2>2, RuntimeAssumption DEF Params
    <2>4. calls' = [calls EXCEPT ![c] = call]
      BY <2>1
    <2> HIDE DEF p
    <2>5. /\ call \in Calls /\ call.pc = "requested" /\ call.result = "none"
          /\ call.params = p
      BY <2>3 DEF Idle, Calls, PCs, Baselines, NoBaseline, Results
    <2> HIDE DEF call
    <2>6. QED BY <1>1, <2>2, <2>3, <2>4, <2>5
  <1>4. QED BY <1>2, <1>3

\* A call that fails leaves no answer behind.
LEMMA RequestFailsFacts ==
    ASSUME TypeOK, NEW c \in Callers, RequestFails(c)
    PROVE  /\ calls[c].pc \in {"requested", "captured", "synchronized", "posted"}
           /\ \E result \in Results : Return(c, result)
           /\ \/ \E i \in DOMAIN wire : wire[i] = AnswerTo(c) /\ wire' = RemoveAt(wire, i)
              \/ (\A i \in DOMAIN wire : wire[i] # AnswerTo(c)) /\ wire' = wire
  BY PublicCodeIsResult DEF RequestFails, Range

\* Any call that ends.
Ends(c) ==
    /\ calls' \in [Callers -> Calls]
    /\ calls'[c].pc = "idle" /\ calls'[c].params.target = {}
    /\ \A d \in Callers \ {c} : calls'[d] = calls[d]

LEMMA RequestFailsEnds == ASSUME TypeOK, NEW c \in Callers, RequestFails(c) PROVE Ends(c)
  BY RequestFailsFacts, ReturnFacts DEF Ends

LEMMA RefuseEnds == ASSUME TypeOK, NEW c \in Callers, Refuse(c) PROVE Ends(c)
  BY RefusalIsResult, ReturnFacts DEF Ends, Refuse

LEMMA AnswerEnds ==
    ASSUME TypeOK, NEW c \in Callers, Count(c) \/ Retain(c) \/ TooLarge(c) \/ ContinueSnapshot(c)
    PROVE  Ends(c)
  <1>1. PICK result \in Results : Return(c, result)
    BY DEF Count, Retain, TooLarge, ContinueSnapshot, Results
  <1>2. QED BY <1>1, ReturnFacts DEF Ends

-----------------------------------------------------------------------------
(* The steps preserve the types *)

LEMMA ExtensionTypes ==
    ASSUME TypeOK, Apply \/ Reconcile \/ PublishCapabilitiesChanged
                   \/ \E c \in Callers : Capture(c) \/ Synchronize(c) \/ Post(c)
    PROVE  TypeOK'
  <1>1. CASE Apply
    <2>1. PICK gone \in SUBSET Current.objects, new \in SUBSET (Keys \ Used), frozen \in BOOLEAN :
              models' = Append(models, [objects |-> (Current.objects \ gone) \cup new, frozen |-> frozen])
      BY <1>1 DEF Apply
    <2> DEFINE m == [objects |-> (Current.objects \ gone) \cup new, frozen |-> frozen]
    <2>2. m \in Models
      BY CurrentFacts DEF Models
    <2> HIDE DEF m
    <2>3. models' \in Seq(Models) /\ models' # <<>>
      BY <2>1, <2>2, AppendFacts DEF TypeOK, m
    <2>4. QED BY <1>1, <2>3 DEF TypeOK, Apply, broker, history
  <1>2. CASE Reconcile
    <2>1. PICK effective \in BOOLEAN :
              capability' = [revision |-> capability.revision + 1, frozen |-> Current.frozen,
                             effective |-> effective]
      BY <1>2 DEF Reconcile
    <2>2. capability' \in CapabilityStates
      BY <2>1, CurrentFacts DEF CapabilityStates, Models, TypeOK
    <2>3. QED BY <1>2, <2>2 DEF TypeOK, Reconcile, broker, history
  <1>3. CASE PublishCapabilitiesChanged
    <2>1. [type |-> "capabilities", state |-> capability] \in Messages /\ capability.revision \in Nat
      BY DEF TypeOK, Messages, CapabilityMessages, CapabilityStates
    <2>2. wire' \in Seq(Messages)
      BY <1>3, <2>1, AppendFacts DEF TypeOK, PublishCapabilitiesChanged
    <2>3. QED BY <1>3, <2>1, <2>2 DEF TypeOK, PublishCapabilitiesChanged, broker, history
  <1>4. ASSUME NEW c \in Callers, Capture(c) PROVE TypeOK'
    BY <1>4, CaptureFacts DEF TypeOK, Capture, extension, broker, history
  <1>5. ASSUME NEW c \in Callers, Synchronize(c) PROVE TypeOK'
    BY <1>5, SynchronizeFacts DEF TypeOK, Synchronize, extension, broker, history
  <1>6. ASSUME NEW c \in Callers, Post(c) PROVE TypeOK'
    <2>1. calls' \in [Callers -> Calls]
      BY <1>6, AdvanceFacts DEF Post, PCs
    <2>2. AnswerTo(c) \in Messages
      BY DEF Messages
    <2>3. wire' \in Seq(Messages)
      BY <1>6, <2>2, AppendFacts DEF TypeOK, Post
    <2>4. QED BY <1>6, <2>1, <2>3 DEF TypeOK, Post, extension, broker, history
  <1>7. QED BY <1>1, <1>2, <1>3, <1>4, <1>5, <1>6

LEMMA HeadFacts ==
    ASSUME TypeOK, wire # <<>>
    PROVE  /\ Head(wire) = wire[1] /\ 1 \in DOMAIN wire
           /\ Tail(wire) \in Seq(Messages)
           /\ Head(wire).type = "capabilities" =>
                  Head(wire) \in CapabilityMessages /\ Head(wire).state \in CapabilityStates
           /\ Head(wire).type = "answer" =>
                  Head(wire).caller \in Callers /\ Head(wire) = AnswerTo(Head(wire).caller)
  <1>1. wire \in Seq(Messages) /\ wire # <<>>
    BY DEF TypeOK
  <1>2. /\ Head(wire) = wire[1] /\ 1 \in DOMAIN wire
        /\ Tail(wire) \in Seq(Messages) /\ Head(wire) \in Messages
    BY <1>1
  <1>3. QED BY <1>2 DEF Messages, CapabilityMessages, AnswerTo

LEMMA BrokerTypes ==
    ASSUME TypeOK, ApplyCapabilities \/ TakeResponse \/ Clear \/ Expire
    PROVE  TypeOK'
  <1>1. CASE ApplyCapabilities
    <2>1. wire' \in Seq(Messages) /\ connected' \subseteq CapabilityStates
      BY <1>1, HeadFacts DEF ApplyCapabilities, TypeOK
    <2>2. QED BY <1>1, <2>1 DEF TypeOK, ApplyCapabilities, extension, history
  <1>2. CASE TakeResponse
    <2>1. wire' \in Seq(Messages) /\ calls' \in [Callers -> Calls]
      BY <1>2, HeadFacts, AdvanceFacts DEF TakeResponse, PCs
    <2>2. QED BY <1>2, <2>1 DEF TypeOK, TakeResponse, extension, broker, history
  <1>3. CASE Clear
    <2>1. [key \in {} |-> key] \in References
      <3>1. [key \in {} |-> key] \in [{} -> Refs]
        OBVIOUS
      <3>2. QED BY <3>1 DEF References
    <2>2. <<>> \in Seq(Messages) /\ <<>> \in Seq(Retained)
      OBVIOUS
    <2>3. QED BY <1>3, <2>1, <2>2 DEF TypeOK, Clear, extension, history
  <1>4. CASE Expire
    <2>1. retention' \in Seq(Retained)
      BY <1>4, TailFacts DEF TypeOK, Expire
    <2>2. QED BY <1>4, <2>1 DEF TypeOK, Expire, extension, history
  <1>5. QED BY <1>1, <1>2, <1>3, <1>4

LEMMA CallTypes ==
    ASSUME TypeOK, NEW c \in Callers, CallStep(c)
    PROVE  TypeOK'
  <1>1. CASE Request(c)
    BY <1>1, RequestFacts DEF TypeOK, Request, extension, broker, history
  <1>2. CASE RequestFails(c)
    <2>1. wire' \in Seq(Messages)
      <3>1. wire \in Seq(Messages) /\ (wire' = wire \/ \E i \in DOMAIN wire : wire' = RemoveAt(wire, i))
        BY <1>2, RequestFailsFacts DEF TypeOK
      <3>2. \A i \in DOMAIN wire : RemoveAt(wire, i) \in Seq(Messages)
        BY <3>1, RemoveFacts
      <3>3. QED BY <3>1, <3>2
    <2>2. QED BY <1>2, <2>1, RequestFailsEnds DEF TypeOK, RequestFails, Ends, extension, broker, history
  <1>3. CASE Refuse(c)
    BY <1>3, RefuseEnds DEF TypeOK, Refuse, Ends, extension, broker, history
  <1>4. CASE Count(c)
    <2>1. calls[c].baseline \in Baselines /\ calls[c].baseline.revision \in Nat
      BY DEF TypeOK, Calls, Baselines
    <2>2. QED BY <1>4, <2>1, AnswerEnds DEF TypeOK, Count, Ends, extension
  <1>5. CASE Retain(c)
    <2>1. calls[c].baseline \in Baselines /\ calls[c].baseline.revision \in Nat /\ issued < MaxIssued
      BY <1>5 DEF TypeOK, Calls, Baselines, Retain
    <2> DEFINE refs == Reconciled(calls[c].baseline)
    <2>2. refs \in References /\ Seen(refs) \subseteq Shown /\ issued + 1 \in 1..MaxIssued
      BY <2>1, ReconciledFacts
    <2> HIDE DEF refs
    <2>3. PICK evicted \in 0..Len(retention) :
              retention' = Append(SubSeq(retention, evicted + 1, Len(retention)),
                                  [by |-> issued + 1, references |-> refs])
      BY <1>5 DEF Retain, refs
    <2>4. [by |-> issued + 1, references |-> refs] \in Retained
      BY <2>2 DEF Retained
    <2>5. SubSeq(retention, evicted + 1, Len(retention)) \in Seq(Retained)
      BY DEF TypeOK
    <2>6. retention' \in Seq(Retained)
      BY <2>3, <2>4, <2>5, AppendFacts
    <2>7. /\ references' = refs /\ latest' = {calls[c].baseline} /\ newest' = calls[c].baseline.revision
          /\ shown' = shown \cup Seen(refs) /\ issued' = issued + 1
          /\ UNCHANGED <<models, capability, published, wire, connected>>
      BY <1>5 DEF Retain, refs, extension
    <2>8. calls' \in [Callers -> Calls]
      BY <1>5, AnswerEnds DEF Ends
    <2>9. issued' \in 0..MaxIssued
      BY <2>2, <2>7
    <2>10. QED BY <2>1, <2>2, <2>6, <2>7, <2>8, <2>9 DEF TypeOK
  <1>6. CASE TooLarge(c)
    BY <1>6, AnswerEnds DEF TypeOK, TooLarge, Ends, extension, broker, history
  <1>7. CASE ContinueSnapshot(c)
    <2>1. shown' \subseteq Shown
      <3>1. ASSUME NEW snapshot \in Range(retention) PROVE Seen(snapshot.references) \subseteq Shown
        <4>1. snapshot.references \in References
          <5>1. retention \in Seq(Retained) /\ \E i \in DOMAIN retention : snapshot = retention[i]
            BY DEF TypeOK, Range
          <5>2. \A i \in DOMAIN retention : retention[i] \in Retained
            BY <5>1
          <5>3. QED BY <5>1, <5>2 DEF Retained
        <4>2. PICK keys \in SUBSET Keys : snapshot.references \in [keys -> Refs]
          BY <4>1 DEF References
        <4>3. QED BY <4>2 DEF Seen, Shown
      <3>2. PICK n \in 1..issued :
                \/ UNCHANGED shown
                \/ shown' = shown \cup UNION {Seen(snapshot.references) :
                                snapshot \in {kept \in Range(retention) : kept.by = n}}
        BY <1>7 DEF ContinueSnapshot
      <3>3. QED BY <3>1, <3>2 DEF TypeOK
    <2>2. QED BY <1>7, <2>1, AnswerEnds DEF TypeOK, ContinueSnapshot, Ends, extension, broker
  <1>8. QED BY <1>1, <1>2, <1>3, <1>4, <1>5, <1>6, <1>7 DEF CallStep

LEMMA TypesKept == ASSUME TypeOK, [Next]_vars PROVE TypeOK'
  <1>1. CASE UNCHANGED vars
    BY <1>1 DEF vars, TypeOK
  <1>2. CASE Next
    BY <1>2, ExtensionTypes, BrokerTypes, CallTypes DEF Next, Extension
  <1>3. QED BY <1>1, <1>2

-----------------------------------------------------------------------------
(* The models *)

\* What Apply appends.
LEMMA ApplyFacts ==
    ASSUME TypeOK, Apply
    PROVE  \E m \in Models :
               /\ models' = Append(models, m)
               /\ m.objects \cap Used \subseteq Current.objects
               /\ Current.frozen => m.frozen
               /\ UNCHANGED <<capability, published, wire, connected, references, latest, retention,
                              issued, calls, shown, newest>>
  <1>1. PICK gone \in SUBSET Current.objects, new \in SUBSET (Keys \ Used), frozen \in BOOLEAN :
            /\ Current.frozen => frozen
            /\ models' = Append(models, [objects |-> (Current.objects \ gone) \cup new, frozen |-> frozen])
    BY DEF Apply
  <1> DEFINE m == [objects |-> (Current.objects \ gone) \cup new, frozen |-> frozen]
  <1>2. m \in Models /\ m.objects \cap Used \subseteq Current.objects /\ (Current.frozen => m.frozen)
    BY <1>1, CurrentFacts DEF Models
  <1>3. models' = Append(models, m)
    BY <1>1
  <1> HIDE DEF m
  <1>4. QED BY <1>2, <1>3 DEF Apply, broker, history

\* The earlier models stay what they are, and what was captured from them stays true.
LEMMA ModelsStay ==
    ASSUME TypeOK, [Next]_vars
    PROVE  /\ Apply \/ models' = models
           /\ DOMAIN models \subseteq DOMAIN models'
           /\ \A n \in DOMAIN models : models'[n] = models[n]
           /\ \A b : IsCapture(b) => IsCapture(b)'
  <1>1. Apply \/ models' = models
    BY DEF Next, Extension, CallStep, Reconcile, PublishCapabilitiesChanged, Capture, Synchronize, Post,
           ApplyCapabilities, TakeResponse, Clear, Expire, Request, RequestFails, Refuse, Count, Retain,
           TooLarge, ContinueSnapshot, extension, vars
  <1>2. DOMAIN models \subseteq DOMAIN models' /\ \A n \in DOMAIN models : models'[n] = models[n]
    <2>1. CASE Apply
      <3>1. PICK m \in Models : models' = Append(models, m)
        BY <2>1, ApplyFacts
      <3>2. models \in Seq(Models)
        BY DEF TypeOK
      <3>3. QED BY <3>1, <3>2, AppendFacts
    <2>2. QED BY <1>1, <2>1
  <1>3. \A b : IsCapture(b) => IsCapture(b)'
    BY <1>2 DEF IsCapture
  <1>4. QED BY <1>1, <1>2, <1>3

LEMMA ModelsGrowKept == ASSUME IInv, [Next]_vars PROVE ModelsGrow'
  <1>0. TypeOK /\ ModelsGrow
    BY DEF IInv, ReferencesHold
  <1>1. CASE Apply
    <2>1. PICK m \in Models :
              /\ models' = Append(models, m)
              /\ m.objects \cap Used \subseteq Current.objects
              /\ Current.frozen => m.frozen
              /\ capability' = capability
      BY <1>0, <1>1, ApplyFacts
    <2> DEFINE n == Len(models)
    <2>2. /\ n \in Nat /\ n \in DOMAIN models /\ DOMAIN models = 1..n /\ DOMAIN models' = 1..(n + 1)
          /\ models'[n + 1] = m
          /\ \A i \in 1..n : models'[i] = models[i] /\ models[i].objects \subseteq Used
          /\ Current = models[n] /\ Current' = m
      <3>1. models \in Seq(Models) /\ models' \in Seq(Models)
        BY <1>0, <2>1, AppendFacts DEF TypeOK
      <3>2. Len(models') = n + 1
        BY <2>1, <3>1, AppendFacts
      <3>3. QED BY <1>0, <2>1, <3>1, <3>2, AppendFacts, CurrentFacts DEF Current, Last
    <2>3. ASSUME NEW i \in DOMAIN models', NEW k \in DOMAIN models', NEW j \in DOMAIN models',
                 i <= k, k <= j
          PROVE  models'[i].objects \cap models'[j].objects \subseteq models'[k].objects
      <3>1. CASE j \in 1..n
        <4>1. i \in 1..n /\ k \in 1..n
          BY <2>2, <2>3, <3>1
        <4>2. QED BY <1>0, <2>2, <2>3, <3>1, <4>1 DEF ModelsGrow
      <3>2. CASE j = n + 1 /\ k \in 1..n
        <4>1. i \in 1..n
          BY <2>2, <2>3, <3>2
        <4>2. models'[i].objects \cap m.objects \subseteq models[n].objects
          BY <2>1, <2>2, <4>1
        <4>3. models[i].objects \cap models[n].objects \subseteq models[k].objects
          BY <1>0, <2>2, <2>3, <3>2, <4>1 DEF ModelsGrow
        <4>4. QED BY <2>2, <3>2, <4>1, <4>2, <4>3
      <3>3. CASE j = n + 1 /\ k = n + 1
        BY <3>3
      <3>4. QED BY <2>2, <2>3, <3>1, <3>2, <3>3
    <2>4. ASSUME NEW i \in DOMAIN models', NEW j \in DOMAIN models', i <= j, models'[i].frozen
          PROVE  models'[j].frozen
      <3>1. CASE j \in 1..n
        BY <1>0, <2>2, <2>4, <3>1 DEF ModelsGrow
      <3>2. CASE j = n + 1 /\ i \in 1..n
        <4>1. models[n].frozen
          BY <1>0, <2>2, <2>4, <3>2 DEF ModelsGrow
        <4>2. QED BY <2>1, <2>2, <3>2, <4>1
      <3>3. QED BY <2>2, <2>4, <3>1, <3>2
    <2>5. capability'.frozen => Current'.frozen
      BY <1>0, <2>1, <2>2 DEF ModelsGrow
    <2>6. QED BY <2>3, <2>4, <2>5 DEF ModelsGrow
  <1>2. CASE Reconcile
    <2>1. models' = models /\ capability'.frozen = Current.frozen
      BY <1>2 DEF Reconcile
    <2>2. QED BY <1>0, <2>1 DEF ModelsGrow, Current
  <1>3. CASE UNCHANGED <<models, capability>>
    BY <1>0, <1>3 DEF ModelsGrow, Current
  <1>4. QED BY <1>1, <1>2, <1>3 DEF Next, Extension, CallStep, PublishCapabilitiesChanged, Capture,
           Synchronize, Post, ApplyCapabilities, TakeResponse, Clear, Expire, Request, RequestFails, Refuse,
           Count, Retain, TooLarge, ContinueSnapshot, extension, vars

-----------------------------------------------------------------------------
(* The calls *)

LEMMA ShownGrows == ASSUME [Next]_vars PROVE shown \subseteq shown'
  BY DEF Next, Extension, CallStep, Apply, Reconcile, PublishCapabilitiesChanged, Capture, Synchronize,
         Post, ApplyCapabilities, TakeResponse, Clear, Expire, Request, RequestFails, Refuse, Count, Retain,
         TooLarge, ContinueSnapshot, history, vars

\* The call of an answer on the wire is posted.
LEMMA AnsweredCall ==
    ASSUME IInv, TakeResponse
    PROVE  LET c == Head(wire).caller
           IN  /\ c \in Callers /\ calls[c].pc = "posted"
               /\ wire[1] = AnswerTo(c) /\ 1 \in DOMAIN wire
               /\ calls' = [calls EXCEPT ![c].pc = "answered"]
  <1>1. TypeOK /\ wire # <<>> /\ Head(wire).type = "answer"
    BY DEF IInv, ReferencesHold, TakeResponse
  <1>2. Head(wire).caller \in Callers /\ wire[1] = AnswerTo(Head(wire).caller) /\ 1 \in DOMAIN wire
    BY <1>1, HeadFacts
  <1>3. QED BY <1>2 DEF IInv, AnswersFollowStates, TakeResponse

\* Every step moves at most one call, along its order or back to idle.
Moves(c) ==
    \/ /\ calls[c].pc = "requested" /\ calls'[c].pc = "captured" /\ IsCapture(calls'[c].baseline)
       /\ calls'[c].result = calls[c].result /\ calls'[c].params = calls[c].params
    \/ /\ <<calls[c].pc, calls'[c].pc>> \in
              {<<"captured", "synchronized">>, <<"synchronized", "posted">>, <<"posted", "answered">>}
       /\ calls'[c].baseline = calls[c].baseline
       /\ calls'[c].result = calls[c].result /\ calls'[c].params = calls[c].params
    \/ /\ calls'[c].pc = "requested" => calls'[c].result = "none"
       /\ calls'[c].pc \in {"idle", "requested"}
       /\ calls'[c].params.target \subseteq shown
       /\ \A a, b \in calls'[c].params.target : a = b

LEMMA CallMoves ==
    ASSUME IInv, [Next]_vars
    PROVE  \/ calls' = calls
           \/ \E c \in Callers : Moves(c) /\ \A d \in Callers \ {c} : calls'[d] = calls[d]
  <1>0. TypeOK
    BY DEF IInv, ReferencesHold
  <1>1. ASSUME NEW c \in Callers, Capture(c)
        PROVE  Moves(c) /\ \A d \in Callers \ {c} : calls'[d] = calls[d]
    BY <1>0, <1>1, CaptureFacts DEF Moves
  <1>2. ASSUME NEW c \in Callers, Synchronize(c)
        PROVE  Moves(c) /\ \A d \in Callers \ {c} : calls'[d] = calls[d]
    BY <1>0, <1>2, SynchronizeFacts DEF Moves
  <1>3. ASSUME NEW c \in Callers, Post(c)
        PROVE  Moves(c) /\ \A d \in Callers \ {c} : calls'[d] = calls[d]
    BY <1>0, <1>3, AdvanceFacts DEF Moves, Post, PCs
  <1>4. ASSUME TakeResponse
        PROVE  \E c \in Callers : Moves(c) /\ \A d \in Callers \ {c} : calls'[d] = calls[d]
    <2> DEFINE c == Head(wire).caller
    <2>1. c \in Callers /\ calls[c].pc = "posted" /\ calls' = [calls EXCEPT ![c].pc = "answered"]
      BY <1>4, AnsweredCall
    <2> HIDE DEF c
    <2>2. Moves(c) /\ \A d \in Callers \ {c} : calls'[d] = calls[d]
      BY <1>0, <2>1, AdvanceFacts DEF Moves, PCs
    <2>3. QED BY <2>1, <2>2
  <1>5. ASSUME NEW c \in Callers, Request(c)
        PROVE  Moves(c) /\ \A d \in Callers \ {c} : calls'[d] = calls[d]
    BY <1>0, <1>5, RequestFacts DEF Moves
  <1>6. ASSUME NEW c \in Callers, Ends(c)
        PROVE  Moves(c) /\ \A d \in Callers \ {c} : calls'[d] = calls[d]
    BY <1>6 DEF Moves, Ends
  <1>7. \/ calls' = calls \/ TakeResponse
        \/ \E c \in Callers : Capture(c) \/ Synchronize(c) \/ Post(c) \/ Request(c) \/ Ends(c)
    BY <1>0, RequestFailsEnds, RefuseEnds, AnswerEnds
       DEF Next, Extension, CallStep, Apply, Reconcile, PublishCapabilitiesChanged, ApplyCapabilities,
           Clear, Expire, vars
  <1>8. QED BY <1>1, <1>2, <1>3, <1>4, <1>5, <1>6, <1>7

LEMMA CallsAreSoundKept == ASSUME IInv, [Next]_vars PROVE CallsAreSound'
  <1>0. TypeOK /\ CallsAreSound
    BY DEF IInv, ReferencesHold
  <1> DEFINE Sound(c) ==
        /\ calls[c].pc \in {"captured", "synchronized", "posted", "answered"}
               => IsCapture(calls[c].baseline)
        /\ calls[c].pc # "idle" => calls[c].result = "none"
        /\ calls[c].params.target \subseteq shown
        /\ \A a, b \in calls[c].params.target : a = b
  <1>1. \A b : IsCapture(b) => IsCapture(b)'
    BY <1>0, ModelsStay
  <1>2. shown \subseteq shown'
    BY ShownGrows
  <1>3. ASSUME NEW c \in Callers, calls'[c] = calls[c] PROVE Sound(c)'
    <2>1. Sound(c)
      BY <1>0 DEF CallsAreSound
    <2>2. calls[c].pc \in {"captured", "synchronized", "posted", "answered"}
              => IsCapture(calls[c].baseline)'
      BY <1>1, <1>3, <2>1 DEF IsCapture
    <2>3. QED BY <1>2, <1>3, <2>1, <2>2 DEF IsCapture
  <1>4. ASSUME NEW c \in Callers, Moves(c) PROVE Sound(c)'
    <2>1. Sound(c)
      BY <1>0 DEF CallsAreSound
    <2>2. ASSUME calls'[c].pc \in {"captured", "synchronized", "posted", "answered"}
          PROVE  IsCapture(calls'[c].baseline)
      BY <1>4, <2>1, <2>2 DEF Moves
    <2>3. calls'[c].pc \in {"captured", "synchronized", "posted", "answered"}
              => IsCapture(calls[c].baseline)'
      BY <1>1, <2>2 DEF IsCapture
    <2>4. calls'[c].pc # "idle" => calls'[c].result = "none"
      BY <1>4, <2>1 DEF Moves
    <2>5. calls'[c].params.target \subseteq shown /\ \A a, b \in calls'[c].params.target : a = b
      BY <1>4, <2>1 DEF Moves
    <2>6. QED BY <1>2, <2>3, <2>4, <2>5
  <1>5. \A c \in Callers : Sound(c)'
    BY <1>3, <1>4, CallMoves
  <1>6. QED BY <1>5 DEF CallsAreSound

-----------------------------------------------------------------------------
(* The references *)

\* A baseline that is handled was captured, and no later one has been handled.
LEMMA HandledFacts ==
    ASSUME IInv, NEW c \in Callers, calls[c].pc = "answered", ~Overtaken(calls[c].baseline)
    PROVE  /\ IsCapture(calls[c].baseline) /\ calls[c].baseline \in Baselines
           /\ calls[c].baseline.revision \in DOMAIN models
           /\ DOMAIN models = 1..Len(models) /\ Len(models) \in Nat
           /\ \A known \in latest :
                  known.revision \in DOMAIN models /\ known.revision <= calls[c].baseline.revision
  <1>1. TypeOK
    BY DEF IInv, ReferencesHold
  <1>2. IsCapture(calls[c].baseline) /\ calls[c].baseline \in Baselines
    BY <1>1 DEF IInv, CallsAreSound, TypeOK, Calls
  <1>3. \A known \in latest : known.revision \in DOMAIN models
    BY DEF IInv, LatestIsSound, IsCapture
  <1>4. DOMAIN models = 1..Len(models) /\ Len(models) \in Nat
    BY <1>1, CurrentFacts
  <1>5. \A known \in latest : known.revision <= calls[c].baseline.revision
    BY <1>2, <1>3, <1>4 DEF Overtaken, IsCapture
  <1>6. QED BY <1>2, <1>3, <1>4, <1>5 DEF IsCapture

LEMMA NotRefused ==
    ASSUME NEW c \in Callers, Refusal(c) = "none"
    PROVE  /\ connected # {} /\ ~Overtaken(calls[c].baseline)
           /\ ~Unresolved(c) /\ ~FlagsDiffer(calls[c].baseline)
  BY DEF Refusal, Available

\* An object that was shown and is in a baseline that is handled is registered.
LEMMA ShownIsRegistered ==
    ASSUME IInv, connected # {}, NEW c \in Callers, calls[c].pc = "answered",
           ~Overtaken(calls[c].baseline),
           NEW object \in shown, object.key \in calls[c].baseline.objects
    PROVE  object.key \in DOMAIN references /\ references[object.key] = object.ref
  <1>1. ShownIsKnown /\ LatestIsSound
    BY DEF IInv
  <1>2. PICK known \in latest : TRUE
    BY <1>1 DEF LatestIsSound
  <1>3. /\ known.revision <= calls[c].baseline.revision
        /\ calls[c].baseline.revision \in DOMAIN models
        /\ object.key \in models[calls[c].baseline.revision].objects
        /\ DOMAIN models = 1..Len(models) /\ Len(models) \in Nat
        /\ known.revision \in DOMAIN models
    BY HandledFacts DEF IsCapture
  <1>4. object.key \in DOMAIN references
    BY <1>1, <1>3 DEF ShownIsKnown
  <1>5. QED BY <1>1, <1>4 DEF ShownIsKnown

LEMMA LatestIsSoundKept == ASSUME IInv, [Next]_vars PROVE LatestIsSound'
  <1>0. TypeOK /\ LatestIsSound
    BY DEF IInv, ReferencesHold
  <1>1. \A b : IsCapture(b) => IsCapture(b)'
    BY <1>0, ModelsStay
  <1>2. CASE UNCHANGED <<latest, newest, shown>> /\ (connected' # {} => connected # {})
    BY <1>0, <1>1, <1>2 DEF LatestIsSound
  <1>3. CASE latest' = {} /\ connected' = {}
    BY <1>3 DEF LatestIsSound
  <1>4. ASSUME NEW c \in Callers, Count(c) \/ Retain(c) PROVE LatestIsSound'
    <2>1. /\ calls[c].pc = "answered" /\ Refusal(c) = "none"
          /\ latest' = {calls[c].baseline} /\ newest' = calls[c].baseline.revision
      BY <1>4 DEF Count, Retain
    <2>2. IsCapture(calls[c].baseline)
      BY <2>1, HandledFacts, NotRefused
    <2>3. \A known \in latest' : IsCapture(known)'
      BY <1>1, <2>1, <2>2
    <2>4. QED BY <2>1, <2>3 DEF LatestIsSound
  <1>5. ASSUME NEW c \in Callers, ContinueSnapshot(c) PROVE LatestIsSound'
    <2>1. UNCHANGED <<latest, newest, connected>>
      BY <1>5 DEF ContinueSnapshot, broker
    <2>2. ASSUME connected # {}, latest = {} PROVE shown' = {}
      <3>1. shown = {}
        BY <1>0, <2>2 DEF LatestIsSound
      <3>2. \A i \in DOMAIN retention : Seen(retention[i].references) = {}
        BY <3>1 DEF IInv, RetainedIsShown
      <3>3. QED BY <1>5, <3>1, <3>2 DEF ContinueSnapshot, Range
    <2>3. QED BY <1>0, <1>1, <2>1, <2>2 DEF LatestIsSound
  <1>6. QED BY <1>2, <1>3, <1>4, <1>5
       DEF Next, Extension, CallStep, Apply, Reconcile, PublishCapabilitiesChanged, Capture, Synchronize,
           Post, ApplyCapabilities, TakeResponse, Clear, Expire, Request, RequestFails, Refuse,
           TooLarge, broker, history, vars

\* Continuing shows nothing new.
LEMMA ContinueShows ==
    ASSUME IInv, NEW c \in Callers, ContinueSnapshot(c)
    PROVE  shown' = shown /\ UNCHANGED <<models, connected, references, latest, retention>>
  <1>1. \A i \in DOMAIN retention : Seen(retention[i].references) \subseteq shown
    BY DEF IInv, RetainedIsShown
  <1>2. PICK n \in 1..issued :
            \/ UNCHANGED shown
            \/ shown' = shown \cup UNION {Seen(snapshot.references) :
                            snapshot \in {kept \in Range(retention) : kept.by = n}}
    BY DEF ContinueSnapshot
  <1>3. shown' = shown
    BY <1>1, <1>2 DEF Range
  <1>4. QED BY <1>3 DEF ContinueSnapshot, extension, broker

\* What a retained result shows, and which references it registers.
LEMMA RetainFacts ==
    ASSUME IInv, NEW c \in Callers, Retain(c)
    PROVE  LET b == calls[c].baseline
               refs == Reconciled(b)
           IN  /\ references' = refs /\ latest' = {b} /\ shown' = shown \cup Seen(refs)
               /\ DOMAIN refs = b.objects /\ b.objects = models[b.revision].objects
               /\ b.revision \in DOMAIN models
               /\ connected # {} /\ UNCHANGED <<models, connected>>
               /\ \A object \in shown :
                      object.key \in b.objects => refs[object.key] = object.ref
  <1> DEFINE b == calls[c].baseline
             refs == Reconciled(b)
  <1>1. /\ references' = refs /\ latest' = {b} /\ shown' = shown \cup Seen(refs)
        /\ calls[c].pc = "answered" /\ Refusal(c) = "none" /\ UNCHANGED <<models, connected>>
    BY DEF Retain, extension
  <1>2. connected # {} /\ ~Overtaken(b)
    BY <1>1, NotRefused
  <1>3. b.objects = models[b.revision].objects /\ b.revision \in DOMAIN models
    BY <1>1, <1>2, HandledFacts DEF IsCapture
  <1>4. DOMAIN refs = b.objects
    BY DEF Reconciled
  <1>5. ASSUME NEW object \in shown, object.key \in b.objects PROVE refs[object.key] = object.ref
    <2>1. object.key \in DOMAIN references /\ references[object.key] = object.ref
      BY <1>1, <1>2, <1>5, ShownIsRegistered
    <2>2. QED BY <1>5, <2>1 DEF Reconciled
  <1>6. QED BY <1>1, <1>2, <1>3, <1>4, <1>5

LEMMA ShownKept == ASSUME IInv, [Next]_vars PROVE StableReferences' /\ ShownIsKnown'
  <1>0. TypeOK /\ StableReferences /\ ShownIsKnown /\ LatestIsSound /\ ModelsGrow
    BY DEF IInv, ReferencesHold
  <1>1. CASE UNCHANGED <<models, references, latest, shown>> /\ (connected' # {} => connected # {})
    BY <1>0, <1>1 DEF StableReferences, ShownIsKnown
  <1>2. CASE UNCHANGED shown /\ connected' = {}
    BY <1>0, <1>2 DEF StableReferences, ShownIsKnown
  <1>3. CASE Apply
    <2>1. PICK m \in Models :
              /\ models' = Append(models, m)
              /\ m.objects \cap Used \subseteq Current.objects
              /\ UNCHANGED <<connected, references, latest, shown>>
      BY <1>0, <1>3, ApplyFacts
    <2> DEFINE n == Len(models)
    <2>2. /\ n \in Nat /\ n \in DOMAIN models /\ DOMAIN models = 1..n /\ DOMAIN models' = 1..(n + 1)
          /\ models'[n + 1] = m /\ Current = models[n]
          /\ \A i \in 1..n : models'[i] = models[i] /\ models[i].objects \subseteq Used
      BY <1>0, <2>1, AppendFacts, CurrentFacts DEF TypeOK
    <2>3. ASSUME connected # {}, NEW object \in shown, NEW known \in latest
          PROVE  /\ \E i \in DOMAIN models' : i <= known.revision /\ object.key \in models'[i].objects
                 /\ object.key \notin DOMAIN references =>
                        \A j \in DOMAIN models' : j >= known.revision => object.key \notin models'[j].objects
      <3>1. known.revision \in 1..n
        BY <1>0, <2>2 DEF LatestIsSound, IsCapture
      <3>2. PICK i \in 1..n : i <= known.revision /\ object.key \in models[i].objects
        BY <1>0, <2>2, <2>3 DEF ShownIsKnown
      <3>3. i \in DOMAIN models' /\ object.key \in models'[i].objects /\ object.key \in Used
        BY <2>2, <3>2
      <3>4. ASSUME object.key \notin DOMAIN references, NEW j \in 1..(n + 1), j >= known.revision
            PROVE  object.key \notin models'[j].objects
        <4>1. \A l \in 1..n : l >= known.revision => object.key \notin models[l].objects
          BY <1>0, <2>2, <2>3, <3>4 DEF ShownIsKnown
        <4>2. object.key \notin models[n].objects
          BY <2>2, <3>1, <4>1
        <4>3. QED BY <2>1, <2>2, <3>3, <3>4, <4>1, <4>2
      <3>5. QED BY <2>2, <3>2, <3>3, <3>4
    <2>4. ShownIsKnown'
      BY <1>0, <2>1, <2>3 DEF ShownIsKnown
    <2>5. QED BY <1>0, <2>1, <2>4 DEF StableReferences
  <1>4. ASSUME NEW c \in Callers, Count(c) PROVE StableReferences' /\ ShownIsKnown'
    <2> DEFINE b == calls[c].baseline
    <2>1. /\ calls[c].pc = "answered" /\ Refusal(c) = "none" /\ latest' = {b}
          /\ UNCHANGED <<models, connected, references, shown>>
      BY <1>4 DEF Count, extension
    <2>2. /\ connected # {} /\ b.revision \in 1..Len(models) /\ DOMAIN models = 1..Len(models)
          /\ Len(models) \in Nat
          /\ \A known \in latest : known.revision \in 1..Len(models) /\ known.revision <= b.revision
      BY <2>1, HandledFacts, NotRefused
    <2>3. ASSUME NEW object \in shown
          PROVE  /\ \E i \in DOMAIN models : i <= b.revision /\ object.key \in models[i].objects
                 /\ object.key \notin DOMAIN references =>
                        \A j \in DOMAIN models : j >= b.revision => object.key \notin models[j].objects
      <3>1. PICK known \in latest : TRUE
        BY <1>0, <2>2, <2>3 DEF LatestIsSound
      <3>2. QED BY <1>0, <2>2, <3>1 DEF ShownIsKnown
    <2>4. ShownIsKnown'
      BY <1>0, <2>1, <2>2, <2>3 DEF ShownIsKnown
    <2>5. QED BY <1>0, <2>1, <2>4 DEF StableReferences
  <1>5. ASSUME NEW c \in Callers, Retain(c) PROVE StableReferences' /\ ShownIsKnown'
    <2> DEFINE b == calls[c].baseline
               refs == Reconciled(b)
    <2>1. /\ references' = refs /\ latest' = {b} /\ shown' = shown \cup Seen(refs)
          /\ DOMAIN refs = b.objects /\ b.objects = models[b.revision].objects
          /\ b.revision \in DOMAIN models
          /\ connected # {} /\ UNCHANGED <<models, connected>>
          /\ \A object \in shown : object.key \in b.objects => refs[object.key] = object.ref
      BY <1>5, RetainFacts
    <2>2. \A known \in latest : known.revision \in DOMAIN models /\ known.revision <= b.revision
      BY <1>5, HandledFacts, NotRefused DEF Retain
    <2>3. DOMAIN models = 1..Len(models) /\ Len(models) \in Nat
      BY <1>0, CurrentFacts
    <2> HIDE DEF b, refs
    <2>4. \A object \in Seen(refs) : object.key \in b.objects /\ refs[object.key] = object.ref
      BY <2>1 DEF Seen
    <2>5. \A object \in shown' : object.key \in b.objects => refs[object.key] = object.ref
      BY <2>1, <2>4
    <2>6. StableReferences'
      <3>1. ASSUME NEW x \in shown', NEW y \in shown', x.key = y.key PROVE x.ref = y.ref
        <4>1. CASE x \in shown /\ y \in shown
          BY <1>0, <3>1, <4>1 DEF StableReferences
        <4>2. CASE x \in Seen(refs) \/ y \in Seen(refs)
          <5>1. x.key \in b.objects /\ y.key \in b.objects
            BY <2>4, <3>1, <4>2
          <5>2. QED BY <2>5, <3>1, <5>1
        <4>3. QED BY <2>1, <4>1, <4>2
      <3>2. QED BY <3>1 DEF StableReferences
    <2>7. ASSUME NEW object \in shown'
          PROVE  \E i \in DOMAIN models : i <= b.revision /\ object.key \in models[i].objects
      <3>1. CASE object \in Seen(refs)
        BY <2>1, <2>3, <2>4, <3>1
      <3>2. CASE object \in shown
        <4>1. PICK known \in latest : TRUE
          BY <1>0, <2>1, <3>2 DEF LatestIsSound
        <4>2. PICK i \in DOMAIN models : i <= known.revision /\ object.key \in models[i].objects
          BY <1>0, <2>1, <3>2, <4>1 DEF ShownIsKnown
        <4>3. i <= b.revision
          BY <2>1, <2>2, <2>3, <4>1, <4>2
        <4>4. QED BY <4>2, <4>3
      <3>3. QED BY <2>1, <3>1, <3>2
    <2>8. ASSUME NEW object \in shown', object.key \notin b.objects,
                 NEW j \in DOMAIN models, j >= b.revision
          PROVE  object.key \notin models[j].objects
      <3>1. PICK i \in DOMAIN models : i <= b.revision /\ object.key \in models[i].objects
        BY <2>7
      <3>2. models[i].objects \cap models[j].objects \subseteq b.objects
        BY <1>0, <2>1, <2>8, <3>1 DEF ModelsGrow
      <3>3. QED BY <2>8, <3>1, <3>2
    <2>9. ShownIsKnown'
      BY <2>1, <2>5, <2>7, <2>8 DEF ShownIsKnown
    <2>10. QED BY <2>6, <2>9
  <1>6. ASSUME NEW c \in Callers, ContinueSnapshot(c) PROVE StableReferences' /\ ShownIsKnown'
    BY <1>0, <1>6, ContinueShows DEF StableReferences, ShownIsKnown
  <1>7. QED BY <1>1, <1>2, <1>3, <1>4, <1>5, <1>6
       DEF Next, Extension, CallStep, Reconcile, PublishCapabilitiesChanged, Capture, Synchronize,
           Post, ApplyCapabilities, TakeResponse, Clear, Expire, Request, RequestFails, Refuse,
           TooLarge, extension, broker, history, vars

LEMMA RetainedIsShownKept == ASSUME IInv, [Next]_vars PROVE RetainedIsShown'
  <1>0. TypeOK /\ RetainedIsShown /\ retention \in Seq(Retained)
    BY DEF IInv, ReferencesHold, TypeOK
  <1>1. shown \subseteq shown'
    BY ShownGrows
  <1>2. CASE UNCHANGED retention
    BY <1>0, <1>1, <1>2 DEF RetainedIsShown
  <1>3. CASE retention' = <<>>
    BY <1>3 DEF RetainedIsShown
  <1>4. CASE Expire
    <2>1. /\ DOMAIN retention = 1..Len(retention) /\ Len(retention) \in Nat
          /\ DOMAIN retention' = 1..(Len(retention) - 1)
          /\ \A i \in DOMAIN retention' : i + 1 \in DOMAIN retention /\ retention'[i] = retention[i + 1]
      BY <1>0, <1>4, TailFacts DEF Expire
    <2>2. QED BY <1>0, <1>1, <2>1 DEF RetainedIsShown
  <1>5. ASSUME NEW c \in Callers, Retain(c) PROVE RetainedIsShown'
    <2> DEFINE refs == Reconciled(calls[c].baseline)
               entry == [by |-> issued + 1, references |-> refs]
    <2>1. PICK evicted \in 0..Len(retention) :
              retention' = Append(SubSeq(retention, evicted + 1, Len(retention)), entry)
      BY <1>5 DEF Retain
    <2> DEFINE rest == SubSeq(retention, evicted + 1, Len(retention))
    <2>2. /\ rest \in Seq(Retained)
          /\ \A i \in DOMAIN rest : evicted + i \in DOMAIN retention /\ rest[i] = retention[evicted + i]
      BY <1>0
    <2>3. Seen(refs) \subseteq shown' /\ entry.references = refs
      BY <1>5 DEF Retain
    <2>4. retention' = Append(rest, entry)
      BY <2>1
    <2> HIDE DEF rest, entry, refs
    <2>5. rest \in Seq(Retained \cup {entry}) /\ entry \in Retained \cup {entry}
      BY <2>2
    <2>6. \A i \in DOMAIN retention' : retention'[i] = entry \/ (i \in DOMAIN rest /\ retention'[i] = rest[i])
      BY <2>4, <2>5, AppendFacts
    <2>7. QED BY <1>0, <1>1, <2>2, <2>3, <2>6 DEF RetainedIsShown
  <1>6. QED BY <1>2, <1>3, <1>4, <1>5
       DEF Next, Extension, CallStep, Apply, Reconcile, PublishCapabilitiesChanged, Capture, Synchronize,
           Post, ApplyCapabilities, TakeResponse, Clear, Request, RequestFails, Refuse, Count,
           TooLarge, ContinueSnapshot, broker, vars

LEMMA NothingOutlivesKept == ASSUME IInv, [Next]_vars PROVE NothingOutlivesConnection'
  <1>0. TypeOK /\ NothingOutlivesConnection
    BY DEF IInv, ReferencesHold
  <1>1. CASE UNCHANGED <<references, latest, retention>> /\ (connected' = {} => connected = {})
    BY <1>0, <1>1 DEF NothingOutlivesConnection
  <1>2. CASE Clear
    BY <1>2 DEF Clear, NothingOutlivesConnection
  <1>3. CASE Expire
    BY <1>0, <1>3 DEF Expire, NothingOutlivesConnection
  <1>4. ASSUME NEW c \in Callers, Count(c) \/ Retain(c) PROVE NothingOutlivesConnection'
    <2>1. connected # {} /\ connected' = connected
      BY <1>4, NotRefused DEF Count, Retain
    <2>2. QED BY <2>1 DEF NothingOutlivesConnection
  <1>5. QED BY <1>1, <1>2, <1>3, <1>4
       DEF Next, Extension, CallStep, Apply, Reconcile, PublishCapabilitiesChanged, Capture, Synchronize,
           Post, ApplyCapabilities, TakeResponse, Request, RequestFails, Refuse,
           TooLarge, ContinueSnapshot, broker, vars

-----------------------------------------------------------------------------
(* The capability states on their way *)

\* What is on the wire after a step: the same, one more, one less in front, or
\* one answer less.
LEMMA StateMessages ==
    ASSUME NEW state \in CapabilityStates, NEW c \in Callers
    PROVE  /\ [type |-> "capabilities", state |-> state] \in CapabilityMessages
           /\ AnswerTo(c) \notin CapabilityMessages
           /\ \A m \in CapabilityMessages : m.state \in CapabilityStates /\ m # AnswerTo(c)
           /\ \A d \in Callers : AnswerTo(c) = AnswerTo(d) => c = d
  BY DEF CapabilityMessages, AnswerTo

LEMMA PublishFacts ==
    ASSUME TypeOK, PublishCapabilitiesChanged
    PROVE  LET n == Len(wire)
           IN  /\ n \in Nat /\ DOMAIN wire = 1..n /\ DOMAIN wire' = 1..(n + 1)
               /\ \A i \in 1..n : wire'[i] = wire[i]
               /\ wire'[n + 1] = [type |-> "capabilities", state |-> capability]
               /\ wire'[n + 1] \in CapabilityMessages /\ wire'[n + 1].state = capability
               /\ capability.revision > published /\ published' = capability.revision
               /\ UNCHANGED <<models, capability, connected, calls>>
  <1>1. wire \in Seq(Messages) /\ [type |-> "capabilities", state |-> capability] \in Messages
    BY DEF TypeOK, Messages, CapabilityMessages
  <1>2. wire' = Append(wire, [type |-> "capabilities", state |-> capability])
    BY DEF PublishCapabilitiesChanged
  <1>3. [type |-> "capabilities", state |-> capability] \in CapabilityMessages
    BY DEF TypeOK, CapabilityMessages
  <1>4. QED BY <1>1, <1>2, <1>3, AppendFacts DEF PublishCapabilitiesChanged, broker

LEMMA PostFacts ==
    ASSUME TypeOK, NEW c \in Callers, Post(c)
    PROVE  LET n == Len(wire)
           IN  /\ n \in Nat /\ DOMAIN wire = 1..n /\ DOMAIN wire' = 1..(n + 1)
               /\ \A i \in 1..n : wire'[i] = wire[i]
               /\ wire'[n + 1] = AnswerTo(c)
               /\ UNCHANGED <<models, capability, published, connected>>
  <1>1. wire \in Seq(Messages) /\ AnswerTo(c) \in Messages
    BY DEF TypeOK, Messages
  <1>2. QED BY <1>1, AppendFacts DEF Post, extension, broker

LEMMA TakenFacts ==
    ASSUME TypeOK, ApplyCapabilities \/ TakeResponse
    PROVE  LET n == Len(wire)
           IN  /\ n \in Nat /\ DOMAIN wire = 1..n /\ DOMAIN wire' = 1..(n - 1)
               /\ 1 \in 1..n /\ Head(wire) = wire[1]
               /\ \A i \in 1..(n - 1) : i + 1 \in 1..n /\ wire'[i] = wire[i + 1]
               /\ connected # {} /\ UNCHANGED <<models, capability, published>>
  <1>1. wire \in Seq(Messages) /\ wire # <<>> /\ wire' = Tail(wire)
    BY DEF TypeOK, ApplyCapabilities, TakeResponse
  <1>2. QED BY <1>1, TailFacts DEF ApplyCapabilities, TakeResponse, extension

LEMMA ForgottenFacts ==
    ASSUME TypeOK, NEW c \in Callers, RequestFails(c)
    PROVE  /\ UNCHANGED <<models, capability, published, connected>>
           /\ Len(wire) \in Nat /\ DOMAIN wire = 1..Len(wire)
           /\ \/ wire' = wire /\ \A i \in DOMAIN wire : wire[i] # AnswerTo(c)
              \/ \E r \in 1..Len(wire) :
                    /\ wire[r] = AnswerTo(c)
                    /\ DOMAIN wire' = 1..(Len(wire) - 1)
                    /\ \A i \in 1..(Len(wire) - 1) :
                           wire'[i] = IF i < r THEN wire[i] ELSE wire[i + 1]
  <1>1. wire \in Seq(Messages)
    BY DEF TypeOK
  <1>2. Len(wire) \in Nat /\ DOMAIN wire = 1..Len(wire)
    BY <1>1
  <1>3. UNCHANGED <<models, capability, published, connected>>
    BY DEF RequestFails, extension, broker
  <1>4. CASE wire' = wire /\ \A i \in DOMAIN wire : wire[i] # AnswerTo(c)
    BY <1>2, <1>3, <1>4
  <1>5. ASSUME NEW r \in DOMAIN wire, wire[r] = AnswerTo(c), wire' = RemoveAt(wire, r)
        PROVE  \E q \in 1..Len(wire) :
                    /\ wire[q] = AnswerTo(c)
                    /\ DOMAIN wire' = 1..(Len(wire) - 1)
                    /\ \A i \in 1..(Len(wire) - 1) :
                           wire'[i] = IF i < q THEN wire[i] ELSE wire[i + 1]
    <2>1. /\ DOMAIN wire' = 1..(Len(wire) - 1)
          /\ \A i \in 1..(Len(wire) - 1) : wire'[i] = IF i < r THEN wire[i] ELSE wire[i + 1]
      BY <1>1, <1>5, RemoveFacts
    <2>2. QED BY <1>2, <1>5, <2>1
  <1>6. QED BY <1>2, <1>3, <1>4, <1>5, RequestFailsFacts

\* The order of the states does not depend on anything but their messages: a
\* wire that keeps some of them, in their order, keeps it.
LEMMA FewerStates ==
    ASSUME IInv, UNCHANGED <<capability, published, connected>>,
           \E at \in [DOMAIN wire' -> DOMAIN wire] :
               /\ \A i \in DOMAIN wire' : wire'[i] = wire[at[i]]
               /\ \A i, j \in DOMAIN wire' : i < j => at[i] < at[j],
           \A i \in DOMAIN wire : IsState(i) => \E j \in DOMAIN wire' : wire'[j] = wire[i]
    PROVE  StatesInOrder'
  <1>1. StatesInOrder
    BY DEF IInv
  <1>2. PICK at \in [DOMAIN wire' -> DOMAIN wire] :
               /\ \A i \in DOMAIN wire' : wire'[i] = wire[at[i]]
               /\ \A i, j \in DOMAIN wire' : i < j => at[i] < at[j]
    OBVIOUS
  <1>3. \A i \in DOMAIN wire' : at[i] \in DOMAIN wire /\ (IsState(i)' <=> IsState(at[i]))
    BY <1>2 DEF IsState
  <1>4. ASSUME NEW i \in DOMAIN wire', IsState(i)'
        PROVE  /\ wire'[i].state.revision <= published'
               /\ UpTo(wire'[i].state, capability')
               /\ \A browser \in connected' : Before(browser, wire'[i].state)
               /\ \A j \in DOMAIN wire' : i < j /\ IsState(j)' => Before(wire'[i].state, wire'[j].state)
    BY <1>1, <1>2, <1>3, <1>4 DEF StatesInOrder
  <1>5. connected' # {} =>
           \/ \E browser \in connected' : browser.revision = published'
           \/ \E i \in DOMAIN wire' : IsState(i)' /\ wire'[i].state.revision = published'
    BY <1>1 DEF StatesInOrder, IsState
  <1>6. QED BY <1>1, <1>4, <1>5 DEF StatesInOrder, UpTo, Before, IsState

\* Chrome still reports frozen tabs if it did at the capture.
LEMMA SupportLasts ==
    ASSUME TypeOK, ModelsGrow, NEW b, IsCapture(b), b.frozen
    PROVE  Current.frozen
  <1>1. /\ b.revision \in 1..Len(models) /\ Len(models) \in Nat /\ DOMAIN models = 1..Len(models)
        /\ Current = models[Len(models)] /\ Len(models) \in 1..Len(models)
    BY CurrentFacts DEF IsCapture
  <1>2. b.revision <= Len(models) /\ models[b.revision].frozen
    BY <1>1 DEF IsCapture
  <1>3. QED BY <1>1, <1>2 DEF ModelsGrow

LEMMA ReconcileFacts ==
    ASSUME IInv, Reconcile
    PROVE  /\ Before(capability, capability')
           /\ capability'.revision = capability.revision + 1
           /\ capability'.frozen = Current.frozen
           /\ UNCHANGED <<models, published, wire, connected, calls>>
  <1>1. TypeOK /\ ModelsGrow
    BY DEF IInv, ReferencesHold
  <1>2. capability'.revision = capability.revision + 1 /\ capability'.frozen = Current.frozen
    BY DEF Reconcile
  <1>3. QED BY <1>1, <1>2 DEF Before, ModelsGrow, TypeOK, CapabilityStates, Reconcile, broker

\* The state that the reader takes is newer than the one it has.
LEMMA ApplyCapabilitiesFacts ==
    ASSUME IInv, ApplyCapabilities
    PROVE  /\ IsState(1) /\ connected' = {wire[1].state}
           /\ \E browser \in connected : connected = {browser} /\ Before(browser, wire[1].state)
           /\ calls' = calls
  <1>1. TypeOK /\ StatesInOrder /\ connected # {} /\ wire # <<>> /\ Head(wire).type = "capabilities"
    BY DEF IInv, ReferencesHold, ApplyCapabilities
  <1>2. 1 \in DOMAIN wire /\ Head(wire) = wire[1] /\ IsState(1)
    BY <1>1, HeadFacts DEF IsState
  <1>3. PICK browser \in connected : TRUE
    BY <1>1
  <1>4. connected = {browser}
    BY <1>1, <1>3 DEF StatesInOrder
  <1>5. Before(browser, wire[1].state)
    BY <1>1, <1>2 DEF StatesInOrder
  <1>6. wire[1].state.revision \in Nat /\ browser.revision \in Nat
    BY <1>1, <1>2, HeadFacts DEF TypeOK, CapabilityStates
  <1>7. connected' = {wire[1].state}
    BY <1>2, <1>4, <1>5, <1>6 DEF ApplyCapabilities, Before
  <1>8. QED BY <1>2, <1>4, <1>5, <1>7 DEF ApplyCapabilities

LEMMA StatesInOrderKept == ASSUME IInv, [Next]_vars PROVE StatesInOrder'
  <1>0. TypeOK /\ StatesInOrder
    BY DEF IInv, ReferencesHold
  <1>1. CASE UNCHANGED <<capability, published, wire, connected>>
    BY <1>0, <1>1 DEF StatesInOrder, UpTo, Before, IsState
  <1>2. /\ capability.revision \in Nat /\ published \in Nat
        /\ \A browser \in connected : browser.revision \in Nat
        /\ \A i \in DOMAIN wire : IsState(i) => wire[i].state.revision \in Nat
    BY <1>0 DEF TypeOK, CapabilityStates, IsState, CapabilityMessages
  <1>3. CASE Reconcile
    <2>1. /\ Before(capability, capability') /\ UNCHANGED <<published, wire, connected>>
          /\ capability'.revision = capability.revision + 1
      BY <1>3, ReconcileFacts
    <2>2. \A state : state.revision \in Nat /\ UpTo(state, capability) => UpTo(state, capability')
      BY <1>2, <2>1 DEF UpTo, Before
    <2>3. QED BY <1>0, <1>2, <2>1, <2>2 DEF StatesInOrder, IsState
  <1>4. CASE PublishCapabilitiesChanged
    <2>0. PICK n : n = Len(wire)
      OBVIOUS
    <2>1. /\ n \in Nat /\ DOMAIN wire = 1..n /\ DOMAIN wire' = 1..(n + 1)
          /\ \A i \in 1..n : wire'[i] = wire[i]
          /\ wire'[n + 1] \in CapabilityMessages /\ wire'[n + 1].state = capability
          /\ capability.revision > published /\ published' = capability.revision
          /\ UNCHANGED <<capability, connected>>
      BY <1>0, <1>4, <2>0, PublishFacts
    <2>2. /\ \A i \in 1..n : IsState(i)' <=> IsState(i)
          /\ IsState(n + 1)' /\ n + 1 \in DOMAIN wire'
      BY <2>1 DEF IsState
    <2>3. \A state : state.revision \in Nat /\ state.revision <= published /\ UpTo(state, capability)
                         => Before(state, capability)
      BY <1>2, <2>1 DEF UpTo, Before
    <2>4. ASSUME NEW i \in 1..n, IsState(i)
          PROVE  /\ wire'[i].state.revision <= published'
                 /\ UpTo(wire'[i].state, capability')
                 /\ \A browser \in connected' : Before(browser, wire'[i].state)
                 /\ \A j \in DOMAIN wire' : i < j /\ IsState(j)' => Before(wire'[i].state, wire'[j].state)
      <3>1. /\ wire[i].state.revision <= published /\ UpTo(wire[i].state, capability)
            /\ \A browser \in connected : Before(browser, wire[i].state)
            /\ \A j \in 1..n : i < j /\ IsState(j) => Before(wire[i].state, wire[j].state)
        BY <1>0, <2>1, <2>4 DEF StatesInOrder
      <3>2. Before(wire[i].state, capability)
        BY <1>2, <2>1, <2>3, <2>4, <3>1
      <3>3. wire'[i].state.revision <= published'
        BY <1>2, <2>1, <2>4, <3>1
      <3>4. ASSUME NEW j \in DOMAIN wire', i < j, IsState(j)' PROVE Before(wire'[i].state, wire'[j].state)
        <4>1. CASE j \in 1..n
          BY <2>1, <2>2, <3>1, <3>4, <4>1
        <4>2. CASE j = n + 1
          BY <2>1, <3>2, <4>2
        <4>3. QED BY <2>1, <3>4, <4>1, <4>2
      <3>5. QED BY <2>1, <3>1, <3>3, <3>4
    <2>5. /\ wire'[n + 1].state.revision <= published' /\ UpTo(wire'[n + 1].state, capability')
          /\ \A browser \in connected' : Before(browser, wire'[n + 1].state)
      <3>1. \A browser \in connected : browser.revision <= published /\ UpTo(browser, capability)
        BY <1>0 DEF StatesInOrder
      <3>2. QED BY <1>2, <2>1, <2>3, <3>1 DEF UpTo
    <2>6. \A i \in DOMAIN wire' : IsState(i)' =>
             /\ wire'[i].state.revision <= published'
             /\ UpTo(wire'[i].state, capability')
             /\ \A browser \in connected' : Before(browser, wire'[i].state)
             /\ \A j \in DOMAIN wire' : i < j /\ IsState(j)' => Before(wire'[i].state, wire'[j].state)
      <3>1. TAKE i \in DOMAIN wire'
      <3>2. HAVE IsState(i)'
      <3>3. CASE i \in 1..n
        BY <2>2, <2>4, <3>2, <3>3
      <3>4. CASE i = n + 1
        BY <2>1, <2>5, <3>4
      <3>5. QED BY <2>1, <3>3, <3>4
    <2>7. published' <= capability'.revision
      BY <1>2, <2>1
    <2>8. \A browser \in connected' : browser.revision <= published' /\ UpTo(browser, capability')
      BY <1>0, <1>2, <2>1 DEF StatesInOrder
    <2>9. \A a, b \in connected' : a = b
      BY <1>0, <2>1 DEF StatesInOrder
    <2>10. QED BY <2>1, <2>2, <2>6, <2>7, <2>8, <2>9 DEF StatesInOrder, UpTo, Before, IsState
  <1>5. ASSUME NEW c \in Callers, Post(c) PROVE StatesInOrder'
    <2> DEFINE n == Len(wire)
    <2>1. /\ n \in Nat /\ DOMAIN wire = 1..n /\ DOMAIN wire' = 1..(n + 1)
          /\ \A i \in 1..n : wire'[i] = wire[i]
          /\ wire'[n + 1] = AnswerTo(c)
          /\ UNCHANGED <<capability, published, connected>>
      BY <1>0, <1>5, PostFacts
    <2> HIDE DEF n
    <2>2. \A i \in DOMAIN wire' : IsState(i)' <=> i \in 1..n /\ IsState(i)
      <3>1. wire'[n + 1] \notin CapabilityMessages
        BY <1>0, <2>1, StateMessages DEF TypeOK
      <3>2. \A i \in DOMAIN wire' : i \in 1..n \/ (i = n + 1 /\ i \notin 1..n)
        BY <2>1
      <3>3. QED BY <2>1, <3>1, <3>2 DEF IsState
    <2>3. QED BY <1>0, <2>1, <2>2 DEF StatesInOrder, UpTo, Before, IsState
  <1>6. CASE ApplyCapabilities
    <2> DEFINE n == Len(wire)
    <2>1. /\ n \in Nat /\ DOMAIN wire = 1..n /\ DOMAIN wire' = 1..(n - 1)
          /\ 1 \in 1..n
          /\ \A i \in 1..(n - 1) : i + 1 \in 1..n /\ wire'[i] = wire[i + 1]
          /\ UNCHANGED <<capability, published>>
      BY <1>0, <1>6, TakenFacts
    <2> HIDE DEF n
    <2>2. PICK browser \in connected : connected = {browser} /\ Before(browser, wire[1].state)
      BY <1>6, ApplyCapabilitiesFacts
    <2>3. IsState(1) /\ connected' = {wire[1].state}
      BY <1>6, ApplyCapabilitiesFacts
    <2>4. \A i \in DOMAIN wire' : IsState(i)' <=> IsState(i + 1)
      BY <2>1 DEF IsState
    <2>5. \A i \in DOMAIN wire' : IsState(i)' =>
             /\ wire'[i].state.revision <= published'
             /\ UpTo(wire'[i].state, capability')
             /\ \A b \in connected' : Before(b, wire'[i].state)
             /\ \A j \in DOMAIN wire' : i < j /\ IsState(j)' => Before(wire'[i].state, wire'[j].state)
      <3>1. TAKE i \in DOMAIN wire'
      <3>2. HAVE IsState(i)'
      <3>3. /\ i + 1 \in 1..n /\ IsState(i + 1) /\ wire'[i] = wire[i + 1] /\ 1 < i + 1
        BY <2>1, <2>4, <3>2
      <3>4. Before(wire[1].state, wire[i + 1].state)
        BY <1>0, <2>1, <2>3, <3>3 DEF StatesInOrder
      <3>5. ASSUME NEW j \in DOMAIN wire', i < j, IsState(j)' PROVE Before(wire'[i].state, wire'[j].state)
        <4>1. j + 1 \in 1..n /\ IsState(j + 1) /\ wire'[j] = wire[j + 1] /\ i + 1 < j + 1
          BY <2>1, <2>4, <3>5
        <4>2. QED BY <1>0, <2>1, <3>3, <4>1 DEF StatesInOrder
      <3>6. QED BY <1>0, <2>1, <2>3, <3>3, <3>4, <3>5 DEF StatesInOrder
    <2>6. published' <= capability'.revision
      BY <1>0, <2>1 DEF StatesInOrder
    <2>7. \A b \in connected' : b.revision <= published' /\ UpTo(b, capability')
      BY <1>0, <2>1, <2>3 DEF StatesInOrder
    <2>8. \A a, b \in connected' : a = b
      BY <2>3
    <2>9. \/ \E b \in connected' : b.revision = published'
          \/ \E i \in DOMAIN wire' : IsState(i)' /\ wire'[i].state.revision = published'
      <3>1. CASE wire[1].state.revision = published
        BY <2>1, <2>3, <3>1
      <3>2. CASE wire[1].state.revision # published
        <4>1. browser.revision # published
          <5>1. wire[1].state.revision <= published
            BY <1>0, <2>1, <2>3 DEF StatesInOrder
          <5>2. QED BY <1>2, <2>1, <2>2, <2>3, <5>1 DEF Before
        <4>2. PICK i \in 1..n : IsState(i) /\ wire[i].state.revision = published
          BY <1>0, <2>1, <2>2, <4>1 DEF StatesInOrder
        <4>3. i - 1 \in DOMAIN wire' /\ wire'[i - 1] = wire[i]
          BY <2>1, <3>2, <4>2
        <4>4. QED BY <2>1, <2>4, <4>2, <4>3 DEF IsState
      <3>3. QED BY <3>1, <3>2
    <2>10. QED BY <2>5, <2>6, <2>7, <2>8, <2>9 DEF StatesInOrder, UpTo, Before, IsState
  <1>7. CASE TakeResponse
    <2> DEFINE n == Len(wire)
    <2>1. /\ n \in Nat /\ DOMAIN wire = 1..n /\ DOMAIN wire' = 1..(n - 1)
          /\ \A i \in 1..(n - 1) : i + 1 \in 1..n /\ wire'[i] = wire[i + 1]
      BY <1>0, <1>7, TakenFacts
    <2> HIDE DEF n
    <2>2. UNCHANGED <<capability, published, connected>>
      BY <1>7 DEF TakeResponse, extension, broker
    <2>3. wire[1] = AnswerTo(Head(wire).caller) /\ Head(wire).caller \in Callers
      BY <1>7, AnsweredCall
    <2>4. ~IsState(1)
      BY <1>0, <2>3, StateMessages DEF IsState, TypeOK
    <2>5. \A i \in DOMAIN wire : IsState(i) => \E j \in DOMAIN wire' : wire'[j] = wire[i]
      <3>1. TAKE i \in DOMAIN wire
      <3>2. HAVE IsState(i)
      <3>3. i - 1 \in 1..(n - 1) /\ (i - 1) + 1 = i
        BY <2>1, <2>4, <3>2
      <3>4. QED BY <2>1, <3>3
    <2>6. \E at \in [DOMAIN wire' -> DOMAIN wire] :
               /\ \A i \in DOMAIN wire' : wire'[i] = wire[at[i]]
               /\ \A i, j \in DOMAIN wire' : i < j => at[i] < at[j]
      <3> DEFINE at == [i \in DOMAIN wire' |-> i + 1]
      <3>1. /\ at \in [DOMAIN wire' -> DOMAIN wire]
            /\ \A i \in DOMAIN wire' : wire'[i] = wire[at[i]]
            /\ \A i, j \in DOMAIN wire' : i < j => at[i] < at[j]
        BY <2>1
      <3> HIDE DEF at
      <3>2. QED BY <3>1
    <2>7. QED BY <2>2, <2>5, <2>6, FewerStates
  <1>8. CASE Clear
    <2>1. connected' = {} /\ wire' = <<>> /\ UNCHANGED <<capability, published>>
      BY <1>8 DEF Clear, extension
    <2>2. QED BY <1>0, <2>1 DEF StatesInOrder
  <1>9. ASSUME NEW c \in Callers, RequestFails(c) PROVE StatesInOrder'
    <2> DEFINE n == Len(wire)
    <2>1. UNCHANGED <<capability, published, connected>> /\ n \in Nat /\ DOMAIN wire = 1..n
      BY <1>0, <1>9, ForgottenFacts
    <2>2. CASE wire' = wire
      BY <1>1, <2>1, <2>2
    <2>3. ASSUME NEW r \in 1..n, wire[r] = AnswerTo(c),
                 DOMAIN wire' = 1..(n - 1),
                 \A i \in 1..(n - 1) : wire'[i] = IF i < r THEN wire[i] ELSE wire[i + 1]
          PROVE  StatesInOrder'
      <3> HIDE DEF n
      <3> DEFINE at == [i \in DOMAIN wire' |-> IF i < r THEN i ELSE i + 1]
      <3>1. /\ at \in [DOMAIN wire' -> DOMAIN wire]
            /\ \A i \in DOMAIN wire' : wire'[i] = wire[at[i]]
            /\ \A i, j \in DOMAIN wire' : i < j => at[i] < at[j]
        BY <2>1, <2>3
      <3>2. ~IsState(r)
        BY <1>0, <2>3, StateMessages DEF IsState, TypeOK
      <3>3. \A i \in DOMAIN wire : IsState(i) => \E j \in DOMAIN wire' : wire'[j] = wire[i]
        <4>1. TAKE i \in DOMAIN wire
        <4>2. HAVE IsState(i)
        <4>3. CASE i < r
          BY <2>1, <2>3, <4>3
        <4>4. CASE i > r
          <5>1. i - 1 \in 1..(n - 1) /\ ~(i - 1 < r) /\ (i - 1) + 1 = i
            BY <2>1, <2>3, <4>4
          <5>2. QED BY <2>3, <5>1
        <4>5. QED BY <2>1, <3>2, <4>2, <4>3, <4>4
      <3>4. QED BY <2>1, <3>1, <3>3, FewerStates
    <2>4. QED BY <1>0, <1>9, <2>2, <2>3, ForgottenFacts
  <1>10. QED BY <1>1, <1>3, <1>4, <1>5, <1>6, <1>7, <1>8, <1>9
       DEF Next, Extension, CallStep, Apply, Capture, Synchronize, Expire, Request, Refuse, Count, Retain,
           TooLarge, ContinueSnapshot, extension, broker, vars

-----------------------------------------------------------------------------
(* The answers on their way *)

\* What AnswersFollowStates says of one answer.
Follows(i, c) ==
    /\ calls[c].pc = "posted"
    /\ \A j \in DOMAIN wire : wire[j] = AnswerTo(c) => i = j
    /\ \/ \E browser \in connected : browser.revision >= calls[c].awaits
       \/ \E j \in DOMAIN wire : j < i /\ IsState(j) /\ wire[j].state.revision >= calls[c].awaits

LEMMA AnswersFollowStatesKept == ASSUME IInv, [Next]_vars PROVE AnswersFollowStates'
  <1>0. /\ TypeOK /\ AnswersFollowStates /\ StatesInOrder
        /\ \A c \in Callers : calls[c].awaits \in Nat
        /\ \A i \in DOMAIN wire, c \in Callers : wire[i] = AnswerTo(c) => Follows(i, c)
    BY DEF IInv, ReferencesHold, AnswersFollowStates, Follows, TypeOK, Calls
  <1>1. SUFFICES \A i \in DOMAIN wire', c \in Callers : wire'[i] = AnswerTo(c) => Follows(i, c)'
    BY DEF AnswersFollowStates, Follows
  \* The call of an answer on the wire is not one that another call's step moves.
  <1>2. CASE /\ UNCHANGED <<wire, connected>>
             /\ \A c \in Callers : calls[c].pc = "posted" => calls'[c] = calls[c]
    BY <1>0, <1>2 DEF Follows, IsState
  <1>3. CASE PublishCapabilitiesChanged
    <2>0. PICK n : n = Len(wire)
      OBVIOUS
    <2>1. /\ n \in Nat /\ DOMAIN wire = 1..n /\ DOMAIN wire' = 1..(n + 1)
          /\ \A i \in 1..n : wire'[i] = wire[i]
          /\ wire'[n + 1] \in CapabilityMessages
          /\ UNCHANGED <<capability, connected, calls>>
      BY <1>0, <1>3, <2>0, PublishFacts
    <2>2. \A c \in Callers : wire'[n + 1] # AnswerTo(c)
      BY <1>0, <2>1, StateMessages DEF TypeOK
    <2>3. ASSUME NEW i \in DOMAIN wire', NEW c \in Callers, wire'[i] = AnswerTo(c)
          PROVE  Follows(i, c)'
      <3>1. i \in 1..n /\ wire[i] = AnswerTo(c)
        BY <2>1, <2>2, <2>3
      <3>2. Follows(i, c)
        BY <1>0, <2>1, <3>1
      <3>3. \A j \in DOMAIN wire' : wire'[j] = AnswerTo(c) => i = j
        BY <2>1, <2>2, <3>2 DEF Follows
      <3>4. \/ \E browser \in connected' : browser.revision >= calls'[c].awaits
            \/ \E j \in DOMAIN wire' : j < i /\ IsState(j)' /\ wire'[j].state.revision >= calls'[c].awaits
        BY <2>1, <3>2 DEF Follows, IsState
      <3>5. QED BY <2>1, <3>2, <3>3, <3>4 DEF Follows
    <2>4. QED BY <2>3
  <1>4. ASSUME NEW d \in Callers, Post(d), connected # {}
        PROVE  \A i \in DOMAIN wire', c \in Callers : wire'[i] = AnswerTo(c) => Follows(i, c)'
    <2>0. PICK n : n = Len(wire)
      OBVIOUS
    <2>1. /\ n \in Nat /\ DOMAIN wire = 1..n /\ DOMAIN wire' = 1..(n + 1)
          /\ \A i \in 1..n : wire'[i] = wire[i]
          /\ wire'[n + 1] = AnswerTo(d)
          /\ UNCHANGED <<capability, published, connected>>
      BY <1>0, <1>4, <2>0, PostFacts
    <2>2. /\ calls[d].pc = "synchronized" /\ published >= calls[d].awaits
          /\ calls' = [calls EXCEPT ![d].pc = "posted"]
      BY <1>4 DEF Post
    <2>3. /\ calls'[d].pc = "posted" /\ calls'[d].awaits = calls[d].awaits
          /\ \A c \in Callers \ {d} : calls'[c] = calls[c]
      BY <1>0, <2>2, AdvanceFacts DEF PCs
    <2>4. \A i \in 1..n : wire[i] # AnswerTo(d)
      BY <1>0, <2>1, <2>2 DEF Follows
    <2>5. ASSUME NEW i \in 1..n, NEW c \in Callers, wire[i] = AnswerTo(c) PROVE Follows(i, c)'
      <3>1. Follows(i, c) /\ c # d /\ wire'[n + 1] # AnswerTo(c)
        BY <1>0, <2>1, <2>4, <2>5, StateMessages DEF TypeOK
      <3>2. calls'[c] = calls[c]
        BY <2>3, <3>1
      <3>3. \A j \in DOMAIN wire' : wire'[j] = AnswerTo(c) => i = j
        BY <2>1, <3>1 DEF Follows
      <3>4. \/ \E browser \in connected' : browser.revision >= calls'[c].awaits
            \/ \E j \in DOMAIN wire' : j < i /\ IsState(j)' /\ wire'[j].state.revision >= calls'[c].awaits
        BY <2>1, <3>1, <3>2 DEF Follows, IsState
      <3>5. QED BY <3>1, <3>2, <3>3, <3>4 DEF Follows
    <2>6. Follows(n + 1, d)'
      <3>1. \A j \in DOMAIN wire' : wire'[j] = AnswerTo(d) => n + 1 = j
        BY <2>1, <2>4
      <3>2. /\ \A browser \in connected : browser.revision \in Nat
            /\ \A i \in DOMAIN wire : IsState(i) => wire[i].state.revision \in Nat
            /\ published \in Nat /\ calls[d].awaits \in Nat
        BY <1>0 DEF TypeOK, CapabilityStates, IsState, CapabilityMessages
      <3>3. CASE \E browser \in connected : browser.revision = published
        BY <2>1, <2>2, <2>3, <3>1, <3>2, <3>3 DEF Follows
      <3>4. ASSUME NEW i \in DOMAIN wire, IsState(i), wire[i].state.revision = published
            PROVE  Follows(n + 1, d)'
        <4>1. i \in DOMAIN wire' /\ i < n + 1 /\ IsState(i)' /\ wire'[i].state.revision >= calls'[d].awaits
          BY <2>1, <2>2, <2>3, <3>2, <3>4 DEF IsState
        <4>2. (n + 1)' = n + 1
          BY <2>1
        <4>3. QED BY <2>3, <3>1, <4>1, <4>2 DEF Follows
      <3>5. QED BY <1>0, <1>4, <3>3, <3>4 DEF StatesInOrder
    <2>7. TAKE i \in DOMAIN wire', c \in Callers
    <2>8. HAVE wire'[i] = AnswerTo(c)
    <2>9. CASE i \in 1..n
      BY <2>1, <2>5, <2>8, <2>9
    <2>10. CASE i = n + 1
      <3>1. c = d
        BY <1>0, <2>1, <2>8, <2>10, StateMessages DEF TypeOK
      <3>2. Follows(i, c)' <=> Follows(n + 1, d)'
        BY <2>1, <2>10, <3>1 DEF Follows
      <3>3. QED BY <2>6, <3>2
    <2>11. QED BY <2>1, <2>9, <2>10
  <1>5. ASSUME ApplyCapabilities \/ TakeResponse,
               NEW i \in DOMAIN wire', NEW c \in Callers, wire'[i] = AnswerTo(c)
        PROVE  Follows(i, c)'
    <2>0. PICK n : n = Len(wire)
      OBVIOUS
    <2>1. /\ n \in Nat /\ DOMAIN wire = 1..n /\ DOMAIN wire' = 1..(n - 1)
          /\ 1 \in 1..n
          /\ \A k \in 1..(n - 1) : k + 1 \in 1..n /\ wire'[k] = wire[k + 1]
      BY <1>0, <1>5, <2>0, TakenFacts
    <2>2. Follows(i + 1, c) /\ i + 1 \in 1..n /\ wire[i + 1] = AnswerTo(c)
      BY <1>0, <1>5, <2>1
    <2>3. calls'[c] = calls[c]
      <3>1. CASE ApplyCapabilities
        BY <3>1, ApplyCapabilitiesFacts
      <3>2. CASE TakeResponse
        <4> DEFINE d == Head(wire).caller
        <4>1. /\ d \in Callers /\ wire[1] = AnswerTo(d) /\ calls' = [calls EXCEPT ![d].pc = "answered"]
          BY <3>2, AnsweredCall
        <4> HIDE DEF d
        <4>2. c # d
          <5>1. i + 1 # 1
            BY <1>5, <2>1
          <5>2. QED BY <2>1, <2>2, <4>1, <5>1 DEF Follows
        <4>3. QED BY <1>0, <4>1, <4>2, AdvanceFacts DEF PCs
      <3>3. QED BY <1>5, <3>1, <3>2
    <2>4. \A j \in DOMAIN wire' : wire'[j] = AnswerTo(c) => i = j
      <3>1. TAKE j \in DOMAIN wire'
      <3>2. HAVE wire'[j] = AnswerTo(c)
      <3>3. i + 1 = j + 1
        BY <2>1, <2>2, <3>2 DEF Follows
      <3>4. QED BY <1>5, <2>1, <3>3
    <2>5. /\ \A browser \in connected \cup connected' : browser.revision \in Nat
          /\ calls[c].awaits \in Nat
      <3>1. TypeOK'
        BY <1>0, <1>5, BrokerTypes
      <3>2. QED BY <1>0, <3>1 DEF TypeOK, CapabilityStates
    <2>6. CASE \E browser \in connected : browser.revision >= calls[c].awaits
      <3>1. \E browser \in connected' : browser.revision >= calls[c].awaits
        <4>1. CASE ApplyCapabilities
          <5>1. PICK browser \in connected : connected = {browser} /\ Before(browser, wire[1].state)
            BY <4>1, ApplyCapabilitiesFacts
          <5>2. connected' = {wire[1].state}
            BY <4>1, ApplyCapabilitiesFacts
          <5>3. QED BY <2>5, <2>6, <5>1, <5>2 DEF Before
        <4>2. CASE TakeResponse
          BY <2>6, <4>2 DEF TakeResponse, broker
        <4>3. QED BY <1>5, <4>1, <4>2
      <3>2. QED BY <2>2, <2>3, <2>4, <3>1 DEF Follows
    <2>7. ASSUME NEW j \in DOMAIN wire, j < i + 1, IsState(j), wire[j].state.revision >= calls[c].awaits
          PROVE  Follows(i, c)'
      <3>1. CASE j = 1
        <4>1. ApplyCapabilities
          <5>1. ~TakeResponse
            BY <1>0, <2>7, <3>1, AnsweredCall, StateMessages DEF IsState, TypeOK
          <5>2. QED BY <1>5, <5>1
        <4>2. connected' = {wire[1].state}
          BY <4>1, ApplyCapabilitiesFacts
        <4>3. QED BY <2>2, <2>3, <2>4, <2>7, <3>1, <4>2 DEF Follows
      <3>2. CASE j # 1
        <4>1. j - 1 \in DOMAIN wire' /\ wire'[j - 1] = wire[j] /\ j - 1 < i
          <5>1. j - 1 \in 1..(n - 1) /\ (j - 1) + 1 = j /\ i \in 1..(n - 1)
            BY <1>5, <2>1, <2>7, <3>2
          <5>2. QED BY <2>1, <2>7, <5>1
        <4>2. PICK k : k = j - 1
          OBVIOUS
        <4>3. k \in DOMAIN wire' /\ k < i /\ IsState(k)' /\ wire'[k].state.revision >= calls'[c].awaits
          BY <2>3, <2>7, <4>1, <4>2 DEF IsState
        <4>4. QED BY <2>2, <2>3, <2>4, <4>3 DEF Follows
      <3>3. QED BY <3>1, <3>2
    <2>8. QED BY <2>2, <2>6, <2>7 DEF Follows
  <1>6. ASSUME NEW d \in Callers, RequestFails(d),
               NEW i \in DOMAIN wire', NEW c \in Callers, wire'[i] = AnswerTo(c)
        PROVE  Follows(i, c)'
    <2>0. PICK n : n = Len(wire)
      OBVIOUS
    <2>1. UNCHANGED connected /\ n \in Nat /\ DOMAIN wire = 1..n
      BY <1>0, <1>6, <2>0, ForgottenFacts
    <2>2. \A k \in Callers \ {d} : calls'[k] = calls[k]
      BY <1>0, <1>6, RequestFailsEnds DEF Ends
    <2>3. CASE wire' = wire /\ \A k \in DOMAIN wire : wire[k] # AnswerTo(d)
      <3>1. Follows(i, c) /\ c # d
        BY <1>0, <1>6, <2>3
      <3>2. QED BY <2>1, <2>2, <2>3, <3>1 DEF Follows, IsState
    <2>4. ASSUME NEW r \in 1..n, wire[r] = AnswerTo(d),
                 DOMAIN wire' = 1..(n - 1),
                 \A k \in 1..(n - 1) : wire'[k] = IF k < r THEN wire[k] ELSE wire[k + 1]
          PROVE  Follows(i, c)'
      <3> DEFINE at(k) == IF k < r THEN k ELSE k + 1
      <3>1. /\ \A k \in DOMAIN wire' : at(k) \in 1..n /\ at(k) # r /\ wire'[k] = wire[at(k)]
            /\ \A k, l \in DOMAIN wire' : at(k) = at(l) => k = l
        BY <2>1, <2>4
      <3>2. Follows(at(i), c) /\ wire[at(i)] = AnswerTo(c)
        BY <1>0, <1>6, <2>1, <3>1
      <3>3. c # d
        BY <2>1, <2>4, <3>1, <3>2, <1>6 DEF Follows
      <3>4. \A j \in DOMAIN wire' : wire'[j] = AnswerTo(c) => i = j
        BY <1>6, <2>1, <3>1, <3>2 DEF Follows
      <3>5. ASSUME NEW j \in DOMAIN wire, j < at(i), IsState(j), wire[j].state.revision >= calls[c].awaits
            PROVE  Follows(i, c)'
        <4>1. j # r
          BY <1>0, <2>4, <3>5, StateMessages DEF IsState, TypeOK
        <4>2. PICK k : k = IF j < r THEN j ELSE j - 1
          OBVIOUS
        <4>3. k \in DOMAIN wire' /\ at(k) = j /\ k < i
          <5>1. /\ j \in 1..n /\ i \in 1..(n - 1) /\ r \in 1..n /\ n \in Nat
                /\ at(i) = IF i < r THEN i ELSE i + 1
            BY <1>6, <2>1, <2>4, <3>5
          <5>2. CASE j < r
            <6>1. k = j /\ k < i /\ k \in 1..(n - 1)
              BY <3>5, <4>2, <5>1, <5>2
            <6>2. QED BY <2>4, <5>1, <5>2, <6>1
          <5>3. CASE j > r
            <6>1. k = j - 1 /\ k < i /\ k \in 1..(n - 1) /\ ~(k < r) /\ k + 1 = j
              BY <3>5, <4>2, <5>1, <5>3
            <6>2. QED BY <2>4, <5>1, <5>3, <6>1
          <5>4. QED BY <4>1, <5>1, <5>2, <5>3
        <4>4. IsState(k)' /\ wire'[k].state.revision >= calls'[c].awaits
          BY <2>2, <3>1, <3>3, <3>5, <4>3 DEF IsState
        <4>5. QED BY <2>2, <3>2, <3>3, <3>4, <4>3, <4>4 DEF Follows
      <3>6. CASE \E browser \in connected : browser.revision >= calls[c].awaits
        BY <2>1, <2>2, <3>2, <3>3, <3>4, <3>6 DEF Follows
      <3>7. QED BY <3>2, <3>5, <3>6 DEF Follows
    <2>5. QED BY <1>0, <1>6, <2>0, <2>3, <2>4, ForgottenFacts
  <1>7. CASE Clear
    BY <1>7 DEF Clear
  <1>8. ASSUME NEW c \in Callers, Capture(c) \/ Synchronize(c)
        PROVE  \A d \in Callers : calls[d].pc = "posted" => calls'[d] = calls[d]
    BY <1>0, <1>8, CaptureFacts, SynchronizeFacts
  <1>9. ASSUME NEW c \in Callers, Request(c) \/ Refuse(c) \/ Count(c) \/ Retain(c) \/ TooLarge(c)
                                   \/ ContinueSnapshot(c)
        PROVE  \A d \in Callers : calls[d].pc = "posted" => calls'[d] = calls[d]
    <2>1. CASE Request(c)
      BY <1>0, <2>1, RequestFacts
    <2>2. CASE Ends(c) /\ calls[c].pc # "posted"
      BY <2>2 DEF Ends
    <2>3. QED BY <1>0, <1>9, <2>1, <2>2, RefuseEnds, AnswerEnds
         DEF Refuse, Count, Retain, TooLarge, ContinueSnapshot
  <1>10. QED
    <2>1. CASE connected # {} /\ \E c \in Callers : Post(c)
      BY <1>4, <2>1
    <2>2. QED
    BY <1>2, <1>3, <1>5, <1>6, <1>7, <1>8, <1>9, <2>1
       DEF Next, Extension, CallStep, Apply, Reconcile, Capture, Synchronize, Expire, Request, Refuse,
           Count, Retain, TooLarge, ContinueSnapshot, broker, vars

\* The capability states that the broker has or will see.
Live == {capability} \cup connected \cup {wire[i].state : i \in {j \in DOMAIN wire : IsState(j)}}

LEMMA LiveFacts ==
    ASSUME IInv
    PROVE  \A state \in Live : state.revision \in Nat /\ UpTo(state, capability)
  <1>1. TypeOK /\ StatesInOrder
    BY DEF IInv, ReferencesHold
  <1>2. \A i \in DOMAIN wire : IsState(i) =>
            wire[i].state \in CapabilityStates /\ UpTo(wire[i].state, capability)
    BY <1>1 DEF StatesInOrder, IsState, CapabilityMessages
  <1>3. QED BY <1>1, <1>2 DEF Live, TypeOK, StatesInOrder, UpTo, CapabilityStates

\* A step makes no state but the extension's next one.
LEMMA LiveKept == ASSUME IInv, [Next]_vars PROVE Live' \subseteq Live \cup {capability'}
  <1>0. TypeOK
    BY DEF IInv, ReferencesHold
  <1>1. SUFFICES ASSUME \/ \E browser \in connected' : browser \notin Live
                        \/ \E i \in DOMAIN wire' : IsState(i)' /\ wire'[i].state \notin Live
                 PROVE FALSE
    BY DEF Live
  <1>2. CASE UNCHANGED <<wire, connected>>
    BY <1>1, <1>2 DEF Live, IsState
  <1>3. CASE PublishCapabilitiesChanged
    BY <1>0, <1>1, <1>3, PublishFacts DEF Live, IsState
  <1>4. ASSUME NEW c \in Callers, Post(c) PROVE FALSE
    <2>1. AnswerTo(c) \notin CapabilityMessages
      BY <1>0, StateMessages DEF TypeOK
    <2>2. QED BY <1>0, <1>1, <1>4, <2>1, PostFacts DEF Live, IsState
  <1>5. CASE ApplyCapabilities \/ TakeResponse
    <2>1. \A i \in DOMAIN wire' : i + 1 \in DOMAIN wire /\ wire'[i] = wire[i + 1]
      BY <1>0, <1>5, TakenFacts
    <2>2. \A i \in DOMAIN wire' : IsState(i)' => wire'[i].state \in Live
      BY <2>1 DEF Live, IsState
    <2>3. \A browser \in connected' : browser \in Live
      <3>1. CASE ApplyCapabilities
        <4>1. IsState(1) /\ 1 \in DOMAIN wire /\ connected' = {wire[1].state}
          BY <1>0, <3>1, ApplyCapabilitiesFacts, TakenFacts
        <4>2. QED BY <4>1 DEF Live
      <3>2. CASE TakeResponse
        BY <3>2 DEF TakeResponse, broker, Live
      <3>3. QED BY <1>5, <3>1, <3>2
    <2>4. QED BY <1>1, <2>2, <2>3
  <1>6. CASE Clear
    BY <1>1, <1>6 DEF Clear
  <1>7. ASSUME NEW c \in Callers, RequestFails(c) PROVE FALSE
    <2>1. connected' = connected
      BY <1>7 DEF RequestFails, broker
    <2>2. \A i \in DOMAIN wire' : \E j \in DOMAIN wire : wire'[i] = wire[j]
      <3>1. CASE wire' = wire
        BY <3>1
      <3>2. ASSUME NEW r \in 1..Len(wire), DOMAIN wire' = 1..(Len(wire) - 1),
                   DOMAIN wire = 1..Len(wire), Len(wire) \in Nat,
                   \A i \in 1..(Len(wire) - 1) : wire'[i] = IF i < r THEN wire[i] ELSE wire[i + 1]
            PROVE  \A i \in DOMAIN wire' : \E j \in DOMAIN wire : wire'[i] = wire[j]
        BY <3>2
      <3>3. QED BY <1>0, <1>7, <3>1, <3>2, ForgottenFacts
    <2>3. QED BY <1>1, <2>1, <2>2 DEF Live, IsState
  <1>8. QED BY <1>2, <1>3, <1>4, <1>5, <1>6, <1>7
       DEF Next, Extension, CallStep, Apply, Reconcile, Capture, Synchronize, Expire, Request, Refuse,
           Count, Retain, TooLarge, ContinueSnapshot, broker, vars

LEMMA CapabilityMoves ==
    ASSUME [Next]_vars PROVE Reconcile \/ capability' = capability
  BY DEF Next, Extension, CallStep, Apply, PublishCapabilitiesChanged, Capture, Synchronize, Post,
         ApplyCapabilities, TakeResponse, Clear, Expire, Request, RequestFails, Refuse, Count, Retain,
         TooLarge, ContinueSnapshot, extension, vars

\* What AwaitedSupport says of one call.
Supported(c) ==
    /\ calls[c].awaits <= capability.revision
    /\ calls[c].baseline.frozen => \A state \in Live : Supports(state, c)
Waited(c) == \A browser \in connected : browser.revision >= calls[c].awaits
Waiting(c) == calls[c].pc \in {"synchronized", "posted", "answered"}

LEMMA SupportedMeans ==
    AwaitedSupport <=> \A c \in Callers :
                           (Waiting(c) => Supported(c)) /\ (calls[c].pc = "answered" => Waited(c))
  BY DEF AwaitedSupport, Waiting, Supported, Waited, Live

\* While the call waits, its baseline's support stays that of the awaited states.
LEMMA SupportKept ==
    ASSUME IInv, [Next]_vars, NEW c \in Callers, Waiting(c),
           calls'[c].awaits = calls[c].awaits, calls'[c].baseline = calls[c].baseline
    PROVE  Supported(c)'
  <1>1. TypeOK /\ Supported(c) /\ ModelsGrow /\ IsCapture(calls[c].baseline)
    BY SupportedMeans DEF IInv, ReferencesHold, CallsAreSound, Waiting
  <1>2. calls[c].awaits \in Nat /\ capability.revision \in Nat
    BY <1>1 DEF TypeOK, Calls, CapabilityStates
  <1>3. CASE Reconcile
    <2>1. capability'.revision = capability.revision + 1 /\ capability'.frozen = Current.frozen
      BY <1>3, ReconcileFacts
    <2>2. calls[c].baseline.frozen => Current.frozen
      BY <1>1, SupportLasts
    <2>3. \A state : Supports(state, c)' <=> Supports(state, c)
      BY DEF Supports
    <2>4. calls[c].baseline.frozen => \A state \in Live' : Supports(state, c)
      BY <1>1, <2>1, <2>2, LiveKept DEF Supported, Supports
    <2>5. QED BY <1>1, <1>2, <2>1, <2>3, <2>4 DEF Supported, Supports
  <1>4. CASE capability' = capability
    <2>1. capability \in Live
      BY DEF Live
    <2>2. QED BY <1>1, <1>4, <2>1, LiveKept DEF Supported, Supports
  <1>5. QED BY <1>3, <1>4, CapabilityMoves

\* The state that a call waits for is one with its baseline's support.
LEMMA SynchronizeSupports ==
    ASSUME IInv, NEW c \in Callers, Synchronize(c)
    PROVE  Supported(c)'
  <1>1. TypeOK /\ ModelsGrow /\ IsCapture(calls[c].baseline)
    BY DEF IInv, ReferencesHold, CallsAreSound, Synchronize
  <1>2. /\ calls'[c].awaits = capability.revision /\ calls'[c].baseline = calls[c].baseline
        /\ capability.frozen = Current.frozen /\ Live' = Live /\ capability' = capability
        /\ capability.revision \in Nat
    <2>1. calls'[c].awaits = capability.revision /\ calls'[c].baseline = calls[c].baseline
      BY <1>1, SynchronizeFacts
    <2>2. capability.frozen = Current.frozen /\ UNCHANGED <<capability, connected, wire>>
      BY DEF Synchronize, extension, broker
    <2>3. Live' = Live
      BY <2>2 DEF Live, IsState
    <2>4. QED BY <1>1, <2>1, <2>2, <2>3 DEF TypeOK, CapabilityStates
  <1>3. calls[c].baseline.frozen => capability.frozen
    BY <1>1, <1>2, SupportLasts
  <1>4. \A state \in Live : state.revision >= capability.revision => state = capability
    BY <1>2, LiveFacts DEF UpTo, Before
  <1>5. QED BY <1>2, <1>3, <1>4 DEF Supported, Supports

\* What a step may do to one call.
LEMMA CallCases ==
    ASSUME IInv, [Next]_vars, NEW c \in Callers
    PROVE  \/ calls'[c] = calls[c]
           \/ Synchronize(c) \/ Post(c)
           \/ TakeResponse /\ c = Head(wire).caller
           \/ calls'[c].pc \in {"idle", "requested", "captured"}
  <1>0. TypeOK
    BY DEF IInv, ReferencesHold
  <1>1. ASSUME NEW d \in Callers, Capture(d) \/ Request(d)
        PROVE  calls'[c] = calls[c] \/ calls'[c].pc \in {"idle", "requested", "captured"}
    BY <1>0, <1>1, CaptureFacts, RequestFacts
  <1>2. ASSUME NEW d \in Callers, Synchronize(d), d # c PROVE calls'[c] = calls[c]
    BY <1>0, <1>2, SynchronizeFacts
  <1>3. ASSUME NEW d \in Callers, Post(d), d # c PROVE calls'[c] = calls[c]
    BY <1>0, <1>3, AdvanceFacts DEF Post, PCs
  <1>4. ASSUME TakeResponse, c # Head(wire).caller PROVE calls'[c] = calls[c]
    <2> DEFINE d == Head(wire).caller
    <2>1. d \in Callers /\ calls' = [calls EXCEPT ![d].pc = "answered"] /\ c # d
      BY <1>4, AnsweredCall
    <2> HIDE DEF d
    <2>2. QED BY <1>0, <2>1, AdvanceFacts DEF PCs
  <1>5. ASSUME NEW d \in Callers, Ends(d) PROVE calls'[c] = calls[c] \/ calls'[c].pc = "idle"
    BY <1>5 DEF Ends
  <1>6. \/ calls' = calls \/ TakeResponse
        \/ \E d \in Callers : Capture(d) \/ Synchronize(d) \/ Post(d) \/ Request(d) \/ Ends(d)
    BY <1>0, RequestFailsEnds, RefuseEnds, AnswerEnds
       DEF Next, Extension, CallStep, Apply, Reconcile, PublishCapabilitiesChanged, ApplyCapabilities,
           Clear, Expire, vars
  <1>7. QED BY <1>1, <1>2, <1>3, <1>4, <1>5, <1>6

\* The broker's capability state only gets newer.
LEMMA ConnectedMoves ==
    ASSUME IInv, [Next]_vars, NEW new \in connected'
    PROVE  \E old \in connected : old.revision <= new.revision
  <1>1. TypeOK /\ TypeOK'
    BY TypesKept DEF IInv, ReferencesHold
  <1>2. new.revision \in Nat /\ \A old \in connected : old.revision \in Nat
    BY <1>1 DEF TypeOK, CapabilityStates
  <1>3. CASE ApplyCapabilities
    BY <1>2, <1>3, ApplyCapabilitiesFacts DEF Before
  <1>4. CASE Clear
    BY <1>4 DEF Clear
  <1>5. CASE connected' = connected
    BY <1>2, <1>5
  <1>6. QED BY <1>3, <1>4, <1>5
       DEF Next, Extension, CallStep, Apply, Reconcile, PublishCapabilitiesChanged, Capture, Synchronize,
           Post, TakeResponse, Expire, Request, RequestFails, Refuse, Count, Retain, TooLarge,
           ContinueSnapshot, broker, vars

\* When its answer is taken, the broker has the state that the call waited for.
LEMMA AnswerWaited ==
    ASSUME IInv, TakeResponse
    PROVE  LET c == Head(wire).caller
           IN  /\ c \in Callers /\ calls[c].pc = "posted" /\ Waited(c) /\ connected' = connected
               /\ calls'[c].awaits = calls[c].awaits /\ calls'[c].baseline = calls[c].baseline
  <1> DEFINE c == Head(wire).caller
  <1>1. /\ c \in Callers /\ calls[c].pc = "posted" /\ wire[1] = AnswerTo(c) /\ 1 \in DOMAIN wire
        /\ calls' = [calls EXCEPT ![c].pc = "answered"]
    BY AnsweredCall
  <1> HIDE DEF c
  <1>2. TypeOK /\ AnswersFollowStates /\ StatesInOrder
    BY DEF IInv, ReferencesHold
  <1>3. DOMAIN wire = 1..Len(wire)
    BY <1>2 DEF TypeOK
  <1>4. \E browser \in connected : browser.revision >= calls[c].awaits
    BY <1>1, <1>2, <1>3 DEF AnswersFollowStates
  <1>5. Waited(c)
    BY <1>2, <1>4 DEF Waited, StatesInOrder
  <1>6. calls'[c].awaits = calls[c].awaits /\ calls'[c].baseline = calls[c].baseline
    BY <1>1, <1>2, AdvanceFacts DEF PCs
  <1>7. QED BY <1>1, <1>5, <1>6 DEF TakeResponse, broker, c

LEMMA AwaitedSupportKept == ASSUME IInv, [Next]_vars PROVE AwaitedSupport'
  <1>0. TypeOK /\ AwaitedSupport
    BY DEF IInv, ReferencesHold
  <1>1. ASSUME NEW c \in Callers
        PROVE  (Waiting(c)' => Supported(c)') /\ (calls'[c].pc = "answered" => Waited(c)')
    <2>1. CASE calls'[c] = calls[c]
      <3>1. Waiting(c)' => Supported(c)'
        BY <2>1, SupportKept DEF Waiting
      <3>2. ASSUME calls'[c].pc = "answered", NEW new \in connected' PROVE new.revision >= calls'[c].awaits
        <4>1. PICK old \in connected : old.revision <= new.revision
          BY <3>2, ConnectedMoves
        <4>2. old.revision >= calls[c].awaits
          BY <1>0, <2>1, <3>2, SupportedMeans DEF Waited
        <4>3. TypeOK'
          BY <1>0, TypesKept
        <4>4. old.revision \in Nat /\ new.revision \in Nat /\ calls[c].awaits \in Nat
          BY <1>0, <3>2, <4>3 DEF TypeOK, CapabilityStates, Calls
        <4>5. QED BY <2>1, <4>1, <4>2, <4>4
      <3>3. QED BY <3>1, <3>2 DEF Waited
    <2>2. CASE Synchronize(c)
      <3>1. calls'[c].pc = "synchronized"
        BY <1>0, <2>2, SynchronizeFacts
      <3>2. QED BY <2>2, <3>1, SynchronizeSupports
    <2>3. CASE Post(c)
      <3>1. /\ calls'[c].pc = "posted" /\ calls[c].pc = "synchronized"
            /\ calls'[c].awaits = calls[c].awaits /\ calls'[c].baseline = calls[c].baseline
        BY <1>0, <2>3, AdvanceFacts DEF Post, PCs
      <3>2. QED BY <3>1, SupportKept DEF Waiting
    <2>4. CASE TakeResponse /\ c = Head(wire).caller
      <3>1. /\ calls[c].pc = "posted" /\ Waited(c) /\ connected' = connected
            /\ calls'[c].awaits = calls[c].awaits /\ calls'[c].baseline = calls[c].baseline
        BY <2>4, AnswerWaited
      <3>2. QED BY <3>1, SupportKept DEF Waiting, Waited
    <2>5. CASE calls'[c].pc \in {"idle", "requested", "captured"}
      BY <2>5 DEF Waiting
    <2>6. QED BY <2>1, <2>2, <2>3, <2>4, <2>5, CallCases
  <1>2. QED BY <1>1 DEF AwaitedSupport, Waiting, Supported, Waited, Live

-----------------------------------------------------------------------------
(* The theorems *)

LEMMA InitIInv == ASSUME Init PROVE IInv
  <1>1. PICK objects \in SUBSET Keys, frozen \in BOOLEAN :
            /\ models = <<[objects |-> objects, frozen |-> frozen]>>
            /\ capability = [revision |-> 1, frozen |-> frozen, effective |-> TRUE]
    BY DEF Init
  <1> DEFINE m == [objects |-> objects, frozen |-> frozen]
  <1>2. /\ m \in Models /\ models = <<m>> /\ m.frozen = frozen
        /\ models \in Seq(Models) /\ models # <<>>
        /\ DOMAIN models = {1} /\ Len(models) = 1 /\ models[1] = m
    BY <1>1 DEF Models
  <1>3. /\ capability \in CapabilityStates /\ capability.frozen = frozen /\ capability.revision = 1
    BY <1>1 DEF CapabilityStates
  <1>4. references \in References /\ shown = {} /\ latest = {} /\ wire = <<>> /\ retention = <<>>
    <2>1. [key \in {} |-> key] \in [{} -> Refs]
      OBVIOUS
    <2>2. QED BY <2>1 DEF References, Init
  <1>5. /\ calls \in [Callers -> Calls]
        /\ \A c \in Callers : calls[c].pc = "idle" /\ calls[c].params.target = {}
    BY DEF Init, Idle, Calls, PCs, Params, NoParams, Baselines, NoBaseline, Results
  <1>6. TypeOK
    BY <1>2, <1>3, <1>4, <1>5, RuntimeAssumption DEF Init, TypeOK
  <1>7. StableReferences /\ NothingOutlivesConnection
    BY <1>4 DEF StableReferences, NothingOutlivesConnection, Init
  <1>8. ModelsGrow
    BY <1>2, <1>3 DEF ModelsGrow, Current, Last
  <1>9. CallsAreSound /\ AnswersFollowStates /\ AwaitedSupport
    BY <1>4, <1>5 DEF CallsAreSound, AnswersFollowStates, AwaitedSupport
  <1>10. LatestIsSound /\ ShownIsKnown /\ RetainedIsShown
    BY <1>4 DEF LatestIsSound, ShownIsKnown, RetainedIsShown, Init
  <1>11. StatesInOrder
    BY <1>3, <1>4 DEF StatesInOrder, Init, UpTo
  <1>12. QED BY <1>6, <1>7, <1>8, <1>9, <1>10, <1>11 DEF IInv, ReferencesHold

LEMMA NextIInv == ASSUME IInv, [Next]_vars PROVE IInv'
  <1>1. TypeOK'
    BY TypesKept DEF IInv, ReferencesHold
  <1>2. QED BY <1>1, ModelsGrowKept, CallsAreSoundKept, LatestIsSoundKept, ShownKept, RetainedIsShownKept,
               NothingOutlivesKept, StatesInOrderKept, AnswersFollowStatesKept, AwaitedSupportKept
           DEF IInv, ReferencesHold

\* The inductive invariant behind the theorems holds: captured baselines are
\* true, what was shown is registered or gone, capability states keep their
\* order and their place ahead of the answers that wait for them.
THEOREM Invariance == Spec => []IInv
  BY InitIInv, NextIInv, PTL DEF Spec

\* An object keeps its reference over the whole connection and nothing of the
\* connection outlives it (ReferenceRegistry::reconcile, the revision check of
\* execute, BrokerRuntime::clear).
THEOREM ReferencesStay == Spec => []ReferencesHold
  <1>1. IInv => ReferencesHold
    BY DEF IInv
  <1>2. QED BY <1>1, Invariance, PTL

\* A step that ends an answered call is its own Refuse, Count, Retain or TooLarge.
LEMMA AnsweredEnds ==
    ASSUME IInv, [Next]_vars, NEW c \in Callers, calls[c].pc = "answered", calls'[c].result # "none"
    PROVE  Refuse(c) \/ Count(c) \/ Retain(c) \/ TooLarge(c)
  <1>0. TypeOK /\ calls[c].result = "none"
    BY DEF IInv, ReferencesHold, CallsAreSound
  <1>1. ASSUME NEW d \in Callers, Capture(d) \/ Request(d) \/ Synchronize(d)
        PROVE  calls'[c] = calls[c]
    BY <1>0, <1>1, CaptureFacts, RequestFacts, SynchronizeFacts
  <1>2. ASSUME NEW d \in Callers, Post(d) PROVE calls'[c].result = "none"
    BY <1>0, <1>2, AdvanceFacts DEF Post, PCs
  <1>3. ASSUME TakeResponse PROVE calls'[c].result = "none"
    <2> DEFINE d == Head(wire).caller
    <2>1. d \in Callers /\ calls' = [calls EXCEPT ![d].pc = "answered"]
      BY <1>3, AnsweredCall
    <2> HIDE DEF d
    <2>2. QED BY <1>0, <2>1, AdvanceFacts DEF PCs
  <1>4. ASSUME NEW d \in Callers, d # c, Ends(d) PROVE calls'[c] = calls[c]
    BY <1>4 DEF Ends
  <1>5. ASSUME NEW d \in Callers, RequestFails(d) \/ ContinueSnapshot(d) PROVE calls'[c] = calls[c]
    BY <1>0, <1>5, RequestFailsEnds, AnswerEnds DEF RequestFails, ContinueSnapshot, Ends
  <1>6. \/ calls' = calls \/ TakeResponse
        \/ \E d \in Callers : \/ Capture(d) \/ Synchronize(d) \/ Post(d) \/ Request(d) \/ RequestFails(d)
                              \/ ContinueSnapshot(d)
                              \/ (Refuse(d) \/ Count(d) \/ Retain(d) \/ TooLarge(d)) /\ Ends(d)
    BY <1>0, RefuseEnds, AnswerEnds
       DEF Next, Extension, CallStep, Apply, Reconcile, PublishCapabilitiesChanged, ApplyCapabilities,
           Clear, Expire, vars
  <1>7. QED BY <1>0, <1>1, <1>2, <1>3, <1>4, <1>5, <1>6

\* What a call that was refused got.
LEMMA RefusedFacts ==
    ASSUME IInv, NEW c \in Callers, Refuse(c)
    PROVE  calls[c].pc = "answered" /\ calls'[c].result = Refusal(c)
  <1>1. TypeOK
    BY DEF IInv, ReferencesHold
  <1>2. QED BY <1>1, RefusalIsResult, ReturnFacts DEF Refuse

LEMMA HandedOutFacts ==
    ASSUME IInv, NEW c \in Callers, Count(c) \/ Retain(c) \/ TooLarge(c)
    PROVE  /\ calls'[c].result \in {"page", "counts", "RESULT_TOO_LARGE"}
           /\ calls'[c].result # "RESULT_TOO_LARGE" => Refusal(c) = "none"
  <1>1. TypeOK
    BY DEF IInv, ReferencesHold
  <1>2. PICK result \in {"page", "counts", "RESULT_TOO_LARGE"} : Return(c, result)
    BY DEF Count, Retain, TooLarge
  <1>3. QED BY <1>1, <1>2, ReturnFacts DEF Results, Count, Retain, TooLarge

LEMMA TargetFound ==
    ASSUME IInv, [Next]_vars, NEW c \in Callers, calls[c].pc = "answered",
           calls'[c].result = "NOT_FOUND", NEW object \in calls[c].params.target
    PROVE  object.key \notin calls[c].baseline.objects
  <1>1. Refuse(c) /\ Refusal(c) = "NOT_FOUND"
    BY AnsweredEnds, RefusedFacts, HandedOutFacts
  <1>2. connected # {} /\ ~Overtaken(calls[c].baseline) /\ Unresolved(c)
    BY <1>1 DEF Refusal, Available
  <1>3. object \in shown /\ \A other \in calls[c].params.target : other = object
    BY DEF IInv, CallsAreSound
  <1>4. \A key \in calls[c].baseline.objects : Reconciled(calls[c].baseline)[key] # object.ref
    BY <1>2, <1>3 DEF Unresolved
  <1>5. SUFFICES ASSUME object.key \in calls[c].baseline.objects PROVE FALSE
    OBVIOUS
  <1>6. object.key \in DOMAIN references /\ references[object.key] = object.ref
    BY <1>2, <1>3, <1>5, ShownIsRegistered
  <1>7. Reconciled(calls[c].baseline)[object.key] = object.ref
    BY <1>5, <1>6 DEF Reconciled
  <1>8. QED BY <1>4, <1>5, <1>7

LEMMA ResultInOrder ==
    ASSUME IInv, [Next]_vars, NEW c \in Callers, calls[c].pc = "answered",
           calls'[c].result \in {"page", "counts"}
    PROVE  calls[c].baseline.revision >= newest
  <1>1. Refusal(c) = "none"
    <2>1. CASE Refuse(c)
      <3>1. Refusal(c) \in {"page", "counts"}
        BY <2>1, RefusedFacts
      <3>2. QED BY <3>1 DEF Refusal
    <2>2. QED BY <2>1, AnsweredEnds, HandedOutFacts
  <1>2. /\ connected # {} /\ calls[c].baseline.revision \in 1..Len(models) /\ Len(models) \in Nat
        /\ \A known \in latest :
               known.revision \in 1..Len(models) /\ known.revision <= calls[c].baseline.revision
    BY <1>1, NotRefused, HandledFacts
  <1>3. QED BY <1>2 DEF IInv, LatestIsSound

\* What a call hands out agrees with what earlier calls did: an object that was
\* shown and is still there is found by its reference, and no result is older
\* than one before it (matched_tabs, ReferenceRegistry::reconcile, execute).
THEOREM ResultsStayInAgreement == Spec => ResultsAgree
  <1>1. ASSUME IInv, [Next]_vars
        PROVE  [\A c \in Callers :
                   calls[c].pc = "answered" /\ calls'[c].result = "NOT_FOUND"
                       => \A object \in calls[c].params.target :
                              object.key \notin calls[c].baseline.objects]_vars
    BY <1>1, TargetFound
  <1>2. ASSUME IInv, [Next]_vars
        PROVE  [\A c \in Callers :
                   calls[c].pc = "answered" /\ calls'[c].result \in {"page", "counts"}
                       => calls[c].baseline.revision >= newest]_vars
    BY <1>2, ResultInOrder
  <1>3. Spec => TargetsAreFound
    BY <1>1, Invariance, PTL DEF Spec, TargetsAreFound
  <1>4. Spec => ResultsInOrder
    BY <1>2, Invariance, PTL DEF Spec, ResultsInOrder
  <1>5. QED BY <1>3, <1>4, PTL DEF ResultsAgree

LEMMA RefusedFairly ==
    ASSUME IInv, [Next]_vars, NEW c \in Callers, calls[c].pc = "answered",
           calls'[c].result = "INTERNAL_ERROR"
    PROVE  \/ \E known \in latest : known.revision > calls[c].baseline.revision
           \/ \E browser \in connected : browser.frozen /\ ~calls[c].baseline.frozen
  <1>1. Refuse(c) /\ Refusal(c) = "INTERNAL_ERROR"
    BY AnsweredEnds, RefusedFacts, HandedOutFacts
  <1>2. Overtaken(calls[c].baseline) \/ FlagsDiffer(calls[c].baseline)
    BY <1>1 DEF Refusal
  <1>3. /\ TypeOK /\ IsCapture(calls[c].baseline) /\ calls[c].baseline \in Baselines
        /\ latest \subseteq Baselines /\ \A known \in latest : IsCapture(known)
        /\ connected \subseteq CapabilityStates
    BY DEF IInv, ReferencesHold, CallsAreSound, LatestIsSound, TypeOK, Calls
  <1>4. CASE Overtaken(calls[c].baseline)
    <2>1. PICK known \in latest :
              \/ calls[c].baseline.revision < known.revision
              \/ calls[c].baseline.revision = known.revision /\ calls[c].baseline # known
      BY <1>4 DEF Overtaken
    <2>2. calls[c].baseline.revision = known.revision => calls[c].baseline = known
      BY <1>3 DEF IsCapture, Baselines
    <2>3. calls[c].baseline.revision \in Nat /\ known.revision \in Nat
      BY <1>3 DEF Baselines
    <2>4. QED BY <2>1, <2>2, <2>3
  <1>5. CASE FlagsDiffer(calls[c].baseline)
    <2>1. PICK browser \in connected : browser.frozen # calls[c].baseline.frozen
      BY <1>5 DEF FlagsDiffer
    <2>2. browser.frozen \in BOOLEAN /\ calls[c].baseline.frozen \in BOOLEAN
      BY <1>3, <2>1 DEF CapabilityStates, Baselines
    <2>3. browser.revision >= calls[c].awaits /\ (calls[c].baseline.frozen => Supports(browser, c))
      BY DEF IInv, AwaitedSupport
    <2>4. calls[c].baseline.frozen => browser.frozen
      BY <2>3 DEF Supports
    <2>5. QED BY <2>1, <2>2, <2>4
  <1>6. QED BY <1>2, <1>4, <1>5

\* An answer is refused as inconsistent only if something newer came first:
\* never because the capability state it depends on is behind it
\* (synchronizeCapabilityPublication in extension/background-controller.js, execute).
THEOREM RefusalsAreFair == Spec => RefusedOnlyIfOvertaken
  <1>1. ASSUME IInv, [Next]_vars
        PROVE  [\A c \in Callers :
                   calls[c].pc = "answered" /\ calls'[c].result = "INTERNAL_ERROR"
                       => \/ \E known \in latest : known.revision > calls[c].baseline.revision
                          \/ \E browser \in connected : browser.frozen /\ ~calls[c].baseline.frozen]_vars
    BY <1>1, RefusedFairly
  <1>2. QED BY <1>1, Invariance, PTL DEF Spec, RefusedOnlyIfOvertaken

=============================================================================
