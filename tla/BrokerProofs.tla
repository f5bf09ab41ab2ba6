---------------------------- MODULE BrokerProofs ----------------------------
(***************************************************************************)
(* Proofs about Broker, for any number of calls, permits, queue places and  *)
(* retained records.  Actions are grouped by the state they touch: a call's  *)
(* own steps, the end of a record, the background tasks, and the writer's    *)
(* path, which is proved action by action.                                  *)
(* Three invariants, each on top of the one before it: IInv, of records and    *)
(* frames; OutcomeInv, of what a call is told; ShutdownInv, of what is left    *)
(* to go wrong after lifecycle.clear(), in a broker whose HTTP task does not  *)
(* end by itself.  The refinement of RequestService uses all three.           *)
(***************************************************************************)
EXTENDS Broker, SequenceTheorems, FiniteSetTheorems, TLAPS

-----------------------------------------------------------------------------
(* The lifecycle table.                                                     *)

\* A terminal record comes with a phase; evicting records leaves terminal
\* records of others alone or removes them.
LEMMA InsertTerminalFacts ==
    ASSUME LifecycleTypeOK, NEW r \in Requests, NEW record \in TerminalRecords,
           InsertTerminal(r, record)
    PROVE  /\ terminal' \in [Requests -> TerminalRecords \cup {NoRecord}]
           /\ terminal_order' \in Seq(Requests)
           /\ \A q \in Requests :
                terminal'[q] \in {IF q = r THEN record ELSE terminal[q], NoRecord}
<1> DEFINE filled == [terminal EXCEPT ![r] = record]
           order == Append(terminal_order, r)
<1>1. filled \in [Requests -> TerminalRecords \cup {NoRecord}]
  BY DEF LifecycleTypeOK
<1>2. order \in Seq(Requests) /\ Tail(order) \in Seq(Requests)
  <2>1. order \in Seq(Requests) /\ order # <<>>
    BY DEF LifecycleTypeOK
  <2> HIDE DEF order
  <2> QED
    BY <2>1
<1>3. \/ terminal' = [filled EXCEPT ![Head(order)] = NoRecord] /\ terminal_order' = Tail(order)
      \/ terminal' = filled /\ terminal_order' = order
  BY DEF InsertTerminal
<1>4. \A q \in Requests : filled[q] = IF q = r THEN record ELSE terminal[q]
  BY DEF LifecycleTypeOK
<1> HIDE DEF filled, order
<1>5. /\ terminal' \in [Requests -> TerminalRecords \cup {NoRecord}]
      /\ terminal_order' \in Seq(Requests)
  BY <1>1, <1>2, <1>3
<1>6. \A q \in Requests : terminal'[q] \in {filled[q], NoRecord}
  BY <1>1, <1>3
<1> QED
  BY <1>4, <1>5, <1>6

\* Records only go, and a phase is kept or lost with its record.
PhasesOnlyGo ==
    \A q \in Requests :
        /\ PhaseOf(q)' \in {PhaseOf(q), Absent}
        /\ active'[q] \in {active[q], Absent}

LEMMA RetireFacts ==
    ASSUME LifecycleTypeOK, NEW r \in Requests, NEW state \in TerminalStates,
           active[r] # Absent, Retire(r, state)
    PROVE  /\ active' \in [Requests -> Phases \cup {Absent}]
           /\ terminal' \in [Requests -> TerminalRecords \cup {NoRecord}]
           /\ terminal_order' \in Seq(Requests)
           /\ PhasesOnlyGo
           /\ active'[r] = Absent
<1> DEFINE record == [phase |-> active[r], state |-> state]
<1>1. record \in TerminalRecords /\ record.phase = active[r]
  BY DEF LifecycleTypeOK, TerminalRecords
<1>2. /\ InsertTerminal(r, record)
      /\ active' = [active EXCEPT ![r] = Absent]
  BY DEF Retire
<1> HIDE DEF record
<1>3. /\ terminal' \in [Requests -> TerminalRecords \cup {NoRecord}]
      /\ terminal_order' \in Seq(Requests)
      /\ \A q \in Requests :
           terminal'[q] \in {IF q = r THEN record ELSE terminal[q], NoRecord}
  BY <1>1, <1>2, InsertTerminalFacts
<1>4. active' \in [Requests -> Phases \cup {Absent}] /\ active'[r] = Absent
  BY <1>2 DEF LifecycleTypeOK
<1>5. PhasesOnlyGo
  BY <1>1, <1>2, <1>3 DEF PhasesOnlyGo, PhaseOf, LifecycleTypeOK, NoRecord
<1> QED
  BY <1>3, <1>4, <1>5

LEMMA FinishFacts ==
    ASSUME LifecycleTypeOK, NEW r \in Requests, NEW state \in TerminalStates,
           Finish(r, state)
    PROVE  LifecycleTypeOK' /\ PhasesOnlyGo /\ active'[r] = Absent
<1>1. CASE active[r] # Absent
  <2>1. Retire(r, state) /\ response' = [response EXCEPT ![r] = "closed"]
    BY <1>1 DEF Finish
  <2>2. response' \in [Requests -> ChannelStates]
    BY <2>1 DEF LifecycleTypeOK, ChannelStates
  <2> QED
    BY <1>1, <2>1, <2>2, RetireFacts DEF LifecycleTypeOK
<1>2. CASE active[r] = Absent
  BY <1>2 DEF Finish, lifecycle, LifecycleTypeOK, PhasesOnlyGo, PhaseOf
<1> QED
  BY <1>1, <1>2

LEMMA TakeResponseFacts ==
    ASSUME LifecycleTypeOK, NEW r \in Requests, TakeResponse(r)
    PROVE  LifecycleTypeOK' /\ PhasesOnlyGo
<1>1. CASE active[r] # Absent
  <2>1. Retire(r, "Responded") /\ "Responded" \in TerminalStates /\ response' = response
    BY <1>1 DEF TakeResponse, TerminalStates
  <2> QED
    BY <1>1, <2>1, RetireFacts DEF LifecycleTypeOK
<1>2. CASE active[r] = Absent
  BY <1>2 DEF TakeResponse, LifecycleTypeOK, PhasesOnlyGo, PhaseOf
<1> QED
  BY <1>1, <1>2

LEMMA ClearFacts ==
    ASSUME LifecycleTypeOK, Clear
    PROVE  LifecycleTypeOK' /\ PhasesOnlyGo
<1>1. LifecycleTypeOK'
  BY DEF LifecycleTypeOK, Clear, ChannelStates
<1>2. PhasesOnlyGo
  BY DEF PhasesOnlyGo, PhaseOf, Clear, NoRecord
<1> QED
  BY <1>1, <1>2

-----------------------------------------------------------------------------
(* Steps of a call that leave the queue and the tasks alone.                *)

LEMMA CallMoves ==
    ASSUME IInv, NEW r \in Requests, NEW to \in CallSteps, NEW out \in Outcomes,
           pc' = [pc EXCEPT ![r] = to],
           result' = [result EXCEPT ![r] = out],
           UNCHANGED <<clock, written, queue, writer, reader, sharedVars, main, http, peerVars>>,
           LifecycleTypeOK', PhasesOnlyGo,
           to \in NotSubmitted =>
               pc[r] \in NotSubmitted \ {"enqueue"} /\ to \notin {"idle", "enqueue"} /\ AckUnderway,
           \/ to \in {"idle", "permit", "recheck", "register", "abandonPermit", "done"}
           \/ to \in {"dropPermit", "dropGuard"} /\ out = "deadline"
           => active'[r] = Absent
    PROVE  IInv'
<1> USE DEF sharedVars, peerVars
<1>0. TypeOK /\ pc \in [Requests -> CallSteps] /\ result \in [Requests -> Outcomes]
  BY DEF IInv, TypeOK
<1>1. TypeOK'
  BY <1>0 DEF TypeOK
<1>2. TasksHold'
  BY DEF IInv, TasksHold
<1>3. RecordIsGuarded'
  BY <1>0 DEF IInv, RecordIsGuarded, PhasesOnlyGo
<1>4. \A q \in Requests : pc'[q] \in NotSubmitted => pc[q] \in NotSubmitted
  BY <1>0
<1>5. SubmittedOnce'
  BY <1>4 DEF IInv, SubmittedOnce, InQueue
<1>6. \A q \in Requests : Unsent(q) => Unsent(q)'
  BY DEF Unsent, PhasesOnlyGo
<1>7. UnsentUntilClaimed'
  <2> SUFFICES ASSUME NEW q \in Requests
               PROVE  /\ pc'[q] \in NotSubmitted \ {"enqueue"}
                           => wire'[q] = "none" /\ PhaseOf(q)' = Absent
                      /\ pc'[q] = "enqueue" \/ InQueue(q)' => Unsent(q)'
                      /\ writer'.msg = q /\ writer'.at \in {"checkReady", "checkBudget", "claim"}
                           => Unsent(q)'
    BY DEF UnsentUntilClaimed
  <2>1. pc'[q] \in NotSubmitted \ {"enqueue"} => pc[q] \in NotSubmitted \ {"enqueue"}
    BY <1>0
  <2>2. pc'[q] = "enqueue" => pc[q] = "enqueue"
    BY <1>0 DEF NotSubmitted
  <2>3. InQueue(q)' = InQueue(q)
    BY DEF InQueue
  <2> QED
    BY <1>6, <2>1, <2>2, <2>3 DEF IInv, UnsentUntilClaimed, PhasesOnlyGo
<1>8. ClaimedIsTracked'
  BY DEF IInv, ClaimedIsTracked, PhasesOnlyGo
<1>9. PhaseIsHonest'
  BY DEF IInv, PhaseIsHonest, PhasesOnlyGo, Absent
<1>10. UndispatchedNeverWritten' /\ AckWrittenFirst'
  BY DEF IInv, UndispatchedNeverWritten, AckWrittenFirst
<1>11. AckAhead'
  <2>1. AckUnderway' = AckUnderway
    BY DEF AckUnderway, InQueue
  <2>2. \A q \in Requests : pc'[q] \in NotSubmitted \ {"idle"} => AckUnderway
    BY <1>0 DEF IInv, AckAhead
  <2> QED
    BY <2>1, <2>2 DEF IInv, AckAhead
<1> QED
  BY <1>1, <1>2, <1>3, <1>5, <1>7, <1>8, <1>9, <1>10, <1>11 DEF IInv

\* A step that leaves the table alone, in particular, keeps its phases.
LEMMA SameTable ==
    ASSUME TypeOK, UNCHANGED lifecycle
    PROVE  LifecycleTypeOK' /\ PhasesOnlyGo
BY DEF TypeOK, LifecycleTypeOK, lifecycle, PhasesOnlyGo, PhaseOf

\* A call that got this far without a record has none now.
LEMMA NoRecordYet ==
    ASSUME IInv, NEW r \in Requests, UNCHANGED lifecycle,
           pc[r] \in {"idle", "permit", "recheck", "register", "abandonPermit", "done"}
    PROVE  active'[r] = Absent
BY DEF IInv, RecordIsGuarded, lifecycle

LEMMA EarlyCallInvariant ==
    ASSUME IInv, NEW r \in Requests,
           Call(r) \/ AcquirePermit(r) \/ PermitTimeout(r) \/ RecheckReady(r)
    PROVE  IInv'
<1>1. /\ UNCHANGED lifecycle /\ TypeOK
      /\ UNCHANGED <<clock, written, queue, writer, reader, sharedVars, main, http, peerVars>>
      /\ pc[r] \in {"idle", "permit", "recheck"}
      /\ \E to \in {"permit", "recheck", "register", "done"}, out \in Outcomes :
            /\ pc' = [pc EXCEPT ![r] = to]
            /\ result' = [result EXCEPT ![r] = out]
            /\ to = "done" \/ AckUnderway
  <2>0. TypeOK /\ result = [result EXCEPT ![r] = result[r]] /\ result[r] \in Outcomes
    BY DEF IInv, TypeOK
  <2>1. CASE Call(r)
    BY <2>0, <2>1 DEF Call, GoTo, Conclude, Outcomes, IInv, AckAhead
  <2>2. pc[r] \in {"permit", "recheck"} => AckUnderway
    BY DEF IInv, AckAhead, NotSubmitted
  <2>3. CASE AcquirePermit(r)
    BY <2>0, <2>2, <2>3 DEF AcquirePermit, GoTo, Conclude, Outcomes
  <2>4. CASE PermitTimeout(r)
    BY <2>0, <2>4 DEF PermitTimeout, GoTo, Conclude, Outcomes
  <2>5. CASE RecheckReady(r)
    BY <2>0, <2>2, <2>5 DEF RecheckReady, GoTo, Conclude, Outcomes
  <2> QED
    BY <2>1, <2>3, <2>4, <2>5
<1>2. PICK to \in {"permit", "recheck", "register", "done"}, out \in Outcomes :
            /\ pc' = [pc EXCEPT ![r] = to]
            /\ result' = [result EXCEPT ![r] = out]
            /\ to = "done" \/ AckUnderway
  BY <1>1
<1>3. to \in CallSteps /\ "done" \notin NotSubmitted /\ pc[r] \in NotSubmitted \ {"enqueue"}
  BY <1>1 DEF CallSteps, NotSubmitted
<1>4. LifecycleTypeOK' /\ PhasesOnlyGo /\ active'[r] = Absent
  BY <1>1, SameTable, NoRecordYet
<1> QED
  BY <1>1, <1>2, <1>3, <1>4, CallMoves

\* The other steps of a call that leave the table alone.
LEMMA LateCallInvariant ==
    ASSUME IInv, NEW r \in Requests,
           \/ AwaitEither(r) \/ AwaitResponse(r) \/ Elapse(r)
           \/ DropPermit(r) \/ Abandon(r) \/ AbandonPermit(r)
    PROVE  IInv'
<1> DEFINE Step(to, out) ==
             /\ UNCHANGED lifecycle
             /\ UNCHANGED <<clock, written, queue, writer, reader, sharedVars, main, http, peerVars>>
             /\ pc' = [pc EXCEPT ![r] = to]
             /\ result' = [result EXCEPT ![r] = out]
             /\ \/ to \in {"awaitResponse", "timedOut", "abandonGuard"}
                \/ to \in {"dropPermit", "dropGuard"} /\ out # "deadline"
                \/ active[r] = Absent
<1>0. TypeOK /\ result = [result EXCEPT ![r] = result[r]] /\ result[r] \in Outcomes
  BY DEF IInv, TypeOK
<1>1. \E to \in CallSteps \ NotSubmitted, out \in Outcomes : Step(to, out)
  <2> USE <1>0 DEF GoTo, Conclude, Outcomes, CallSteps, NotSubmitted
  <2>1. CASE AwaitEither(r)
    <3>1. ResponseOutcome(r) \in {"reply", "unavailable"}
      BY DEF ResponseOutcome
    <3>2. \/ \E out \in {"reply", "unavailable", "cancelled"} : Step("dropPermit", out)
          \/ Step("awaitResponse", result[r])
          \/ Step("timedOut", "deadline")
      BY <2>1, <3>1 DEF AwaitEither
    <3> QED
      BY <3>2
  <2>2. CASE AwaitResponse(r)
    <3>1. ResponseOutcome(r) \in {"reply", "unavailable"}
      BY DEF ResponseOutcome
    <3>2. Step("dropPermit", ResponseOutcome(r))
      BY <2>2, <3>1 DEF AwaitResponse
    <3> QED
      BY <3>1, <3>2
  <2>3. CASE Elapse(r)
    <3>1. Step("timedOut", "deadline")
      BY <2>3 DEF Elapse
    <3> QED
      BY <3>1
  <2>4. CASE DropPermit(r)
    <3>1. result[r] = "deadline" => active[r] = Absent
      BY <2>4 DEF DropPermit, IInv, RecordIsGuarded
    <3>2. Step("dropGuard", result[r])
      BY <2>4, <3>1 DEF DropPermit
    <3> QED
      BY <3>2
  <2>5. CASE Abandon(r)
    <3>1. CASE pc[r] = "permit"
      <4>1. active[r] = Absent
        BY <3>1 DEF IInv, RecordIsGuarded
      <4>2. Step("done", "abandoned")
        BY <2>5, <3>1, <4>1 DEF Abandon
      <4> QED
        BY <4>2
    <3>2. CASE pc[r] # "permit"
      <4>1. Step("abandonGuard", "abandoned")
        BY <2>5, <3>2 DEF Abandon
      <4> QED
        BY <4>1
    <3> QED
      BY <3>1, <3>2
  <2>6. CASE AbandonPermit(r)
    <3>1. active[r] = Absent
      BY <2>6 DEF AbandonPermit, IInv, RecordIsGuarded
    <3>2. Step("done", result[r])
      BY <2>6, <3>1 DEF AbandonPermit
    <3> QED
      BY <3>2
  <2> QED
    BY <2>1, <2>2, <2>3, <2>4, <2>5, <2>6
<1>2. PICK to \in CallSteps \ NotSubmitted, out \in Outcomes : Step(to, out)
  BY <1>1
<1>3. LifecycleTypeOK' /\ PhasesOnlyGo /\ active' = active
  BY <1>0, <1>2, SameTable DEF lifecycle
<1>4. \/ to \in {"idle", "permit", "recheck", "register", "abandonPermit", "done"}
      \/ to \in {"dropPermit", "dropGuard"} /\ out = "deadline"
      => active'[r] = Absent
  BY <1>2, <1>3
<1> QED
  BY <1>2, <1>3, <1>4, CallMoves

\* A call's guard takes its record out of the table.
LEMMA GuardInvariant ==
    ASSUME IInv, NEW r \in Requests, TimedOut(r) \/ AbandonGuard(r) \/ DropGuard(r)
    PROVE  IInv'
<1>0. /\ TypeOK /\ LifecycleTypeOK /\ result = [result EXCEPT ![r] = result[r]]
      /\ result[r] \in Outcomes
  BY DEF IInv, TypeOK
<1>1. \E to \in {"dropPermit", "abandonPermit", "done"} :
         /\ pc' = [pc EXCEPT ![r] = to]
         /\ UNCHANGED <<clock, written, result, queue, writer, reader, sharedVars, main, http,
                        peerVars>>
         /\ \/ \E state \in TerminalStates : Finish(r, state)
            \/ UNCHANGED lifecycle /\ active[r] = Absent
  <2> USE DEF GoTo, TerminalStates
  <2>1. CASE TimedOut(r)
    BY <2>1 DEF TimedOut
  <2>2. CASE AbandonGuard(r)
    BY <2>2 DEF AbandonGuard
  <2>3. CASE DropGuard(r)
    <3>1. result[r] = "deadline" => active[r] = Absent
      BY <2>3 DEF DropGuard, IInv, RecordIsGuarded
    <3> QED
      BY <2>3, <3>1 DEF DropGuard
  <2> QED
    BY <2>1, <2>2, <2>3
<1>2. PICK to \in {"dropPermit", "abandonPermit", "done"} :
         /\ pc' = [pc EXCEPT ![r] = to]
         /\ UNCHANGED <<clock, written, result, queue, writer, reader, sharedVars, main, http,
                        peerVars>>
         /\ \/ \E state \in TerminalStates : Finish(r, state)
            \/ UNCHANGED lifecycle /\ active[r] = Absent
  BY <1>1
<1>3. LifecycleTypeOK' /\ PhasesOnlyGo /\ active'[r] = Absent
  <2>1. CASE \E state \in TerminalStates : Finish(r, state)
    BY <1>0, <2>1, FinishFacts
  <2>2. CASE UNCHANGED lifecycle /\ active[r] = Absent
    BY <1>0, <2>2, SameTable DEF lifecycle
  <2> QED
    BY <1>2, <2>1, <2>2
<1>4. to \in CallSteps /\ to \notin NotSubmitted
  BY DEF CallSteps, NotSubmitted
<1>5. result' = [result EXCEPT ![r] = result[r]]
  BY <1>0, <1>2
<1> QED
  BY <1>0, <1>2, <1>3, <1>4, <1>5, CallMoves

-----------------------------------------------------------------------------
(* Time, the reader and run(): steps that leave the calls, the queue and the *)
(* writer alone.                                                             *)

LEMMA BackgroundMoves ==
    ASSUME IInv, TypeOK', PhasesOnlyGo,
           UNCHANGED <<pc, written, result, queue, writer, ackWritten>>,
           \A q \in Requests : wire'[q] = "none" <=> wire[q] = "none",
           reader'.at = "deliver" => reader'.msg \in Requests,
           ready' \/ reader'.at = "setReady" => AckUnderway
    PROVE  IInv'
<1>1. TasksHold'
  BY DEF IInv, TasksHold
<1>2. RecordIsGuarded'
  BY DEF IInv, RecordIsGuarded, PhasesOnlyGo
<1>3. \A q \in Requests : InQueue(q)' = InQueue(q)
  BY DEF InQueue
<1>4. SubmittedOnce'
  BY <1>3 DEF IInv, SubmittedOnce
<1>5. \A q \in Requests : Unsent(q) => Unsent(q)'
  BY DEF Unsent, PhasesOnlyGo
<1>6. UnsentUntilClaimed'
  BY <1>3, <1>5 DEF IInv, UnsentUntilClaimed, PhasesOnlyGo
<1>7. ClaimedIsTracked'
  BY DEF IInv, ClaimedIsTracked, PhasesOnlyGo
<1>8. PhaseIsHonest'
  BY DEF IInv, PhaseIsHonest, PhasesOnlyGo, Absent
<1>9. UndispatchedNeverWritten' /\ AckWrittenFirst'
  BY DEF IInv, UndispatchedNeverWritten, AckWrittenFirst
<1>10. AckAhead'
  <2>1. AckUnderway' = AckUnderway
    BY DEF AckUnderway, InQueue
  <2> QED
    BY <2>1 DEF IInv, AckAhead
<1> QED
  BY <1>1, <1>2, <1>4, <1>6, <1>7, <1>8, <1>9, <1>10 DEF IInv

\* ready stays backed by an acknowledgement when nobody sets it.
LEMMA ReadyIsBacked ==
    ASSUME IInv, ready' => ready \/ reader.at = "setReady",
           reader'.at = "setReady" => reader.at = "setReady"
    PROVE  ready' \/ reader'.at = "setReady" => AckUnderway
BY DEF IInv, AckAhead

LEMMA ReaderInvariant ==
    ASSUME IInv,
           \/ ReaderEnd \/ ReaderReady \/ ReaderSetReady \/ ReaderConnect
           \/ ReaderDeliver \/ \E r \in Requests : ReaderTake(r)
    PROVE  IInv'
<1>0. TypeOK /\ TasksHold /\ LifecycleTypeOK
  BY DEF IInv, TypeOK
<1>1. CASE ReaderEnd \/ ReaderReady \/ ReaderSetReady \/ ReaderConnect
  <2> USE DEF ReaderEnd, ReaderReady, ReaderSetReady, ReaderConnect, ReaderAt,
              handleVars, sharedVars, peerVars
  <2>1. UNCHANGED lifecycle /\ reader'.at \in ReaderSteps \ {"deliver", "setReady"}
    BY <1>0, <1>1 DEF TypeOK, ReaderSteps
  <2>2. LifecycleTypeOK' /\ PhasesOnlyGo
    BY <1>0, <2>1, SameTable
  <2>3. TypeOK'
    BY <1>0, <1>1, <2>2 DEF TypeOK, ReaderSteps
  <2>4. ready' => ready \/ reader.at = "setReady"
    BY <1>1
  <2> QED
    BY <1>1, <2>1, <2>2, <2>3, <2>4, ReadyIsBacked, BackgroundMoves
<1>2. CASE ReaderDeliver
  <2>1. PICK valid \in BOOLEAN :
           /\ response' = [response EXCEPT ![reader.msg] = IF valid THEN "sent" ELSE "closed"]
           /\ reader' = [at |-> IF valid THEN "read" ELSE "stopped", msg |-> NoMessage]
    BY <1>2 DEF ReaderDeliver
  <2>2. LifecycleTypeOK' /\ PhasesOnlyGo
    BY <1>0, <1>2, <2>1 DEF ReaderDeliver, LifecycleTypeOK, ChannelStates, PhasesOnlyGo, PhaseOf
  <2>3. TypeOK'
    BY <1>0, <1>2, <2>1, <2>2
       DEF ReaderDeliver, TypeOK, ReaderSteps, handleVars, sharedVars, peerVars
  <2> QED
    BY <1>2, <2>1, <2>2, <2>3, ReadyIsBacked, BackgroundMoves
       DEF ReaderDeliver, handleVars, sharedVars, peerVars
<1>3. ASSUME NEW r \in Requests, ReaderTake(r)
      PROVE  IInv'
  <2> USE DEF handleVars, sharedVars
  <2>1. LifecycleTypeOK' /\ PhasesOnlyGo
    BY <1>0, <1>3, TakeResponseFacts, SameTable DEF ReaderTake
  <2>2. /\ reader' \in {reader, [reader EXCEPT !.at = "stopped"], [at |-> "deliver", msg |-> r]}
        /\ reader.at = "read"
        /\ wire[r] = "written" /\ wire' = [wire EXCEPT ![r] = "answered"]
    BY <1>3 DEF ReaderTake, ReaderAt
  <2>3. TypeOK'
    BY <1>0, <1>3, <2>1, <2>2 DEF ReaderTake, TypeOK, ReaderSteps
  <2>4. \A q \in Requests : wire'[q] = "none" <=> wire[q] = "none"
    BY <1>0, <2>2 DEF TypeOK
  <2>5. /\ reader'.at = "deliver" => reader'.msg \in Requests
        /\ reader'.at # "setReady"
    BY <1>0, <2>2 DEF TypeOK
  <2> QED
    BY <1>3, <2>1, <2>3, <2>4, <2>5, ReadyIsBacked, BackgroundMoves DEF ReaderTake
<1> QED
  BY <1>1, <1>2, <1>3

LEMMA MainInvariant ==
    ASSUME IInv, MainStep \/ ShutdownTimeout \/ HttpStop \/ HttpDrain \/ Exited
    PROVE  IInv'
<1> USE DEF handleVars, sharedVars, peerVars
<1>0. TypeOK /\ TasksHold /\ LifecycleTypeOK
  BY DEF IInv, TypeOK
<1>1. CASE MainWake \/ MainNotReady \/ MainClosePermits \/ MainClearRuntime \/ MainAwaitHttp
           \/ MainAwaitWriter \/ ShutdownTimeout \/ HttpStop \/ HttpDrain \/ Exited
  <2> USE DEF MainWake, MainNotReady, MainClosePermits, MainClearRuntime, MainAwaitHttp,
              MainAwaitWriter, ShutdownTimeout, HttpStop, HttpDrain, Exited, vars
  <2>1. UNCHANGED lifecycle
    BY <1>1
  <2>2. LifecycleTypeOK' /\ PhasesOnlyGo
    BY <1>0, <2>1, SameTable
  <2>3. UNCHANGED <<pc, clock, written, result, queue, writer, reader, wire, ackWritten, readySent>>
    BY <1>1
  <2>4. /\ main' \in MainSteps
        /\ http' \in {"serving", "stopped", "drained"}
        /\ connected' \in BOOLEAN /\ permitsClosed' \in BOOLEAN
        /\ ready' \in {ready, FALSE}
    BY <1>0, <1>1 DEF TypeOK, MainSteps
  <2> QED
    <3> HIDE DEF MainWake, MainNotReady, MainClosePermits, MainClearRuntime, MainAwaitHttp,
                 MainAwaitWriter, ShutdownTimeout, HttpStop, HttpDrain, Exited, vars
    <3>1. TypeOK'
      BY <1>0, <2>2, <2>3, <2>4 DEF TypeOK
    <3>2. ready' => ready
      BY <2>4
    <3> QED
      BY <1>0, <2>2, <2>3, <3>1, <3>2, ReadyIsBacked, BackgroundMoves DEF TasksHold
<1>2. CASE MainClearLifecycle
  <2>1. LifecycleTypeOK' /\ PhasesOnlyGo
    BY <1>0, <1>2, ClearFacts DEF MainClearLifecycle
  <2>2. TypeOK'
    BY <1>0, <1>2, <2>1 DEF MainClearLifecycle, TypeOK, MainSteps
  <2> QED
    BY <1>0, <1>2, <2>1, <2>2, ReadyIsBacked, BackgroundMoves DEF MainClearLifecycle, TasksHold
<1>3. CASE MainStopReader
  <2>1. UNCHANGED lifecycle /\ reader'.at = "stopped"
    BY <1>0, <1>3 DEF MainStopReader, ReaderAt, TypeOK
  <2>2. LifecycleTypeOK' /\ PhasesOnlyGo
    BY <1>0, <2>1, SameTable
  <2>3. TypeOK'
    BY <1>0, <1>3, <2>2 DEF MainStopReader, ReaderAt, TypeOK, MainSteps, ReaderSteps
  <2> QED
    BY <1>3, <2>1, <2>2, <2>3, ReadyIsBacked, BackgroundMoves DEF MainStopReader
<1> QED
  BY <1>1, <1>2, <1>3 DEF MainStep

LEMMA TickInvariant ==
    ASSUME IInv, NEW r \in Requests, Tick(r)
    PROVE  IInv'
<1> USE DEF Tick, sharedVars, peerVars
<1>0. TypeOK /\ TasksHold
  BY DEF IInv
<1>1. LifecycleTypeOK' /\ PhasesOnlyGo
  BY <1>0, SameTable
<1>2. TypeOK'
  BY <1>0, <1>1 DEF TypeOK
<1> QED
  BY <1>0, <1>1, <1>2, ReadyIsBacked, BackgroundMoves DEF TasksHold

-----------------------------------------------------------------------------
(* Submission: registering and queueing.                                    *)

LEMMA RegisterCallInvariant ==
    ASSUME IInv, NEW r \in Requests, RegisterCall(r)
    PROVE  IInv'
<1> USE DEF sharedVars, peerVars
<1>0. /\ TypeOK /\ LifecycleTypeOK /\ pc[r] = "register"
      /\ active[r] = Absent /\ AckUnderway
      /\ wire[r] = "none" /\ PhaseOf(r) = Absent
      /\ ~InQueue(r) /\ writer.msg # r
  BY DEF IInv, TypeOK, RegisterCall, RecordIsGuarded, AckAhead, NotSubmitted,
         UnsentUntilClaimed, SubmittedOnce
<1>1. CASE clock[r] # "ample"
  <2>1. UNCHANGED lifecycle /\ active'[r] = Absent
    BY <1>0, <1>1, NoRecordYet DEF RegisterCall
  <2>2. LifecycleTypeOK' /\ PhasesOnlyGo
    BY <1>0, <2>1, SameTable
  <2>3. "done" \in CallSteps \ NotSubmitted /\ "unavailable" \in Outcomes
    BY DEF CallSteps, NotSubmitted, Outcomes
  <2>4. /\ pc' = [pc EXCEPT ![r] = "done"]
        /\ result' = [result EXCEPT ![r] = "unavailable"]
        /\ UNCHANGED <<clock, written, queue, writer, reader, sharedVars, main, http, peerVars>>
    BY <1>1 DEF RegisterCall, Conclude, GoTo
  <2> QED
    BY <2>1, <2>2, <2>3, <2>4, CallMoves
<1>2. CASE clock[r] = "ample"
  <2>1. /\ active' = [active EXCEPT ![r] = "Queued"]
        /\ response' = [response EXCEPT ![r] = "open"]
        /\ written' = [written EXCEPT ![r] = "open"]
        /\ pc' = [pc EXCEPT ![r] = "enqueue"]
        /\ UNCHANGED <<terminal, terminal_order, result, clock, queue, writer, reader,
                       sharedVars, main, http, peerVars>>
    BY <1>2 DEF RegisterCall, Register, GoTo
  <2>2. TypeOK'
    BY <1>0, <2>1
       DEF TypeOK, LifecycleTypeOK, Phases, ChannelStates, CallSteps
  <2>3. Unsent(r)' /\ PhaseOf(r)' = "Queued" /\ pc'[r] = "enqueue"
    BY <1>0, <2>1 DEF Unsent, PhaseOf, Absent, TypeOK, LifecycleTypeOK
  <2>4. \A q \in Requests \ {r} :
           /\ pc'[q] = pc[q] /\ active'[q] = active[q] /\ written'[q] = written[q]
           /\ PhaseOf(q)' = PhaseOf(q)
    BY <1>0, <2>1 DEF PhaseOf, TypeOK, LifecycleTypeOK
  <2>5. \A q \in Requests \ {r} : Unsent(q) => Unsent(q)'
    BY <2>1, <2>4 DEF Unsent
  <2>6. \A m : InQueue(m)' = InQueue(m)
    BY <2>1 DEF InQueue
  <2>7. TasksHold' /\ AckWrittenFirst'
    BY <2>1 DEF IInv, TasksHold, AckWrittenFirst
  <2>8. RecordIsGuarded'
    BY <2>1, <2>3, <2>4 DEF IInv, RecordIsGuarded
  <2>9. SubmittedOnce'
    BY <1>0, <2>1, <2>4, <2>6 DEF IInv, SubmittedOnce
  <2>10. UnsentUntilClaimed'
    BY <1>0, <2>1, <2>3, <2>4, <2>5, <2>6 DEF IInv, UnsentUntilClaimed, NotSubmitted
  <2>11. ClaimedIsTracked'
    BY <1>0, <2>1, <2>4 DEF IInv, ClaimedIsTracked
  <2>12. PhaseIsHonest' /\ UndispatchedNeverWritten'
    BY <1>0, <2>1, <2>3, <2>4 DEF IInv, PhaseIsHonest, UndispatchedNeverWritten
  <2>13. AckAhead'
    <3>1. AckUnderway'
      BY <1>0, <2>1, <2>6 DEF AckUnderway
    <3> QED
      BY <2>1, <3>1 DEF IInv, AckAhead
  <2> QED
    BY <2>2, <2>7, <2>8, <2>9, <2>10, <2>11, <2>12, <2>13 DEF IInv
<1> QED
  BY <1>1, <1>2

\* What is in a queue after an Append.
LEMMA AppendFacts ==
    ASSUME queue \in Seq(Messages), NEW m \in Messages, queue' = Append(queue, m)
    PROVE  /\ queue' \in Seq(Messages)
           /\ Len(queue) \in Nat /\ Len(queue') = Len(queue) + 1
           /\ \A i \in 1..Len(queue) : queue'[i] = queue[i]
           /\ queue'[Len(queue) + 1] = m
           /\ \A q : InQueue(q)' <=> InQueue(q) \/ q = m
<1>1. /\ queue' \in Seq(Messages)
      /\ Len(queue) \in Nat /\ Len(queue') = Len(queue) + 1
      /\ \A i \in 1..Len(queue) : queue'[i] = queue[i]
      /\ queue'[Len(queue) + 1] = m
  BY AppendProperties
<1>2. ASSUME NEW q
      PROVE  InQueue(q)' <=> InQueue(q) \/ q = m
  <2>1. InQueue(q) => InQueue(q)'
    BY <1>1 DEF InQueue
  <2>2. q = m => InQueue(q)'
    BY <1>1 DEF InQueue
  <2>3. ASSUME InQueue(q)' PROVE InQueue(q) \/ q = m
    <3>1. PICK i \in 1..Len(queue') : queue'[i] = q
      BY <2>3 DEF InQueue
    <3>2. i \in 1..Len(queue) \/ i = Len(queue) + 1
      BY <1>1
    <3> QED
      BY <1>1, <3>1, <3>2 DEF InQueue
  <2> QED
    BY <2>1, <2>2, <2>3
<1> QED
  BY <1>1, <1>2

\* A message at the queue's end keeps the order of those before it.
LEMMA AppendKeepsOrder ==
    ASSUME IInv, NEW m \in Messages, queue' = Append(queue, m),
           UNCHANGED <<writer, ackWritten>>,
           m # Ack => ~InQueue(m) /\ AckUnderway /\ writer.at # "stopped"
    PROVE  /\ \A i, j \in 1..Len(queue') : queue'[i] = queue'[j] /\ queue'[i] # Ack => i = j
           /\ \A i \in 1..Len(queue') :
                 queue'[i] # Ack => \/ ackWritten' \/ writer'.msg = Ack
                                    \/ \E j \in 1..(i - 1) : queue'[j] = Ack
           /\ AckUnderway => AckUnderway'
<1>0. queue \in Seq(Messages)
  BY DEF IInv, TypeOK
<1>1. /\ Len(queue) \in Nat /\ Len(queue') = Len(queue) + 1
      /\ \A i \in 1..Len(queue) : queue'[i] = queue[i]
      /\ queue'[Len(queue) + 1] = m
      /\ \A q : InQueue(q)' <=> InQueue(q) \/ q = m
  BY <1>0, AppendFacts
<1>2. \A i \in 1..Len(queue') : i \in 1..Len(queue) \/ i = Len(queue) + 1
  BY <1>1
<1>3. \A i, j \in 1..Len(queue') : queue'[i] = queue'[j] /\ queue'[i] # Ack => i = j
  <2>1. \A i, j \in 1..Len(queue) : queue[i] = queue[j] /\ queue[i] # Ack => i = j
    BY DEF IInv, SubmittedOnce
  <2>2. m # Ack => \A i \in 1..Len(queue) : queue[i] # m
    BY DEF InQueue
  <2> QED
    BY <1>1, <1>2, <2>1, <2>2
<1>4. ASSUME NEW i \in 1..Len(queue'), queue'[i] # Ack
      PROVE  \/ ackWritten' \/ writer'.msg = Ack
             \/ \E j \in 1..(i - 1) : queue'[j] = Ack
  <2>1. CASE i \in 1..Len(queue)
    <3>1. \/ ackWritten \/ writer.msg = Ack \/ \E j \in 1..(i - 1) : queue[j] = Ack
      BY <1>1, <1>4, <2>1 DEF IInv, AckAhead
    <3>2. \A j \in 1..(i - 1) : j \in 1..Len(queue)
      BY <1>1, <2>1
    <3> QED
      BY <1>1, <3>1, <3>2
  <2>2. CASE i = Len(queue) + 1
    <3>1. m # Ack
      BY <1>1, <1>4, <2>2
    <3>2. ackWritten \/ writer.msg = Ack \/ InQueue(Ack)
      BY <3>1 DEF AckUnderway
    <3>3. InQueue(Ack) => \E j \in 1..(i - 1) : queue'[j] = Ack
      BY <1>1, <2>2 DEF InQueue
    <3> QED
      BY <3>2, <3>3
  <2> QED
    BY <1>2, <2>1, <2>2
<1>5. AckUnderway => AckUnderway'
  BY <1>1 DEF AckUnderway
<1> QED
  BY <1>3, <1>4, <1>5

LEMMA EnqueueInvariant ==
    ASSUME IInv, NEW r \in Requests, Enqueue(r)
    PROVE  IInv'
<1> USE DEF sharedVars, peerVars
<1>0. /\ TypeOK /\ LifecycleTypeOK /\ pc[r] = "enqueue"
      /\ AckUnderway /\ Unsent(r) /\ ~InQueue(r) /\ writer.msg # r
      /\ r \in Messages /\ r # Ack
  BY BrokerAssumption
     DEF IInv, TypeOK, Enqueue, AckAhead, NotSubmitted, UnsentUntilClaimed, SubmittedOnce, Messages
<1>1. /\ UNCHANGED lifecycle
      /\ UNCHANGED <<clock, writer, reader, sharedVars, main, http, peerVars>>
  BY DEF Enqueue
<1>2. LifecycleTypeOK' /\ PhasesOnlyGo /\ active' = active
  BY <1>0, <1>1, SameTable DEF lifecycle
<1>3. \A q \in Requests : PhaseOf(q)' = PhaseOf(q)
  BY <1>1 DEF lifecycle, PhaseOf
<1>4. CASE writer.at # "stopped"
  <2>1. /\ queue' = Append(queue, r)
        /\ pc' = [pc EXCEPT ![r] = "await"]
        /\ UNCHANGED <<written, result>>
    BY <1>4 DEF Enqueue, ReceiverAlive, GoTo
  <2>2. TypeOK'
    BY <1>0, <1>1, <1>2, <2>1, AppendFacts DEF TypeOK, CallSteps
  <2>3. \A q : InQueue(q)' <=> InQueue(q) \/ q = r
    BY <1>0, <2>1, AppendFacts DEF TypeOK
  <2>4. /\ \A i, j \in 1..Len(queue') : queue'[i] = queue'[j] /\ queue'[i] # Ack => i = j
        /\ \A i \in 1..Len(queue') :
              queue'[i] # Ack => \/ ackWritten' \/ writer'.msg = Ack
                                 \/ \E j \in 1..(i - 1) : queue'[j] = Ack
        /\ AckUnderway'
    BY <1>0, <1>1, <1>4, <2>1, AppendKeepsOrder
  <2>5. pc'[r] = "await" /\ \A q \in Requests \ {r} : pc'[q] = pc[q]
    BY <1>0, <2>1 DEF TypeOK
  <2>6. \A q \in Requests : Unsent(q)' = Unsent(q)
    BY <1>1, <1>3, <2>1 DEF Unsent
  <2>7. TasksHold' /\ AckWrittenFirst' /\ UndispatchedNeverWritten'
    BY <1>1, <2>1 DEF IInv, TasksHold, AckWrittenFirst, UndispatchedNeverWritten
  <2>8. RecordIsGuarded'
    BY <1>2, <2>1, <2>5 DEF IInv, RecordIsGuarded
  <2>9. SubmittedOnce'
    BY <1>0, <1>1, <2>3, <2>4, <2>5 DEF IInv, SubmittedOnce, NotSubmitted
  <2>10. UnsentUntilClaimed'
    BY <1>0, <1>1, <1>3, <2>3, <2>5, <2>6 DEF IInv, UnsentUntilClaimed, NotSubmitted
  <2>11. ClaimedIsTracked' /\ PhaseIsHonest'
    BY <1>1, <1>3, <2>1 DEF IInv, ClaimedIsTracked, PhaseIsHonest
  <2>12. AckAhead'
    BY <1>0, <1>1, <2>4 DEF IInv, AckAhead
  <2> QED
    BY <2>2, <2>7, <2>8, <2>9, <2>10, <2>11, <2>12 DEF IInv
<1>5. CASE writer.at = "stopped"
  <2>1. /\ pc' = [pc EXCEPT ![r] = "dropPermit"]
        /\ result' = [result EXCEPT ![r] = "unavailable"]
        /\ written' = [written EXCEPT ![r] = "closed"]
        /\ UNCHANGED queue
    BY <1>5 DEF Enqueue, ReceiverAlive, Conclude, GoTo
  <2>2. TypeOK'
    BY <1>0, <1>1, <1>2, <2>1 DEF TypeOK, CallSteps, Outcomes
  <2>3. \A q : InQueue(q)' = InQueue(q)
    BY <2>1 DEF InQueue
  <2>4. /\ pc'[r] = "dropPermit" /\ result'[r] = "unavailable" /\ written'[r] = "closed"
        /\ \A q \in Requests \ {r} :
              pc'[q] = pc[q] /\ result'[q] = result[q] /\ written'[q] = written[q]
    BY <1>0, <2>1 DEF TypeOK
  <2>5. \A q \in Requests \ {r} : Unsent(q)' = Unsent(q)
    BY <1>1, <1>3, <2>4 DEF Unsent
  <2>6. TasksHold' /\ AckWrittenFirst' /\ UndispatchedNeverWritten'
    BY <1>1, <2>4 DEF IInv, TasksHold, AckWrittenFirst, UndispatchedNeverWritten
  <2>7. RecordIsGuarded'
    BY <1>2, <2>4 DEF IInv, RecordIsGuarded
  <2>8. SubmittedOnce'
    BY <1>0, <1>1, <2>1, <2>3, <2>4 DEF IInv, SubmittedOnce, NotSubmitted
  <2>9. UnsentUntilClaimed'
    BY <1>0, <1>1, <1>3, <2>3, <2>4, <2>5 DEF IInv, UnsentUntilClaimed, NotSubmitted
  <2>10. ClaimedIsTracked' /\ PhaseIsHonest'
    BY <1>0, <1>1, <1>3, <2>4 DEF IInv, ClaimedIsTracked, PhaseIsHonest
  <2>11. AckAhead'
    <3>1. AckUnderway'
      BY <1>1, <1>5 DEF AckUnderway
    <3> QED
      BY <1>1, <2>1, <3>1 DEF IInv, AckAhead
  <2> QED
    BY <2>2, <2>6, <2>7, <2>8, <2>9, <2>10, <2>11 DEF IInv
<1> QED
  BY <1>4, <1>5

LEMMA ReaderQueueAckInvariant ==
    ASSUME IInv, ReaderQueueAck
    PROVE  IInv'
<1> USE DEF handleVars, sharedVars, peerVars
<1>0. TypeOK /\ Ack \in Messages /\ Ack \notin Requests
  BY BrokerAssumption DEF IInv, Messages
<1>1. UNCHANGED lifecycle /\ reader'.at \in {"setReady", "stopped"}
  BY <1>0 DEF ReaderQueueAck, ReaderAt, TypeOK
<1>2. LifecycleTypeOK' /\ PhasesOnlyGo
  BY <1>0, <1>1, SameTable
<1>3. CASE writer.at = "stopped"
  <2>1. TypeOK'
    BY <1>0, <1>2, <1>3
       DEF ReaderQueueAck, ReaderAt, ReceiverAlive, TypeOK, ReaderSteps
  <2> QED
    BY <1>1, <1>2, <1>3, <2>1, BackgroundMoves
       DEF ReaderQueueAck, ReceiverAlive, AckUnderway
<1>4. CASE writer.at # "stopped"
  <2>1. /\ queue' = Append(queue, Ack)
        /\ reader' = [reader EXCEPT !.at = "setReady"]
        /\ UNCHANGED <<handleVars, writer, sharedVars, main, http, peerVars>>
    BY <1>4 DEF ReaderQueueAck, ReaderAt, ReceiverAlive
  <2>2. TypeOK'
    BY <1>0, <1>2, <2>1, AppendFacts DEF TypeOK, ReaderSteps
  <2>3. \A q : InQueue(q)' <=> InQueue(q) \/ q = Ack
    BY <1>0, <2>1, AppendFacts DEF TypeOK
  <2>4. /\ \A i, j \in 1..Len(queue') : queue'[i] = queue'[j] /\ queue'[i] # Ack => i = j
        /\ \A i \in 1..Len(queue') :
              queue'[i] # Ack => \/ ackWritten' \/ writer'.msg = Ack
                                 \/ \E j \in 1..(i - 1) : queue'[j] = Ack
    BY <1>0, <2>1, AppendKeepsOrder
  <2>5. \A q \in Requests : InQueue(q)' <=> InQueue(q)
    BY <1>0, <2>3
  <2>6. \A q \in Requests : PhaseOf(q)' = PhaseOf(q) /\ Unsent(q)' = Unsent(q)
    BY <1>1, <2>1 DEF lifecycle, PhaseOf, Unsent
  <2>7. TasksHold' /\ RecordIsGuarded' /\ AckWrittenFirst' /\ UndispatchedNeverWritten'
    BY <1>1, <2>1 DEF lifecycle, IInv, TasksHold, RecordIsGuarded, AckWrittenFirst,
                      UndispatchedNeverWritten
  <2>8. SubmittedOnce' /\ UnsentUntilClaimed'
    BY <2>1, <2>4, <2>5, <2>6 DEF IInv, SubmittedOnce, UnsentUntilClaimed
  <2>9. ClaimedIsTracked' /\ PhaseIsHonest'
    BY <2>1, <2>6 DEF IInv, ClaimedIsTracked, PhaseIsHonest
  <2>10. AckAhead'
    <3>1. AckUnderway'
      BY <2>3 DEF AckUnderway
    <3> QED
      BY <2>1, <2>4, <3>1 DEF IInv, AckAhead
  <2> QED
    BY <2>2, <2>7, <2>8, <2>9, <2>10 DEF IInv
<1> QED
  BY <1>3, <1>4

-----------------------------------------------------------------------------
(* The writer.                                                              *)

\* A queue without its head.
LEMMA TailFacts ==
    ASSUME IInv, queue # <<>>, queue' = Tail(queue)
    PROVE  /\ Head(queue) \in Messages /\ queue' \in Seq(Messages)
           /\ Len(queue) \in Nat \ {0} /\ Len(queue') = Len(queue) - 1
           /\ Head(queue) = queue[1]
           /\ \A i \in 1..Len(queue') : i + 1 \in 1..Len(queue) /\ queue'[i] = queue[i + 1]
           /\ \A q : InQueue(q) <=> q = Head(queue) \/ InQueue(q)'
           /\ \A q \in Requests : InQueue(q)' => q # Head(queue)
           /\ \A i, j \in 1..Len(queue') : queue'[i] = queue'[j] /\ queue'[i] # Ack => i = j
<1>0. queue \in Seq(Messages) /\ Ack \notin Requests
  BY BrokerAssumption DEF IInv, TypeOK
<1>1. /\ Head(queue) \in Messages /\ queue' \in Seq(Messages)
      /\ Len(queue) \in Nat \ {0} /\ Len(queue') = Len(queue) - 1
      /\ Head(queue) = queue[1]
      /\ \A i \in 1..Len(queue') : queue'[i] = queue[i + 1]
  BY <1>0, HeadTailProperties, EmptySeq
<1>2. \A i \in 1..Len(queue') : i + 1 \in 1..Len(queue)
  BY <1>1
<1>3. ASSUME NEW q
      PROVE  InQueue(q) <=> q = Head(queue) \/ InQueue(q)'
  <2>1. q = Head(queue) => InQueue(q)
    BY <1>1 DEF InQueue
  <2>2. InQueue(q)' => InQueue(q)
    BY <1>1, <1>2 DEF InQueue
  <2>3. ASSUME InQueue(q), q # Head(queue) PROVE InQueue(q)'
    <3>1. PICK i \in 1..Len(queue) : queue[i] = q
      BY <2>3 DEF InQueue
    <3>2. i # 1 /\ i - 1 \in 1..Len(queue') /\ (i - 1) + 1 = i
      BY <1>1, <2>3, <3>1
    <3>3. queue'[i - 1] = q
      BY <1>1, <3>1, <3>2
    <3> QED
      BY <3>2, <3>3 DEF InQueue
  <2> QED
    BY <2>1, <2>2, <2>3
<1>4. \A i, j \in 1..Len(queue) : queue[i] = queue[j] /\ queue[i] # Ack => i = j
  BY DEF IInv, SubmittedOnce
<1>5. ASSUME NEW q \in Requests, InQueue(q)'
      PROVE  q # Head(queue)
  <2>1. PICK i \in 1..Len(queue') : queue'[i] = q
    BY <1>5 DEF InQueue
  <2>2. queue[i + 1] = q /\ i + 1 \in 1..Len(queue) /\ 1 \in 1..Len(queue) /\ i + 1 # 1 /\ q # Ack
    BY <1>0, <1>1, <1>2, <2>1
  <2> QED
    BY <1>1, <1>4, <2>2
<1>6. ASSUME NEW i \in 1..Len(queue'), NEW j \in 1..Len(queue'),
             queue'[i] = queue'[j], queue'[i] # Ack
      PROVE  i = j
  <2>1. i + 1 = j + 1
    BY <1>1, <1>2, <1>4, <1>6
  <2> QED
    BY <1>1, <2>1
<1> QED
  BY <1>1, <1>2, <1>3, <1>5, <1>6

LEMMA WriterRecvInvariant ==
    ASSUME IInv, WriterRecv
    PROVE  IInv'
<1> USE DEF handleVars, sharedVars, peerVars
<1>0. /\ TypeOK /\ writer.at = "recv" /\ writer.msg = NoMessage
      /\ Ack \notin Requests /\ NoMessage \notin Messages
  BY BrokerAssumption DEF IInv, WriterRecv, TasksHold, Messages
<1>1. UNCHANGED lifecycle /\ UNCHANGED <<handleVars, reader, sharedVars, main, http, peerVars>>
  BY DEF WriterRecv
<1>2. LifecycleTypeOK' /\ PhasesOnlyGo
  BY <1>0, <1>1, SameTable
<1>3. \A q \in Requests : PhaseOf(q)' = PhaseOf(q) /\ Unsent(q)' = Unsent(q)
  BY <1>1 DEF lifecycle, PhaseOf, Unsent
<1>4. RecordIsGuarded' /\ AckWrittenFirst' /\ UndispatchedNeverWritten'
  BY <1>1 DEF lifecycle, IInv, RecordIsGuarded, AckWrittenFirst, UndispatchedNeverWritten
<1>5. \A q \in Requests : PhaseOf(q) # "Dispatching"
  BY <1>0 DEF IInv, PhaseIsHonest
<1>6. PhaseIsHonest'
  BY <1>1, <1>3, <1>5 DEF IInv, PhaseIsHonest
<1>7. CASE queue # <<>> /\ queue' = Tail(queue)
           /\ writer' = [at |-> IF Head(queue) = Ack THEN "write" ELSE "checkReady",
                         msg |-> Head(queue)]
  <2>1. /\ Head(queue) \in Messages /\ queue' \in Seq(Messages)
        /\ Len(queue) \in Nat \ {0} /\ Len(queue') = Len(queue) - 1
        /\ Head(queue) = queue[1]
        /\ \A i \in 1..Len(queue') : i + 1 \in 1..Len(queue) /\ queue'[i] = queue[i + 1]
        /\ \A q : InQueue(q) <=> q = Head(queue) \/ InQueue(q)'
        /\ \A q \in Requests : InQueue(q)' => q # Head(queue)
        /\ \A i, j \in 1..Len(queue') : queue'[i] = queue'[j] /\ queue'[i] # Ack => i = j
    BY <1>7, TailFacts
  <2>2. /\ writer'.msg = Head(queue)
        /\ writer'.at = IF Head(queue) = Ack THEN "write" ELSE "checkReady"
        /\ writer' \in [at : WriterSteps, msg : Messages \cup {NoMessage}]
        /\ Head(queue) # Ack => Head(queue) \in Requests
    BY <1>7, <2>1 DEF WriterSteps, Messages
  <2>3. TypeOK'
    BY <1>0, <1>1, <1>2, <2>1, <2>2 DEF TypeOK
  <2>4. TasksHold'
    BY <1>0, <1>1, <2>1, <2>2 DEF IInv, TasksHold
  <2>5. SubmittedOnce'
    BY <1>0, <1>1, <2>1, <2>2 DEF IInv, SubmittedOnce
  <2>6. UnsentUntilClaimed'
    BY <1>0, <1>1, <1>3, <2>1, <2>2 DEF IInv, UnsentUntilClaimed
  <2>7. ClaimedIsTracked'
    BY <1>0, <2>2 DEF ClaimedIsTracked
  <2>8. AckAhead'
    <3>1. AckUnderway => AckUnderway'
      BY <1>0, <1>1, <2>1, <2>2 DEF AckUnderway, Messages
    <3>2. ASSUME NEW i \in 1..Len(queue'), queue'[i] # Ack
          PROVE  \/ ackWritten' \/ writer'.msg = Ack
                 \/ \E j \in 1..(i - 1) : queue'[j] = Ack
      <4>1. \/ ackWritten \/ writer.msg = Ack
            \/ \E j \in 1..((i + 1) - 1) : queue[j] = Ack
        BY <2>1, <3>2 DEF IInv, AckAhead
      <4>2. ASSUME NEW j \in 1..((i + 1) - 1), queue[j] = Ack, j # 1
            PROVE  \E k \in 1..(i - 1) : queue'[k] = Ack
        <5>1. j - 1 \in 1..(i - 1) /\ j - 1 \in 1..Len(queue') /\ (j - 1) + 1 = j
          BY <2>1, <4>2
        <5> QED
          BY <2>1, <4>2, <5>1
      <4> QED
        BY <1>0, <1>1, <2>1, <2>2, <4>1, <4>2 DEF Messages
    <3>3. writer'.msg \in Requests => ackWritten'
      <4>1. ASSUME Head(queue) # Ack PROVE ackWritten
        <5>1. 1 \in 1..Len(queue) /\ queue[1] # Ack /\ 1..(1 - 1) = {}
          BY <2>1, <4>1
        <5> QED
          BY <1>0, <5>1 DEF IInv, AckAhead, Messages
      <4> QED
        BY <1>0, <1>1, <2>2, <4>1
    <3> QED
      BY <1>1, <3>1, <3>2, <3>3 DEF IInv, AckAhead
  <2> QED
    BY <1>4, <1>6, <2>3, <2>4, <2>5, <2>6, <2>7, <2>8 DEF IInv
<1>8. CASE writer' = [at |-> "stopped", msg |-> NoMessage] /\ UNCHANGED queue
  <2>1. TypeOK'
    BY <1>0, <1>1, <1>2, <1>8 DEF TypeOK, WriterSteps
  <2>2. \A q : InQueue(q)' <=> InQueue(q)
    BY <1>8 DEF InQueue
  <2>3. TasksHold' /\ ClaimedIsTracked'
    BY <1>0, <1>1, <1>8 DEF IInv, TasksHold, ClaimedIsTracked, Messages
  <2>4. SubmittedOnce'
    BY <1>0, <1>1, <1>8, <2>2 DEF IInv, SubmittedOnce
  <2>5. UnsentUntilClaimed'
    BY <1>0, <1>1, <1>3, <1>8, <2>2 DEF IInv, UnsentUntilClaimed, Messages
  <2>6. AckAhead'
    <3>1. AckUnderway'
      BY <1>8 DEF AckUnderway
    <3>2. writer.msg # Ack /\ writer'.msg \notin Requests
      BY <1>0, <1>8 DEF Messages
    <3> QED
      BY <1>0, <1>1, <1>8, <3>1, <3>2 DEF IInv, AckAhead
  <2> QED
    BY <1>4, <1>6, <2>1, <2>3, <2>4, <2>5, <2>6 DEF IInv
<1> QED
  BY <1>7, <1>8 DEF WriterRecv

\* The writer holds a request from its dequeuing to its report.
LEMMA HoldsRequest ==
    ASSUME IInv, writer.at \in {"checkReady", "checkBudget", "claim", "mark", "ack"}
    PROVE  /\ writer.msg \in Requests
           /\ ~InQueue(writer.msg) /\ pc[writer.msg] \notin NotSubmitted
           /\ ackWritten
           /\ writer.at \in {"checkReady", "checkBudget", "claim"} => Unsent(writer.msg)
<1>1. writer.msg \in Requests
  BY DEF IInv, TasksHold
<1> QED
  BY <1>1 DEF IInv, SubmittedOnce, UnsentUntilClaimed, AckAhead

\* The writer reports on its request and turns to the next.
LEMMA SkipInvariant ==
    ASSUME IInv, NEW outcome \in {"Cancelled", "Expired", "Dispatched"}, Skip(outcome),
           UNCHANGED <<lifecycle, pc, clock, result, queue, reader, sharedVars, main, http, peerVars>>,
           \/ outcome # "Dispatched" /\ writer.at \in {"checkReady", "checkBudget", "claim"}
           \/ outcome = "Dispatched" /\ writer.at = "ack"
    PROVE  IInv'
<1> USE DEF sharedVars, peerVars
<1> DEFINE m == writer.msg
<1>0. /\ TypeOK /\ m \in Requests /\ ~InQueue(m) /\ pc[m] \notin NotSubmitted /\ ackWritten
      /\ outcome # "Dispatched" => wire[m] = "none"
      /\ writer' = [at |-> "recv", msg |-> NoMessage]
      /\ written' = [written EXCEPT ![m] = outcome]
      /\ NoMessage \notin Messages
  BY HoldsRequest, BrokerAssumption DEF IInv, Unsent, Skip, Idle, Messages
<1> HIDE DEF m
<1>1. LifecycleTypeOK' /\ PhasesOnlyGo
  BY <1>0, SameTable
<1>2. TypeOK'
  BY <1>0, <1>1 DEF TypeOK, WriterSteps
<1>3. /\ \A q \in Requests : PhaseOf(q)' = PhaseOf(q)
      /\ \A q : InQueue(q)' <=> InQueue(q)
  BY DEF lifecycle, PhaseOf, InQueue
<1>4. \A q \in Requests \ {m} : written'[q] = written[q] /\ Unsent(q)' = Unsent(q)
  BY <1>0, <1>3 DEF TypeOK, Unsent
<1>5. written'[m] = outcome
  BY <1>0 DEF TypeOK
<1>6. TasksHold' /\ ClaimedIsTracked'
  BY <1>0 DEF IInv, TasksHold, ClaimedIsTracked, Messages
<1>7. RecordIsGuarded' /\ AckWrittenFirst'
  BY DEF lifecycle, IInv, RecordIsGuarded, AckWrittenFirst
<1>8. SubmittedOnce'
  BY <1>0, <1>3 DEF IInv, SubmittedOnce, Messages
<1>9. UnsentUntilClaimed'
  BY <1>0, <1>3, <1>4 DEF IInv, UnsentUntilClaimed, Messages, NotSubmitted
<1>10. PhaseIsHonest'
  <2>1. \A q \in Requests : PhaseOf(q) # "Dispatching"
    BY DEF IInv, PhaseIsHonest
  <2> QED
    BY <1>3, <2>1 DEF IInv, PhaseIsHonest
<1>11. UndispatchedNeverWritten'
  BY <1>0, <1>4, <1>5 DEF IInv, UndispatchedNeverWritten
<1>12. AckAhead'
  <2>1. AckUnderway' /\ writer'.msg \notin Requests
    BY <1>0 DEF AckUnderway, Messages
  <2> QED
    BY <1>0, <2>1 DEF IInv, AckAhead
<1> QED
  BY <1>2, <1>6, <1>7, <1>8, <1>9, <1>10, <1>11, <1>12 DEF IInv

\* A check that passes.
LEMMA ProceedInvariant ==
    ASSUME IInv, NEW to \in {"checkBudget", "claim"},
           writer.at \in {"checkReady", "checkBudget"},
           writer' = [writer EXCEPT !.at = to],
           UNCHANGED <<written, lifecycle, pc, clock, result, queue, reader, sharedVars, main, http,
                       peerVars>>
    PROVE  IInv'
<1> USE DEF sharedVars, peerVars
<1>0. /\ TypeOK /\ writer.msg \in Requests /\ Unsent(writer.msg) /\ ackWritten
      /\ writer'.at = to /\ writer'.msg = writer.msg
  BY HoldsRequest DEF IInv, TypeOK
<1>1. LifecycleTypeOK' /\ PhasesOnlyGo
  BY <1>0, SameTable
<1>2. TypeOK'
  BY <1>0, <1>1 DEF TypeOK, WriterSteps
<1>3. /\ \A q \in Requests : PhaseOf(q)' = PhaseOf(q) /\ Unsent(q)' = Unsent(q)
      /\ \A q : InQueue(q)' <=> InQueue(q)
  BY DEF lifecycle, PhaseOf, Unsent, InQueue
<1>4. TasksHold' /\ ClaimedIsTracked'
  BY <1>0 DEF IInv, TasksHold, ClaimedIsTracked
<1>5. RecordIsGuarded' /\ AckWrittenFirst' /\ UndispatchedNeverWritten'
  BY DEF lifecycle, IInv, RecordIsGuarded, AckWrittenFirst, UndispatchedNeverWritten
<1>6. SubmittedOnce' /\ UnsentUntilClaimed'
  BY <1>0, <1>3 DEF IInv, SubmittedOnce, UnsentUntilClaimed
<1>7. PhaseIsHonest'
  <2>1. \A q \in Requests : PhaseOf(q) # "Dispatching"
    BY DEF IInv, PhaseIsHonest
  <2> QED
    BY <1>3, <2>1 DEF IInv, PhaseIsHonest
<1>8. AckAhead'
  BY <1>0 DEF IInv, AckAhead, AckUnderway
<1> QED
  BY <1>2, <1>4, <1>5, <1>6, <1>7, <1>8 DEF IInv

\* begin_dispatch claims a queued record.
LEMMA ClaimInvariant ==
    ASSUME IInv, writer.at = "claim", Claimable(writer.msg), BeginDispatch(writer.msg),
           writer' = [writer EXCEPT !.at = "write"],
           UNCHANGED <<written, pc, clock, result, queue, reader, sharedVars, main, http, peerVars>>
    PROVE  IInv'
<1> USE DEF sharedVars, peerVars
<1> PICK m \in Requests : m = writer.msg
  BY HoldsRequest
<1>0. /\ TypeOK /\ LifecycleTypeOK
      /\ writer.msg = m /\ ~InQueue(m) /\ pc[m] \notin NotSubmitted /\ ackWritten
      /\ wire[m] = "none" /\ written[m] = "open"
      /\ writer'.at = "write" /\ writer'.msg = m
      /\ active[m] = "Queued" /\ active' = [active EXCEPT ![m] = "Dispatching"]
      /\ UNCHANGED <<terminal, terminal_order, response>>
  BY HoldsRequest DEF IInv, TypeOK, Unsent, Claimable, BeginDispatch
<1>1. TypeOK'
  BY <1>0 DEF TypeOK, LifecycleTypeOK, Phases, WriterSteps
<1>2. /\ active'[m] = "Dispatching" /\ PhaseOf(m)' = "Dispatching"
      /\ \A q \in Requests \ {m} : active'[q] = active[q] /\ PhaseOf(q)' = PhaseOf(q)
      /\ \A q : InQueue(q)' <=> InQueue(q)
  BY <1>0 DEF LifecycleTypeOK, PhaseOf, Absent, InQueue
<1>3. \A q \in Requests \ {m} : Unsent(q)' = Unsent(q)
  BY <1>2 DEF Unsent
<1>4. TasksHold' /\ AckWrittenFirst' /\ UndispatchedNeverWritten'
  BY <1>0 DEF IInv, TasksHold, AckWrittenFirst, UndispatchedNeverWritten, Messages
<1>5. RecordIsGuarded'
  BY <1>0, <1>2 DEF IInv, RecordIsGuarded, Absent
<1>6. SubmittedOnce'
  BY <1>0, <1>2 DEF IInv, SubmittedOnce
<1>7. UnsentUntilClaimed'
  BY <1>0, <1>2, <1>3 DEF IInv, UnsentUntilClaimed, NotSubmitted
<1>8. ClaimedIsTracked'
  BY <1>0, <1>2 DEF ClaimedIsTracked
<1>9. PhaseIsHonest'
  BY <1>0, <1>2 DEF IInv, PhaseIsHonest
<1>10. AckAhead'
  BY <1>0 DEF IInv, AckAhead, AckUnderway
<1> QED
  BY <1>1, <1>4, <1>5, <1>6, <1>7, <1>8, <1>9, <1>10 DEF IInv

LEMMA WriterChecksInvariant ==
    ASSUME IInv, WriterCheckReady \/ WriterCheckBudget \/ WriterClaim \/ WriterAck
    PROVE  IInv'
<1>1. CASE WriterCheckReady
  BY <1>1, ProceedInvariant, SkipInvariant DEF WriterCheckReady
<1>2. CASE WriterCheckBudget
  BY <1>2, ProceedInvariant, SkipInvariant DEF WriterCheckBudget
<1>3. CASE WriterClaim
  BY <1>3, ClaimInvariant, SkipInvariant DEF WriterClaim
<1>4. CASE WriterAck
  BY <1>4, SkipInvariant DEF WriterAck
<1> QED
  BY <1>1, <1>2, <1>3, <1>4

\* What the writer knows of the message it is writing.
LEMMA WritesClaimed ==
    ASSUME IInv, writer.at = "write"
    PROVE  /\ writer.msg \in Messages
           /\ writer.msg # Ack =>
                /\ writer.msg \in Requests /\ ackWritten
                /\ ~InQueue(writer.msg) /\ pc[writer.msg] \notin NotSubmitted
                /\ wire[writer.msg] = "none" /\ written[writer.msg] = "open"
                /\ PhaseOf(writer.msg) \in {"Dispatching", Absent}
           /\ \A q \in Requests : PhaseOf(q) = "Dispatching" => q = writer.msg
<1>1. writer.msg \in Messages /\ (writer.msg # Ack => writer.msg \in Requests)
  BY DEF IInv, TasksHold, Messages
<1>2. \A q \in Requests : PhaseOf(q) = "Dispatching" => q = writer.msg
  BY DEF IInv, PhaseIsHonest
<1>3. ASSUME NEW m \in Requests, m = writer.msg
      PROVE  /\ ackWritten /\ ~InQueue(m) /\ pc[m] \notin NotSubmitted
             /\ wire[m] = "none" /\ written[m] = "open" /\ PhaseOf(m) \in {"Dispatching", Absent}
  BY <1>3 DEF IInv, AckAhead, SubmittedOnce, ClaimedIsTracked
<1> QED
  BY <1>1, <1>2, <1>3

LEMMA WriterWriteInvariant ==
    ASSUME IInv, WriterWrite
    PROVE  IInv'
<1> USE DEF handleVars, sharedVars
<1>0. /\ TypeOK /\ writer.at = "write" /\ writer.msg \in Messages
      /\ \A q \in Requests : PhaseOf(q) = "Dispatching" => q = writer.msg
      /\ UNCHANGED lifecycle
      /\ UNCHANGED <<handleVars, queue, reader, sharedVars, main, http, readySent>>
      /\ Ack \notin Requests /\ NoMessage \notin Messages
  BY WritesClaimed, BrokerAssumption DEF WriterWrite, IInv, Messages
<1>1. LifecycleTypeOK' /\ PhasesOnlyGo
  BY <1>0, SameTable
<1>2. /\ \A q \in Requests : PhaseOf(q)' = PhaseOf(q)
      /\ \A q : InQueue(q)' <=> InQueue(q)
  BY <1>0 DEF lifecycle, PhaseOf, InQueue
<1>3. RecordIsGuarded'
  BY <1>0 DEF lifecycle, IInv, RecordIsGuarded
<1>4. CASE writer.msg = Ack
  <2>1. ackWritten' = TRUE /\ UNCHANGED wire /\ writer' = [at |-> "recv", msg |-> NoMessage]
    BY <1>0, <1>4 DEF WriterWrite, PutOnWire, Idle
  <2>2. TypeOK'
    BY <1>0, <1>1, <2>1 DEF TypeOK, WriterSteps
  <2>3. \A q \in Requests : Unsent(q)' = Unsent(q)
    BY <1>0, <1>2, <2>1 DEF Unsent
  <2>4. TasksHold' /\ ClaimedIsTracked' /\ AckWrittenFirst' /\ UndispatchedNeverWritten'
    BY <1>0, <2>1
       DEF IInv, TasksHold, ClaimedIsTracked, AckWrittenFirst, UndispatchedNeverWritten, Messages
  <2>5. SubmittedOnce' /\ UnsentUntilClaimed'
    BY <1>0, <1>2, <2>1, <2>3 DEF IInv, SubmittedOnce, UnsentUntilClaimed, Messages
  <2>6. PhaseIsHonest'
    BY <1>0, <1>2, <1>4, <2>1 DEF IInv, PhaseIsHonest
  <2>7. AckAhead'
    BY <2>1 DEF AckAhead, AckUnderway
  <2> QED
    BY <1>3, <2>2, <2>4, <2>5, <2>6, <2>7 DEF IInv
<1>5. CASE writer.msg # Ack
  <2>1. PICK m \in Requests : m = writer.msg
    BY <1>5, WritesClaimed, <1>0
  <2>2. /\ writer.msg = m /\ ackWritten /\ ~InQueue(m) /\ pc[m] \notin NotSubmitted
        /\ written[m] = "open" /\ PhaseOf(m) \in {"Dispatching", Absent}
    BY <1>0, <1>5, <2>1, WritesClaimed
  <2>3. /\ wire' = [wire EXCEPT ![m] = "written"] /\ UNCHANGED ackWritten
        /\ writer' = [writer EXCEPT !.at = "mark"]
    BY <1>5, <2>2 DEF WriterWrite, PutOnWire
  <2>4. /\ wire'[m] = "written" /\ \A q \in Requests \ {m} : wire'[q] = wire[q]
        /\ writer'.at = "mark" /\ writer'.msg = m
    BY <1>0, <2>2, <2>3 DEF TypeOK
  <2>5. TypeOK'
    BY <1>0, <1>1, <2>3 DEF TypeOK, WriterSteps
  <2>6. \A q \in Requests \ {m} : Unsent(q)' = Unsent(q)
    BY <1>0, <1>2, <2>4 DEF Unsent
  <2>7. TasksHold' /\ ClaimedIsTracked'
    BY <1>0, <1>2, <2>2, <2>4 DEF IInv, TasksHold, ClaimedIsTracked
  <2>8. AckWrittenFirst' /\ UndispatchedNeverWritten'
    BY <1>0, <2>2, <2>3, <2>4 DEF IInv, AckWrittenFirst, UndispatchedNeverWritten
  <2>9. SubmittedOnce'
    BY <1>0, <1>2, <2>2, <2>4 DEF IInv, SubmittedOnce
  <2>10. UnsentUntilClaimed'
    BY <1>0, <1>2, <2>2, <2>4, <2>6 DEF IInv, UnsentUntilClaimed, NotSubmitted
  <2>11. PhaseIsHonest'
    BY <1>0, <1>2, <2>2, <2>4 DEF IInv, PhaseIsHonest, Absent
  <2>12. AckAhead'
    BY <1>0, <2>2, <2>3 DEF IInv, AckAhead, AckUnderway
  <2> QED
    BY <1>3, <2>5, <2>7, <2>8, <2>9, <2>10, <2>11, <2>12 DEF IInv
<1> QED
  BY <1>4, <1>5

LEMMA WriterFailInvariant ==
    ASSUME IInv, WriterFail
    PROVE  IInv'
<1> USE DEF sharedVars
<1> PICK m \in Messages : m = writer.msg
  BY WritesClaimed DEF WriterFail
<1>0. /\ TypeOK /\ writer.at = "write" /\ writer.msg = m
      /\ Ack \notin Requests /\ NoMessage \notin Messages
      /\ m # Ack => /\ m \in Requests /\ ackWritten
                    /\ pc[m] \notin NotSubmitted
                    /\ PhaseOf(m) \in {"Dispatching", Absent}
  BY WritesClaimed, BrokerAssumption DEF WriterFail, IInv, Messages
<1>1. /\ UNCHANGED lifecycle
      /\ UNCHANGED <<pc, clock, result, reader, sharedVars, main, http, readySent>>
      /\ writer' = [at |-> "stopped", msg |-> NoMessage]
      /\ queue' = <<>>
      /\ written' = [q \in Requests |-> IF q = m \/ InQueue(q) THEN "closed" ELSE written[q]]
      /\ \/ m = Ack /\ ackWritten' = TRUE /\ UNCHANGED wire
         \/ m # Ack /\ wire' = [wire EXCEPT ![m] = "written"] /\ UNCHANGED ackWritten
         \/ UNCHANGED <<wire, ackWritten>>
  BY <1>0 DEF WriterFail, PutOnWire
<1>2. LifecycleTypeOK' /\ PhasesOnlyGo
  BY <1>0, <1>1, SameTable
<1>3. TypeOK'
  <2>1. wire' \in [Requests -> {"none", "written", "answered"}] /\ ackWritten' \in BOOLEAN
    BY <1>0, <1>1 DEF TypeOK
  <2>2. written' \in [Requests -> {"unborn", "open", "Dispatched", "Cancelled",
                                  "Expired", "closed"}]
    BY <1>0, <1>1 DEF TypeOK
  <2>3. queue' \in Seq(Messages) /\ writer' \in [at : WriterSteps, msg : Messages \cup {NoMessage}]
    BY <1>1 DEF WriterSteps
  <2> QED
    BY <1>0, <1>1, <1>2, <2>1, <2>2, <2>3 DEF TypeOK
<1>4. /\ \A q \in Requests : PhaseOf(q)' = PhaseOf(q)
      /\ \A q : ~InQueue(q)'
      /\ \A q \in Requests : wire'[q] = "none" => wire[q] = "none"
      /\ \A q \in Requests \ {m} : wire'[q] = wire[q]
      /\ \A q \in Requests : written'[q] \in {written[q], "closed"}
      /\ m \in Requests => written'[m] = "closed"
      /\ ackWritten => ackWritten'
  BY <1>0, <1>1 DEF TypeOK, lifecycle, PhaseOf, InQueue
<1>5. TasksHold' /\ ClaimedIsTracked' /\ SubmittedOnce'
  BY <1>0, <1>1, <1>4 DEF IInv, TasksHold, ClaimedIsTracked, SubmittedOnce, Messages
<1>6. RecordIsGuarded'
  BY <1>1 DEF lifecycle, IInv, RecordIsGuarded
<1>7. UnsentUntilClaimed'
  <2>1. ASSUME NEW q \in Requests, pc[q] \in NotSubmitted
        PROVE  q # m /\ wire'[q] = wire[q] /\ (~InQueue(q) => written'[q] = written[q])
    BY <1>0, <1>1, <1>4, <2>1
  <2>2. ASSUME NEW q \in Requests, pc[q] = "enqueue"
        PROVE  Unsent(q)'
    BY <1>4, <2>1, <2>2 DEF IInv, SubmittedOnce, UnsentUntilClaimed, Unsent, NotSubmitted
  <2>3. ASSUME NEW q \in Requests, pc[q] \in NotSubmitted \ {"enqueue"}
        PROVE  wire'[q] = "none" /\ PhaseOf(q)' = Absent
    BY <1>4, <2>1, <2>3 DEF IInv, UnsentUntilClaimed
  <2> QED
    BY <1>1, <1>4, <2>2, <2>3 DEF UnsentUntilClaimed
<1>8. PhaseIsHonest'
  <2>1. ASSUME NEW q \in Requests, PhaseOf(q) = "Queued"
        PROVE  wire'[q] = "none"
    BY <1>0, <1>4, <2>1 DEF IInv, PhaseIsHonest, Absent
  <2>2. ASSUME NEW q \in Requests, PhaseOf(q) = "Dispatched"
        PROVE  wire'[q] # "none"
    BY <1>4, <2>2 DEF IInv, PhaseIsHonest
  <2> QED
    BY <1>1, <1>4, <2>1, <2>2 DEF PhaseIsHonest
<1>9. UndispatchedNeverWritten'
  BY <1>4 DEF IInv, UndispatchedNeverWritten
<1>10. AckWrittenFirst'
  <2>1. \A q \in Requests : wire'[q] # "none" => wire[q] # "none" \/ q = m
    BY <1>4
  <2> QED
    BY <1>0, <1>4, <2>1 DEF IInv, AckWrittenFirst
<1>11. AckAhead'
  <2>1. AckUnderway' /\ writer'.msg \notin Requests
    BY <1>0, <1>1 DEF AckUnderway, Messages
  <2> QED
    BY <1>1, <2>1 DEF AckAhead
<1> QED
  BY <1>3, <1>5, <1>6, <1>7, <1>8, <1>9, <1>10, <1>11 DEF IInv

\* mark_dispatched advances a record from Dispatching, wherever it is kept.
LEMMA MarkFacts ==
    ASSUME LifecycleTypeOK, NEW m \in Requests, MarkDispatched(m)
    PROVE  /\ LifecycleTypeOK'
           /\ \A q \in Requests : active'[q] = Absent <=> active[q] = Absent
           /\ \A q \in Requests \ {m} : PhaseOf(q)' = PhaseOf(q)
           /\ PhaseOf(m)' = IF PhaseOf(m) = "Dispatching" THEN "Dispatched" ELSE PhaseOf(m)
<1> USE DEF MarkDispatched, LifecycleTypeOK, Phases, Absent
<1>1. /\ active' \in [Requests -> Phases \cup {Absent}]
      /\ \A q \in Requests :
           active'[q] = IF q = m /\ active[q] = "Dispatching" THEN "Dispatched" ELSE active[q]
  OBVIOUS
<1> DEFINE phase == IF active[m] # "Dispatching" /\ terminal[m].phase = "Dispatching"
                    THEN "Dispatched" ELSE terminal[m].phase
<1>2. terminal' = [terminal EXCEPT ![m] = [terminal[m] EXCEPT !.phase = phase]]
  OBVIOUS
<1>3. /\ [terminal[m] EXCEPT !.phase = phase] \in TerminalRecords \cup {NoRecord}
      /\ [terminal[m] EXCEPT !.phase = phase].phase = phase
  <2>1. CASE terminal[m] = NoRecord
    BY <2>1 DEF NoRecord
  <2>2. CASE terminal[m] \in TerminalRecords
    BY <2>2 DEF TerminalRecords
  <2> QED
    BY <2>1, <2>2
<1>4. /\ terminal' \in [Requests -> TerminalRecords \cup {NoRecord}]
      /\ terminal'[m].phase = phase
      /\ \A q \in Requests \ {m} : terminal'[q] = terminal[q]
  BY <1>2, <1>3
<1>5. LifecycleTypeOK'
  BY <1>1, <1>4
<1>6. PhaseOf(m)' = IF PhaseOf(m) = "Dispatching" THEN "Dispatched" ELSE PhaseOf(m)
  BY <1>1, <1>4 DEF PhaseOf
<1> QED
  BY <1>1, <1>4, <1>5, <1>6 DEF PhaseOf

LEMMA WriterMarkInvariant ==
    ASSUME IInv, WriterMark
    PROVE  IInv'
<1> USE DEF handleVars, sharedVars, peerVars
<1> PICK m \in Requests : m = writer.msg
  BY HoldsRequest DEF WriterMark
<1>0. /\ TypeOK /\ LifecycleTypeOK /\ writer.at = "mark" /\ writer.msg = m
      /\ ~InQueue(m) /\ pc[m] \notin NotSubmitted /\ ackWritten
      /\ wire[m] # "none" /\ PhaseOf(m) \in {"Dispatching", Absent}
      /\ MarkDispatched(m) /\ writer' = [writer EXCEPT !.at = "ack"]
      /\ UNCHANGED <<handleVars, queue, reader, sharedVars, main, http, peerVars>>
  BY HoldsRequest DEF WriterMark, IInv, TypeOK, ClaimedIsTracked
<1>1. /\ LifecycleTypeOK'
      /\ \A q \in Requests : active'[q] = Absent <=> active[q] = Absent
      /\ \A q \in Requests \ {m} : PhaseOf(q)' = PhaseOf(q)
      /\ PhaseOf(m)' \in {"Dispatched", Absent}
  BY <1>0, MarkFacts DEF Absent
<1>2. writer'.at = "ack" /\ writer'.msg = m /\ \A q : InQueue(q)' <=> InQueue(q)
  BY <1>0 DEF TypeOK, InQueue
<1>3. TypeOK'
  BY <1>0, <1>1 DEF TypeOK, WriterSteps
<1>4. \A q \in Requests \ {m} : Unsent(q)' = Unsent(q)
  BY <1>0, <1>1 DEF Unsent
<1>5. TasksHold' /\ ClaimedIsTracked' /\ AckWrittenFirst' /\ UndispatchedNeverWritten'
  BY <1>0, <1>2
     DEF IInv, TasksHold, ClaimedIsTracked, AckWrittenFirst, UndispatchedNeverWritten
<1>6. RecordIsGuarded'
  BY <1>0, <1>1 DEF IInv, RecordIsGuarded
<1>7. SubmittedOnce'
  BY <1>0, <1>2 DEF IInv, SubmittedOnce
<1>8. UnsentUntilClaimed'
  BY <1>0, <1>1, <1>2, <1>4 DEF IInv, UnsentUntilClaimed, NotSubmitted
<1>9. PhaseIsHonest'
  BY <1>0, <1>1, <1>2 DEF IInv, PhaseIsHonest, Absent
<1>10. AckAhead'
  BY <1>0, <1>2 DEF IInv, AckAhead, AckUnderway
<1> QED
  BY <1>3, <1>5, <1>6, <1>7, <1>8, <1>9, <1>10 DEF IInv

-----------------------------------------------------------------------------
(* The theorems.                                                            *)

LEMMA InitInvariant ==
    ASSUME Init
    PROVE  IInv
<1> USE DEF Init, LifecycleInit
<1>1. TypeOK
  <2>1. LifecycleTypeOK
    BY DEF LifecycleTypeOK, ChannelStates
  <2>2. /\ pc \in [Requests -> CallSteps] /\ result \in [Requests -> Outcomes]
        /\ main \in MainSteps /\ queue \in Seq(Messages)
        /\ writer \in [at : WriterSteps, msg : Messages \cup {NoMessage}]
        /\ reader \in [at : ReaderSteps, msg : Requests \cup {NoMessage}]
    BY DEF CallSteps, WriterSteps, ReaderSteps, MainSteps, Outcomes
  <2>3. /\ clock \in [Requests -> {"ample", "lastSecond", "passed"}]
        /\ written \in [Requests -> {"unborn", "open", "Dispatched", "Cancelled",
                                     "Expired", "closed"}]
        /\ wire \in [Requests -> {"none", "written", "answered"}]
        /\ http \in {"serving", "stopped", "drained"}
        /\ ready \in BOOLEAN /\ connected \in BOOLEAN /\ permitsClosed \in BOOLEAN
        /\ ackWritten \in BOOLEAN /\ readySent \in BOOLEAN
    OBVIOUS
  <2> QED
    BY <2>1, <2>2, <2>3 DEF TypeOK
<1>2. \A q \in Requests : PhaseOf(q) = Absent
  BY DEF PhaseOf, NoRecord
<1>3. \A q : ~InQueue(q)
  BY DEF InQueue
<1>4. TasksHold /\ RecordIsGuarded /\ ClaimedIsTracked
  BY BrokerAssumption DEF TasksHold, RecordIsGuarded, ClaimedIsTracked
<1>5. SubmittedOnce /\ UnsentUntilClaimed
  BY <1>2, <1>3, BrokerAssumption DEF SubmittedOnce, UnsentUntilClaimed, NotSubmitted
<1>6. PhaseIsHonest /\ UndispatchedNeverWritten /\ AckWrittenFirst
  BY <1>2 DEF PhaseIsHonest, UndispatchedNeverWritten, AckWrittenFirst, Absent
<1>7. AckAhead
  BY BrokerAssumption DEF AckAhead
<1> QED
  BY <1>1, <1>4, <1>5, <1>6, <1>7 DEF IInv

LEMMA StutterInvariant ==
    ASSUME IInv, UNCHANGED vars
    PROVE  IInv'
<1> USE DEF vars, handleVars, sharedVars, peerVars
<1>0. TypeOK /\ TasksHold
  BY DEF IInv
<1>1. LifecycleTypeOK' /\ PhasesOnlyGo
  BY <1>0, SameTable
<1>2. TypeOK'
  BY <1>0, <1>1 DEF TypeOK
<1> QED
  BY <1>0, <1>1, <1>2, ReadyIsBacked, BackgroundMoves DEF TasksHold

LEMMA NextInvariant ==
    ASSUME IInv, [Next]_vars
    PROVE  IInv'
<1>1. ASSUME NEW r \in Requests, Call(r) \/ CallStep(r) \/ Abandon(r) \/ Tick(r)
      PROVE  IInv'
  BY <1>1, EarlyCallInvariant, LateCallInvariant, GuardInvariant, RegisterCallInvariant,
     EnqueueInvariant, TickInvariant
     DEF CallStep
<1>2. CASE WriterStep
  BY <1>2, WriterRecvInvariant, WriterChecksInvariant, WriterWriteInvariant, WriterFailInvariant,
     WriterMarkInvariant
     DEF WriterStep
<1>3. CASE ReaderStep \/ ReaderInput
  BY <1>3, ReaderInvariant, ReaderQueueAckInvariant DEF ReaderStep, ReaderInput
<1>4. CASE MainStep \/ ShutdownTimeout \/ HttpStop \/ HttpDrain \/ Exited
  BY <1>4, MainInvariant
<1>5. CASE UNCHANGED vars
  BY <1>5, StutterInvariant
<1> QED
  BY <1>1, <1>2, <1>3, <1>4, <1>5 DEF Next

\* The inductive invariant holds in every reachable state, whatever the number
\* of calls, permits and queue places.
THEOREM Invariance == Spec => []IInv
<1>1. Init => IInv
  BY InitInvariant
<1>2. IInv /\ [Next]_vars => IInv'
  BY NextInvariant
<1> QED
  BY <1>1, <1>2, PTL DEF Spec

\* Every variable of the broker keeps its type.
THEOREM TypeCorrect == Spec => []TypeOK
<1>1. IInv => TypeOK
  BY DEF IInv
<1> QED
  BY <1>1, Invariance, PTL

\* The phase a record keeps tells the truth about its frame
\* (request_lifecycle.rs:74-103, broker.rs:365-387).
THEOREM HonestPhases == Spec => []PhaseIsHonest
<1>1. IInv => PhaseIsHonest
  BY DEF IInv
<1> QED
  BY <1>1, Invariance, PTL

\* "Cancelled" and "Expired" are reported only of frames that are never
\* written: a caller told so may safely try again (broker.rs:365-387).
THEOREM CancelledMeansUnsent == Spec => []UndispatchedNeverWritten
<1>1. IInv => UndispatchedNeverWritten
  BY DEF IInv
<1> QED
  BY <1>1, Invariance, PTL

\* The extension reads the ready_ack before any request (broker.rs:330-337).
THEOREM AckComesFirst == Spec => []AckWrittenFirst
<1>1. IInv => AckWrittenFirst
  BY DEF IInv
<1> QED
  BY <1>1, Invariance, PTL

-----------------------------------------------------------------------------
(* The writer commits itself only to requests that somebody waits for.      *)

\* Only a claim starts the writing of a request.
LEMMA OnlyClaimsStart ==
    ASSUME IInv, [Next]_vars, NEW r \in Requests,
           writer'.at = "write", writer.at # "write", writer'.msg = r
    PROVE  pc[r] \notin {"abandonPermit", "done"}
<1>0. TypeOK /\ writer' # writer /\ Ack \notin Requests
  BY BrokerAssumption DEF IInv
<1>1. WriterStep
  <2>1. ASSUME NEW q \in Requests PROVE ~(Call(q) \/ CallStep(q) \/ Abandon(q) \/ Tick(q))
    BY <1>0
       DEF Call, CallStep, AcquirePermit, PermitTimeout, RecheckReady, RegisterCall, Enqueue,
           AwaitEither, AwaitResponse, Elapse, TimedOut, DropPermit, DropGuard, Abandon,
           AbandonGuard, AbandonPermit, Tick
  <2>2. ~ReaderStep /\ ~ReaderInput
    BY <1>0
       DEF ReaderStep, ReaderInput, ReaderEnd, ReaderTake, ReaderDeliver, ReaderReady,
           ReaderQueueAck, ReaderSetReady, ReaderConnect
  <2>3. ~(MainStep \/ ShutdownTimeout \/ HttpStop \/ HttpDrain \/ Exited \/ UNCHANGED vars)
    BY <1>0
       DEF MainStep, MainWake, MainNotReady, MainClosePermits, MainClearRuntime,
           MainClearLifecycle, MainStopReader, MainAwaitHttp, MainAwaitWriter,
           ShutdownTimeout, HttpStop, HttpDrain, Exited, vars
  <2> QED
    BY <2>1, <2>2, <2>3 DEF Next
<1>2. WriterClaim /\ Claimable(r)
  <2>1. ~WriterRecv
    BY <1>0 DEF WriterRecv
  <2>2. ~(WriterCheckReady \/ WriterCheckBudget \/ WriterWrite \/ WriterFail
          \/ WriterMark \/ WriterAck)
    BY <1>0
       DEF WriterCheckReady, WriterCheckBudget, WriterWrite, WriterFail, WriterMark, WriterAck,
           Skip, Idle, TypeOK
  <2>3. WriterClaim
    BY <1>1, <2>1, <2>2 DEF WriterStep
  <2>4. writer'.msg = writer.msg /\ Claimable(writer.msg)
    BY <1>0, <2>3 DEF WriterClaim, Skip, Idle, TypeOK
  <2> QED
    BY <2>3, <2>4
<1> QED
  BY <1>2 DEF Claimable, IInv, RecordIsGuarded, Absent

\* Only the writer puts a frame on the wire, the one it is writing.
LEMMA OnlyWriterSends ==
    ASSUME IInv, [Next]_vars, NEW r \in Requests, FrameLeaves(r)
    PROVE  writer = [at |-> "write", msg |-> r]
<1>0. /\ TypeOK /\ wire[r] = "none" /\ wire'[r] = "written" /\ wire' # wire
      /\ Ack \notin Requests
  BY BrokerAssumption DEF IInv, FrameLeaves
<1>1. WriterStep
  <2> USE DEF peerVars
  <2>1. ASSUME NEW q \in Requests PROVE ~(Call(q) \/ CallStep(q) \/ Abandon(q) \/ Tick(q))
    BY <1>0
       DEF Call, CallStep, AcquirePermit, PermitTimeout, RecheckReady, RegisterCall, Enqueue,
           AwaitEither, AwaitResponse, Elapse, TimedOut, DropPermit, DropGuard, Abandon,
           AbandonGuard, AbandonPermit, Tick
  <2>2. ~ReaderStep /\ ~ReaderEnd /\ ~ReaderReady
    BY <1>0
       DEF ReaderStep, ReaderEnd, ReaderDeliver, ReaderReady,
           ReaderQueueAck, ReaderSetReady, ReaderConnect
  <2>3. ASSUME NEW q \in Requests PROVE ~ReaderTake(q)
    BY <1>0 DEF ReaderTake, TypeOK
  <2>4. ~(MainStep \/ ShutdownTimeout \/ HttpStop \/ HttpDrain \/ Exited \/ UNCHANGED vars)
    BY <1>0
       DEF MainStep, MainWake, MainNotReady, MainClosePermits, MainClearRuntime,
           MainClearLifecycle, MainStopReader, MainAwaitHttp, MainAwaitWriter,
           ShutdownTimeout, HttpStop, HttpDrain, Exited, vars
  <2> QED
    BY <2>1, <2>2, <2>3, <2>4 DEF Next, ReaderInput
<1>2. writer.at = "write" /\ PutOnWire(writer.msg)
  <2>1. ~(WriterRecv \/ WriterCheckReady \/ WriterCheckBudget \/ WriterClaim
          \/ WriterMark \/ WriterAck)
    BY <1>0
       DEF WriterRecv, WriterCheckReady, WriterCheckBudget, WriterClaim, WriterMark, WriterAck,
           peerVars
  <2> QED
    BY <1>0, <1>1, <2>1 DEF WriterStep, WriterWrite, WriterFail
<1>3. writer.msg = r
  BY <1>0, <1>2 DEF PutOnWire, TypeOK
<1> QED
  BY <1>0, <1>2, <1>3 DEF TypeOK

\* A frame is never committed for a waiter that has left
\* (docs/architecture/failure-modes.md:39, broker.rs:365-368).
THEOREM DispatchIsAwaited == Spec => OnlyWaitedForIsDispatched
<1>1. IInv /\ [Next]_vars =>
        \A r \in Requests :
          /\ writer'.at = "write" /\ writer.at # "write" /\ writer'.msg = r
               => pc[r] \notin {"abandonPermit", "done"}
          /\ FrameLeaves(r) => writer = [at |-> "write", msg |-> r]
  BY OnlyClaimsStart, OnlyWriterSends
<1> QED
  BY <1>1, Invariance, PTL DEF Spec, OnlyWaitedForIsDispatched

-----------------------------------------------------------------------------
(* The retained records: terminal_order lists the terminal table.           *)

\* s lists the members of S, each once.
Enumerates(s, S) ==
    /\ \A i, j \in 1..Len(s) : s[i] = s[j] => i = j
    /\ \A q \in Requests : q \in S <=> \E i \in 1..Len(s) : s[i] = q

LEMMA AppendEnumerates ==
    ASSUME NEW s \in Seq(Requests), NEW S \in SUBSET Requests, Enumerates(s, S),
           NEW r \in Requests \ S
    PROVE  Enumerates(Append(s, r), S \cup {r})
<1> DEFINE t == Append(s, r)
<1>1. /\ Len(s) \in Nat /\ Len(t) = Len(s) + 1 /\ t[Len(s) + 1] = r
      /\ \A i \in 1..Len(s) : t[i] = s[i]
  BY AppendProperties
<1>2. \A i \in 1..Len(s) : s[i] \in Requests /\ s[i] # r
  BY ElementOfSeq DEF Enumerates
<1> HIDE DEF t
<1>3. \A i \in 1..Len(t) : i \in 1..Len(s) \/ i = Len(s) + 1
  BY <1>1
<1>4. \A i, j \in 1..Len(t) : t[i] = t[j] => i = j
  BY <1>1, <1>2, <1>3 DEF Enumerates
<1>5. \A i \in 1..Len(s) : i \in 1..Len(t)
  BY <1>1
<1>6. Len(s) + 1 \in 1..Len(t)
  BY <1>1
<1>7. ASSUME NEW q \in Requests
      PROVE  q \in S \cup {r} <=> \E i \in 1..Len(t) : t[i] = q
  <2>1. q \in S => \E i \in 1..Len(t) : t[i] = q
    BY <1>1, <1>5 DEF Enumerates
  <2>2. (\E i \in 1..Len(t) : t[i] = q) => q \in S \cup {r}
    BY <1>1, <1>3 DEF Enumerates
  <2> QED
    BY <1>1, <1>6, <2>1, <2>2
<1> QED
  BY <1>4, <1>7 DEF Enumerates, t

LEMMA TailEnumerates ==
    ASSUME NEW s \in Seq(Requests), NEW S \in SUBSET Requests, Enumerates(s, S), s # <<>>
    PROVE  Enumerates(Tail(s), S \ {Head(s)}) /\ Head(s) \in S
<1> DEFINE t == Tail(s)
<1>1. /\ Len(s) \in Nat \ {0} /\ Len(t) = Len(s) - 1
      /\ Head(s) = s[1] /\ Head(s) \in Requests
      /\ \A i \in 1..Len(t) : t[i] = s[i + 1]
  BY HeadTailProperties, EmptySeq
<1>2. 1 \in 1..Len(s) /\ \A i \in 1..Len(t) : i + 1 \in 1..Len(s)
  BY <1>1
<1> HIDE DEF t
<1>3. \A i, j \in 1..Len(t) : t[i] = t[j] => i = j
  <2> SUFFICES ASSUME NEW i \in 1..Len(t), NEW j \in 1..Len(t), t[i] = t[j]
               PROVE  i = j
    OBVIOUS
  <2>1. i + 1 = j + 1
    BY <1>1, <1>2 DEF Enumerates
  <2> QED
    BY <1>1, <2>1
<1>4. ASSUME NEW q \in Requests
      PROVE  q \in S \ {Head(s)} <=> \E i \in 1..Len(t) : t[i] = q
  <2>1. ASSUME q \in S, q # Head(s) PROVE \E i \in 1..Len(t) : t[i] = q
    <3>1. PICK k \in 1..Len(s) : s[k] = q
      BY <2>1 DEF Enumerates
    <3>2. k # 1 /\ k - 1 \in 1..Len(t) /\ (k - 1) + 1 = k
      BY <1>1, <2>1, <3>1
    <3>3. t[k - 1] = q
      BY <1>1, <3>1, <3>2
    <3> QED
      BY <3>2, <3>3
  <2>2. ASSUME NEW i \in 1..Len(t), t[i] = q PROVE q \in S \ {Head(s)}
    <3>1. i + 1 \in 1..Len(s) /\ s[i + 1] = q /\ i + 1 # 1
      BY <1>1, <1>2, <2>2
    <3>2. q # Head(s)
      BY <1>1, <1>2, <3>1 DEF Enumerates
    <3> QED
      BY <3>1, <3>2 DEF Enumerates
  <2> QED
    BY <2>1, <2>2
<1>5. Head(s) \in S
  BY <1>1, <1>2 DEF Enumerates
<1> QED
  BY <1>3, <1>4, <1>5 DEF Enumerates, t

\* A record leaves the active table for the terminal one, and the oldest
\* terminal record makes room for it.
LEMMA RetireConsistent ==
    ASSUME LifecycleTypeOK, LifecycleConsistent, NEW r \in Requests,
           NEW state \in TerminalStates, active[r] # Absent, Retire(r, state)
    PROVE  LifecycleConsistent'
<1> DEFINE record == [phase |-> active[r], state |-> state]
           filled == [terminal EXCEPT ![r] = record]
           order == Append(terminal_order, r)
           ids == TerminalIds \cup {r}
<1>1. record # NoRecord /\ record \in TerminalRecords
  <2>1. record.phase \in Phases
    BY DEF LifecycleTypeOK
  <2>2. NoRecord.phase \notin Phases
    BY DEF NoRecord, Phases, Absent
  <2> QED
    BY <2>1, <2>2 DEF TerminalRecords, LifecycleTypeOK
<1>2. /\ active' = [active EXCEPT ![r] = Absent]
      /\ InsertTerminal(r, record)
  BY DEF Retire
<1> HIDE DEF record
<1>3. filled \in [Requests -> TerminalRecords \cup {NoRecord}]
      /\ filled[r] = record /\ \A q \in Requests \ {r} : filled[q] = terminal[q]
  BY <1>1 DEF LifecycleTypeOK
<1>4. terminal[r] = NoRecord /\ r \notin TerminalIds /\ TerminalIds \in SUBSET Requests
  BY DEF LifecycleConsistent, RecordsDisjoint, TerminalIds
<1>5. {q \in Requests : filled[q] # NoRecord} = ids
  BY <1>1, <1>3 DEF TerminalIds
<1>6. /\ IsFiniteSet(ids) /\ Cardinality(TerminalIds) \in Nat
      /\ Cardinality(ids) = Cardinality(TerminalIds) + 1
  BY <1>4, LifecycleAssumption, FS_Subset, FS_AddElement, FS_CardinalityType
<1>7. order \in Seq(Requests) /\ order # <<>> /\ Enumerates(order, ids)
  <2>1. terminal_order \in Seq(Requests)
    BY DEF LifecycleTypeOK
  <2>2. Enumerates(terminal_order, TerminalIds)
    BY DEF LifecycleConsistent, OrderEnumeratesTerminal, Enumerates, TerminalIds
  <2>3. Enumerates(order, ids)
    BY <1>4, <2>1, <2>2, AppendEnumerates
  <2> QED
    BY <2>1, <2>3
<1>8. RecordsDisjoint' /\ OrderEnumeratesTerminal' /\ TerminalBounded'
  <2>1. CASE Cardinality(ids) > MAX_TERMINAL_REQUESTS
    <3> DEFINE h == Head(order)
    <3>1. terminal' = [filled EXCEPT ![h] = NoRecord] /\ terminal_order' = Tail(order)
      BY <1>2, <1>5, <2>1 DEF InsertTerminal
    <3> HIDE DEF filled, order, ids
    <3>2. Enumerates(Tail(order), ids \ {h}) /\ h \in ids
      BY <1>4, <1>7, TailEnumerates DEF ids
    <3> HIDE DEF h
    <3>3. TerminalIds' = ids \ {h}
      BY <1>3, <1>4, <1>5, <3>1, <3>2 DEF TerminalIds, ids
    <3>4. OrderEnumeratesTerminal'
      BY <3>1, <3>2, <3>3 DEF OrderEnumeratesTerminal, Enumerates, TerminalIds
    <3>5. TerminalBounded'
      <4>1. Cardinality(ids \ {h}) = Cardinality(ids) - 1
        BY <1>6, <3>2, FS_RemoveElement
      <4>2. Cardinality(TerminalIds) <= MAX_TERMINAL_REQUESTS
        BY DEF LifecycleConsistent, TerminalBounded
      <4> QED
        BY <1>6, <3>3, <4>1, <4>2, LifecycleAssumption DEF TerminalBounded
    <3>6. RecordsDisjoint'
      BY <1>2, <1>3, <3>1 DEF LifecycleConsistent, RecordsDisjoint, LifecycleTypeOK
    <3> QED
      BY <3>4, <3>5, <3>6
  <2>2. CASE ~(Cardinality(ids) > MAX_TERMINAL_REQUESTS)
    <3>1. terminal' = filled /\ terminal_order' = order
      BY <1>2, <1>5, <2>2 DEF InsertTerminal
    <3> HIDE DEF filled, order, ids
    <3>2. TerminalIds' = ids
      BY <1>5, <3>1 DEF TerminalIds
    <3>3. OrderEnumeratesTerminal'
      BY <1>7, <3>1, <3>2 DEF OrderEnumeratesTerminal, Enumerates, TerminalIds
    <3>4. TerminalBounded'
      BY <1>6, <2>2, <3>2, LifecycleAssumption DEF TerminalBounded
    <3>5. RecordsDisjoint'
      BY <1>2, <1>3, <3>1 DEF LifecycleConsistent, RecordsDisjoint, LifecycleTypeOK
    <3> QED
      BY <3>3, <3>4, <3>5
  <2> QED
    BY <2>1, <2>2
<1> QED
  BY <1>8 DEF LifecycleConsistent

\* What a step of the broker may do to the table.
LEMMA TableSteps ==
    ASSUME IInv, [Next]_vars
    PROVE  \/ UNCHANGED <<active, terminal, terminal_order>>
           \/ \E r \in Requests : Register(r) /\ pc[r] = "register"
           \/ \E r \in Requests, state \in TerminalStates : active[r] # Absent /\ Retire(r, state)
           \/ \E r \in Requests :
                  BeginDispatch(r) /\ Claimable(r) /\ writer.at = "claim" /\ writer.msg = r
           \/ \E r \in Requests : MarkDispatched(r)
           \/ Clear
<1> USE DEF lifecycle
<1>0. {"Responded", "TimedOut", "AbandonedWaiter"} = TerminalStates
  BY DEF TerminalStates
<1>1. ASSUME NEW r \in Requests, NEW state \in TerminalStates, Finish(r, state)
      PROVE  \/ UNCHANGED <<active, terminal, terminal_order>>
             \/ active[r] # Absent /\ Retire(r, state)
  BY <1>1 DEF Finish
<1>2. ASSUME NEW r \in Requests, Call(r) \/ CallStep(r) \/ Abandon(r) \/ Tick(r)
      PROVE  \/ UNCHANGED <<active, terminal, terminal_order>>
             \/ Register(r) /\ pc[r] = "register"
             \/ \E state \in TerminalStates : active[r] # Absent /\ Retire(r, state)
  <2>1. CASE TimedOut(r) \/ AbandonGuard(r) \/ DropGuard(r)
    BY <1>0, <1>1, <2>1 DEF TimedOut, AbandonGuard, DropGuard
  <2>2. CASE RegisterCall(r)
    BY <2>2 DEF RegisterCall
  <2>3. CASE ~(TimedOut(r) \/ AbandonGuard(r) \/ DropGuard(r) \/ RegisterCall(r))
    BY <1>2, <2>3
       DEF Call, CallStep, AcquirePermit, PermitTimeout, RecheckReady, Enqueue, AwaitEither,
           AwaitResponse, Elapse, DropPermit, Abandon, AbandonPermit, Tick
  <2> QED
    BY <2>1, <2>2, <2>3
<1>3. CASE WriterStep
  <2>1. WriterClaim \/ WriterMark => writer.msg \in Requests
    BY HoldsRequest DEF WriterClaim, WriterMark
  <2>2. CASE WriterClaim \/ WriterMark
    BY <2>1, <2>2 DEF WriterClaim, WriterMark
  <2>3. CASE ~(WriterClaim \/ WriterMark)
    BY <1>3, <2>3
       DEF WriterStep, WriterRecv, WriterCheckReady, WriterCheckBudget, WriterWrite, WriterFail,
           WriterAck
  <2> QED
    BY <2>2, <2>3
<1>4. CASE ReaderStep \/ ReaderInput
  <2>1. ASSUME NEW r \in Requests, ReaderTake(r)
        PROVE  \/ UNCHANGED <<active, terminal, terminal_order>>
               \/ active[r] # Absent /\ Retire(r, "Responded")
    BY <2>1 DEF ReaderTake, TakeResponse
  <2>2. CASE \E r \in Requests : ReaderTake(r)
    BY <1>0, <2>1, <2>2
  <2>3. CASE ~\E r \in Requests : ReaderTake(r)
    BY <1>4, <2>3
       DEF ReaderStep, ReaderInput, ReaderEnd, ReaderDeliver, ReaderReady, ReaderQueueAck,
           ReaderSetReady, ReaderConnect
  <2> QED
    BY <2>2, <2>3
<1>5. CASE MainStep \/ ShutdownTimeout \/ HttpStop \/ HttpDrain \/ Exited \/ UNCHANGED vars
  BY <1>5
     DEF MainStep, MainWake, MainNotReady, MainClosePermits, MainClearRuntime,
         MainClearLifecycle, MainStopReader, MainAwaitHttp, MainAwaitWriter,
         ShutdownTimeout, HttpStop, HttpDrain, Exited, vars
<1> QED
  <2>1. \/ \E r \in Requests : Call(r) \/ CallStep(r) \/ Abandon(r) \/ Tick(r)
        \/ WriterStep
        \/ ReaderStep \/ ReaderInput
        \/ MainStep \/ ShutdownTimeout \/ HttpStop \/ HttpDrain \/ Exited \/ UNCHANGED vars
    BY DEF Next
  <2> QED
    BY <1>2, <1>3, <1>4, <1>5, <2>1

LEMMA ConsistentStep ==
    ASSUME IInv, LifecycleConsistent, [Next]_vars
    PROVE  LifecycleConsistent'
<1> USE DEF LifecycleConsistent, RecordsDisjoint, OrderEnumeratesTerminal, TerminalBounded,
            TerminalIds
<1>0. TypeOK /\ LifecycleTypeOK
  BY DEF IInv, TypeOK
<1>1. CASE UNCHANGED <<active, terminal, terminal_order>>
  BY <1>1
<1>2. ASSUME NEW r \in Requests, Register(r), pc[r] = "register"
      PROVE  LifecycleConsistent'
  <2>1. PhaseOf(r) = Absent
    BY <1>2 DEF IInv, UnsentUntilClaimed, NotSubmitted
  <2>2. terminal[r] = NoRecord
    BY <1>0, <2>1 DEF PhaseOf, LifecycleTypeOK, TerminalRecords, Phases, Absent
  <2> QED
    BY <1>0, <1>2, <2>2 DEF Register, LifecycleTypeOK
<1>3. ASSUME NEW r \in Requests, NEW state \in TerminalStates, active[r] # Absent, Retire(r, state)
      PROVE  LifecycleConsistent'
  BY <1>0, <1>3, RetireConsistent
<1>4. ASSUME NEW r \in Requests, BeginDispatch(r), Claimable(r)
      PROVE  LifecycleConsistent'
  BY <1>0, <1>4 DEF BeginDispatch, Claimable, LifecycleTypeOK, Absent
<1>5. ASSUME NEW r \in Requests, MarkDispatched(r)
      PROVE  LifecycleConsistent'
  <2>1. \A q \in Requests : active'[q] = Absent <=> active[q] = Absent
    BY <1>0, <1>5, MarkFacts
  <2>2. \A q \in Requests : terminal'[q] = NoRecord <=> terminal[q] = NoRecord
    <3> DEFINE phase == IF active[r] # "Dispatching" /\ terminal[r].phase = "Dispatching"
                        THEN "Dispatched" ELSE terminal[r].phase
    <3>1. terminal' = [terminal EXCEPT ![r] = [terminal[r] EXCEPT !.phase = phase]]
      BY <1>5 DEF MarkDispatched
    <3>2. [terminal[r] EXCEPT !.phase = phase] = NoRecord <=> terminal[r] = NoRecord
      <4>1. CASE terminal[r] = NoRecord
        BY <4>1 DEF NoRecord, Absent
      <4>2. CASE terminal[r] \in TerminalRecords
        <5>1. [terminal[r] EXCEPT !.phase = phase].phase = phase /\ phase \in Phases
          BY <4>2 DEF TerminalRecords, Phases
        <5>2. NoRecord.phase \notin Phases /\ terminal[r].phase \in Phases
          BY <4>2 DEF TerminalRecords, NoRecord, Absent, Phases
        <5> QED
          BY <5>1, <5>2
      <4> QED
        BY <1>0, <4>1, <4>2 DEF LifecycleTypeOK
    <3> QED
      BY <1>0, <3>1, <3>2 DEF LifecycleTypeOK
  <2>3. terminal_order' = terminal_order /\ TerminalIds' = TerminalIds
    BY <1>5, <2>2 DEF MarkDispatched
  <2> QED
    BY <2>1, <2>2, <2>3
<1>6. CASE Clear
  <2>1. terminal_order' = <<>> /\ \A q \in Requests : terminal'[q] = NoRecord
    BY <1>6 DEF Clear
  <2>2. RecordsDisjoint' /\ OrderEnumeratesTerminal'
    BY <2>1
  <2>3. TerminalIds' = {}
    BY <2>1
  <2>4. Cardinality(TerminalIds') = 0
    <3> HIDE DEF TerminalIds
    <3> QED
      BY <2>3, FS_EmptySet
  <2>5. TerminalBounded'
    BY <2>4, LifecycleAssumption
  <2> QED
    BY <2>2, <2>5
<1> QED
  BY <1>1, <1>2, <1>3, <1>4, <1>5, <1>6, TableSteps

-----------------------------------------------------------------------------
(* The permits.                                                             *)

\* Only acquire hands out a permit.
LEMMA OnlyAcquireTakes ==
    ASSUME IInv, [Next]_vars, NEW r \in Requests, HoldsPermit(r)', ~HoldsPermit(r)
    PROVE  AcquirePermit(r) /\ ~permitsClosed /\ \A q \in Requests \ {r} : pc'[q] = pc[q]
<1> USE DEF HoldsPermit
<1>0. pc \in [Requests -> CallSteps] /\ pc' # pc
  BY DEF IInv, TypeOK
<1>1. \E q \in Requests : Call(q) \/ CallStep(q) \/ Abandon(q)
  <2>1. ~WriterStep
    BY <1>0
       DEF WriterStep, WriterRecv, WriterCheckReady, WriterCheckBudget, WriterClaim,
           WriterWrite, WriterFail, WriterMark, WriterAck, handleVars
  <2>2. ~ReaderStep /\ ~ReaderInput
    BY <1>0
       DEF ReaderStep, ReaderInput, ReaderEnd, ReaderTake, ReaderDeliver, ReaderReady,
           ReaderQueueAck, ReaderSetReady, ReaderConnect, handleVars
  <2>3. ~(MainStep \/ ShutdownTimeout \/ HttpStop \/ HttpDrain \/ Exited \/ UNCHANGED vars)
    BY <1>0
       DEF MainStep, MainWake, MainNotReady, MainClosePermits, MainClearRuntime,
           MainClearLifecycle, MainStopReader, MainAwaitHttp, MainAwaitWriter,
           ShutdownTimeout, HttpStop, HttpDrain, Exited, vars, handleVars
  <2>4. \A q \in Requests : ~Tick(q)
    BY <1>0 DEF Tick
  <2> QED
    BY <2>1, <2>2, <2>3, <2>4 DEF Next
<1>2. PICK q \in Requests : Call(q) \/ CallStep(q) \/ Abandon(q)
  BY <1>1
<1>3. \E to \in CallSteps : pc' = [pc EXCEPT ![q] = to]
  BY <1>2
     DEF Call, CallStep, AcquirePermit, PermitTimeout, RecheckReady, RegisterCall, Enqueue,
         AwaitEither, AwaitResponse, Elapse, TimedOut, DropPermit, DropGuard, Abandon,
         AbandonGuard, AbandonPermit, GoTo, Conclude, CallSteps
<1>4. q = r /\ \A p \in Requests \ {r} : pc'[p] = pc[p]
  BY <1>0, <1>3
<1>5. AcquirePermit(r) /\ ~permitsClosed
  <2> USE <1>0, <1>4 DEF GoTo, Conclude
  <2>1. pc'[r] \in {"recheck", "register", "enqueue", "await", "awaitResponse", "timedOut",
                     "dropPermit", "abandonGuard", "abandonPermit"}
        /\ pc[r] \in {"idle", "permit", "dropGuard", "done"}
    BY DEF CallSteps
  <2>2. ~(Call(r) \/ PermitTimeout(r) \/ DropGuard(r))
    BY <2>1 DEF Call, PermitTimeout, DropGuard
  <2>3. ~Abandon(r)
    BY <2>1 DEF Abandon
  <2>4. ~(RecheckReady(r) \/ RegisterCall(r) \/ Enqueue(r) \/ AwaitEither(r) \/ AwaitResponse(r)
          \/ Elapse(r) \/ TimedOut(r) \/ DropPermit(r) \/ AbandonGuard(r) \/ AbandonPermit(r))
    BY <2>1
       DEF RecheckReady, RegisterCall, Enqueue, AwaitEither, AwaitResponse, Elapse, WaitNotReady,
           TimedOut, DropPermit, AbandonGuard, AbandonPermit
  <2>5. AcquirePermit(r)
    BY <1>2, <2>2, <2>3, <2>4 DEF CallStep
  <2>6. ~permitsClosed
    BY <2>1, <2>5 DEF AcquirePermit
  <2> QED
    BY <2>5, <2>6
<1> QED
  BY <1>4, <1>5

LEMMA PermitStep ==
    ASSUME IInv, PermitsBounded, [Next]_vars
    PROVE  PermitsBounded'
<1>0. /\ IsFiniteSet(Permits) /\ Cardinality(Permits) \in Nat
      /\ MAX_PENDING_BROWSER_REQUESTS \in Nat
  <2>1. Permits \in SUBSET Requests
    BY DEF Permits
  <2> QED
    BY <2>1, LifecycleAssumption, BrokerAssumption, FS_Subset, FS_CardinalityType
<1>1. CASE \A r \in Requests : HoldsPermit(r)' => HoldsPermit(r)
  <2>1. Permits' \in SUBSET Permits
    BY <1>1 DEF Permits
  <2>2. Cardinality(Permits') <= Cardinality(Permits) /\ Cardinality(Permits') \in Nat
    BY <1>0, <2>1, FS_Subset, FS_CardinalityType
  <2> QED
    BY <1>0, <2>2 DEF PermitsBounded
<1>2. ASSUME NEW r \in Requests, HoldsPermit(r)', ~HoldsPermit(r)
      PROVE  PermitsBounded'
  <2>1. AcquirePermit(r) /\ ~permitsClosed /\ \A q \in Requests \ {r} : pc'[q] = pc[q]
    BY <1>2, OnlyAcquireTakes
  <2>2. Cardinality(Permits) < MAX_PENDING_BROWSER_REQUESTS
    BY <2>1 DEF AcquirePermit, PermitFree
  <2>3. Permits' = Permits \cup {r} /\ r \notin Permits
    BY <1>2, <2>1 DEF Permits, HoldsPermit
  <2>4. Cardinality(Permits') = Cardinality(Permits) + 1
    BY <1>0, <2>3, FS_AddElement
  <2> QED
    BY <1>0, <2>2, <2>4 DEF PermitsBounded
<1> QED
  BY <1>1, <1>2

\* A call with a record holds its permit or is about to drop its guard.
LEMMA RecordNeedsPermit ==
    ASSUME IInv, PermitsBounded
    PROVE  RegisteredBounded
<1> DEFINE leaving == {r \in Requests : pc[r] = "dropGuard"}
<1>1. ActiveIds \in SUBSET (Permits \cup leaving)
  BY DEF IInv, TypeOK, RecordIsGuarded, CallSteps, ActiveIds, Permits, HoldsPermit
<1>2. Permits \in SUBSET Requests /\ leaving \in SUBSET Requests /\ Permits \cap leaving = {}
  BY DEF Permits, HoldsPermit
<1>3. IsFiniteSet(Permits) /\ IsFiniteSet(leaving)
  BY <1>2, LifecycleAssumption, FS_Subset
<1> HIDE DEF leaving
<1>4. /\ IsFiniteSet(Permits \cup leaving)
      /\ Cardinality(Permits \cup leaving)
           = Cardinality(Permits) + Cardinality(leaving) - Cardinality(Permits \cap leaving)
      /\ Cardinality(Permits \cap leaving) = 0
  BY <1>2, <1>3, FS_Union, FS_EmptySet
<1>5. Cardinality(ActiveIds) <= Cardinality(Permits \cup leaving)
  BY <1>1, <1>4, FS_Subset
<1>6. /\ Cardinality(ActiveIds) \in Nat /\ Cardinality(Permits) \in Nat
      /\ Cardinality(leaving) \in Nat
  BY <1>1, <1>3, <1>4, FS_Subset, FS_CardinalityType
<1> QED
  BY <1>4, <1>5, <1>6, BrokerAssumption DEF PermitsBounded, RegisteredBounded, leaving

-----------------------------------------------------------------------------
(* What becomes of a call: its sender, its answer and the writer's report.  *)

\* q's sender stays where it is or is dropped.
SenderStays(q) ==
    \/ response'[q] = response[q] /\ (active[q] # Absent => active'[q] # Absent)
    \/ response'[q] = "closed"

AnswersStay == \A q \in Requests : wire[q] = "answered" => wire'[q] = "answered"

Told == SenderIsKept /\ ReplyIsAnswer /\ ReportIsTold

\* A step of a call to `to`, which leaves it with the outcome `out`.
Tells(r, to, out) ==
    /\ pc' = [pc EXCEPT ![r] = to]
    /\ result' = [result EXCEPT ![r] = out]
    /\ UNCHANGED <<writer, reader, wire>>
    /\ \A q \in Requests : SenderStays(q)
    /\ \A q \in Requests : written'[q] = written[q] \/ (written[q] = "open" /\ writer.msg # q)
    /\ to \in {"enqueue", "await", "awaitResponse"} =>
          pc[r] \in {"enqueue", "await", "awaitResponse"}
    /\ to \in NotSubmitted => pc[r] \in NotSubmitted /\ out = result[r]
    /\ \/ out \in {result[r], "unavailable", "deadline", "abandoned"}
       \/ out = "reply" /\ response[r] = "sent"
       \/ out = "cancelled" /\ written[r] = "Cancelled"

LEMMA TellsFacts ==
    ASSUME IInv, Told, NEW r \in Requests, NEW to \in CallSteps, NEW out \in Outcomes,
           Tells(r, to, out)
    PROVE  Told'
<1> USE DEF Tells, Told
<1>0. pc \in [Requests -> CallSteps] /\ result \in [Requests -> Outcomes]
  BY DEF IInv, TypeOK
<1>1. SenderIsKept'
  BY <1>0 DEF SenderIsKept, SenderStays
<1>2. ReplyIsAnswer'
  BY <1>0 DEF ReplyIsAnswer, SenderStays
<1>3. ReportIsTold'
  BY <1>0 DEF ReportIsTold
<1> QED
  BY <1>1, <1>2, <1>3

LEMMA FinishStays ==
    ASSUME LifecycleTypeOK, NEW r \in Requests, NEW state, Finish(r, state)
    PROVE  \A q \in Requests : SenderStays(q)
BY DEF Finish, Retire, LifecycleTypeOK, SenderStays, lifecycle

LEMMA CallTold ==
    ASSUME IInv, Told, NEW r \in Requests, Call(r) \/ CallStep(r) \/ Abandon(r)
    PROVE  Told'
<1>0. /\ TypeOK /\ LifecycleTypeOK /\ result = [result EXCEPT ![r] = result[r]]
      /\ result[r] \in Outcomes
  BY DEF IInv, TypeOK
<1>1. UNCHANGED lifecycle => \A q \in Requests : SenderStays(q)
  BY DEF lifecycle, SenderStays
<1>2. CASE Call(r) \/ AcquirePermit(r) \/ PermitTimeout(r) \/ RecheckReady(r)
  <2> USE <1>0, <1>1 DEF Tells, GoTo, Conclude, NotSubmitted, peerVars
  <2>1. \/ \E to \in {"permit", "recheck", "register"} : Tells(r, to, result[r])
        \/ Tells(r, "done", "unavailable")
    <3>1. CASE Call(r)
      BY <3>1 DEF Call
    <3>2. CASE AcquirePermit(r)
      BY <3>2 DEF AcquirePermit
    <3>3. CASE PermitTimeout(r)
      BY <3>3 DEF PermitTimeout
    <3>4. CASE RecheckReady(r)
      BY <3>4 DEF RecheckReady
    <3> QED
      BY <1>2, <3>1, <3>2, <3>3, <3>4
  <2> HIDE DEF Tells
  <2> QED
    BY <2>1, TellsFacts DEF CallSteps, Outcomes
<1>3. CASE AwaitEither(r) \/ AwaitResponse(r) \/ Elapse(r)
  <2> USE <1>0, <1>1 DEF Tells, GoTo, Conclude, NotSubmitted, peerVars
  <2>1. \/ \E out \in {"reply", "unavailable", "cancelled"} : Tells(r, "dropPermit", out)
        \/ Tells(r, "awaitResponse", result[r])
        \/ Tells(r, "timedOut", "deadline")
    <3>1. CASE AwaitEither(r)
      BY <3>1 DEF AwaitEither, ResponseOutcome, Resolved
    <3>2. CASE AwaitResponse(r)
      BY <3>2 DEF AwaitResponse, ResponseOutcome, Resolved
    <3>3. CASE Elapse(r)
      BY <3>3 DEF Elapse
    <3> QED
      BY <1>3, <3>1, <3>2, <3>3
  <2> HIDE DEF Tells
  <2> QED
    BY <2>1, TellsFacts DEF CallSteps, Outcomes
<1>4. CASE DropPermit(r) \/ Abandon(r) \/ AbandonPermit(r)
  <2> USE <1>0, <1>1 DEF Tells, GoTo, Conclude, NotSubmitted, peerVars
  <2>1. \/ Tells(r, "dropGuard", result[r]) \/ Tells(r, "done", result[r])
        \/ \E to \in {"done", "abandonGuard"} : Tells(r, to, "abandoned")
    BY <1>4 DEF DropPermit, Abandon, AbandonPermit
  <2> HIDE DEF Tells
  <2> QED
    BY <2>1, TellsFacts DEF CallSteps, Outcomes
<1>5. CASE TimedOut(r) \/ AbandonGuard(r) \/ DropGuard(r)
  <2>1. \A q \in Requests : SenderStays(q)
    BY <1>0, <1>1, <1>5, FinishStays DEF TimedOut, AbandonGuard, DropGuard
  <2>2. \E to \in {"dropPermit", "abandonPermit", "done"} : Tells(r, to, result[r])
    BY <1>0, <1>5, <2>1
       DEF TimedOut, AbandonGuard, DropGuard, Tells, GoTo, NotSubmitted, peerVars
  <2> QED
    BY <1>0, <2>2, TellsFacts DEF CallSteps
<1>6. CASE RegisterCall(r)
  <2>1. CASE clock[r] # "ample"
    <3>1. Tells(r, "done", "unavailable")
      BY <1>0, <1>1, <1>6, <2>1
         DEF RegisterCall, Tells, Conclude, GoTo, NotSubmitted, peerVars
    <3> QED
      BY <3>1, TellsFacts DEF CallSteps, Outcomes
  <2>2. CASE clock[r] = "ample"
    <3>1. /\ active' = [active EXCEPT ![r] = "Queued"]
          /\ response' = [response EXCEPT ![r] = "open"]
          /\ written' = [written EXCEPT ![r] = "open"]
          /\ pc' = [pc EXCEPT ![r] = "enqueue"]
          /\ UNCHANGED <<result, writer, reader, wire>>
          /\ pc[r] = "register"
      BY <1>6, <2>2 DEF RegisterCall, Register, GoTo, peerVars
    <3>2. result[r] = "none"
      BY <3>1 DEF Told, ReportIsTold, NotSubmitted
    <3>3. SenderIsKept'
      BY <1>0, <3>1 DEF Told, SenderIsKept, TypeOK, LifecycleTypeOK, Absent
    <3>4. ReplyIsAnswer'
      BY <1>0, <3>1 DEF Told, ReplyIsAnswer, LifecycleTypeOK
    <3>5. ReportIsTold'
      BY <1>0, <3>1, <3>2 DEF Told, ReportIsTold, TypeOK, NotSubmitted
    <3> QED
      BY <3>3, <3>4, <3>5 DEF Told
  <2> QED
    BY <2>1, <2>2
<1>7. CASE Enqueue(r)
  <2>1. written[r] = "open" /\ writer.msg # r /\ pc[r] = "enqueue"
    BY <1>7 DEF Enqueue, IInv, UnsentUntilClaimed, Unsent, SubmittedOnce, NotSubmitted
  <2>2. Tells(r, "await", result[r]) \/ Tells(r, "dropPermit", "unavailable")
    BY <1>0, <1>1, <1>7, <2>1
       DEF Enqueue, Tells, Conclude, GoTo, NotSubmitted, TypeOK, peerVars
  <2> QED
    BY <1>0, <2>2, TellsFacts DEF CallSteps, Outcomes
<1> QED
  BY <1>2, <1>3, <1>4, <1>5, <1>6, <1>7 DEF CallStep

\* Steps of the reader, of run() and of time that leave the calls and the writer alone.
LEMMA BackgroundTold ==
    ASSUME Told, UNCHANGED <<pc, result, written, writer>>, AnswersStay,
           \A q \in Requests : SenderStays(q),
           \A q \in Requests :
               reader = [at |-> "deliver", msg |-> q] <=> reader' = [at |-> "deliver", msg |-> q]
    PROVE  Told'
BY DEF Told, AnswersStay, SenderStays, SenderIsKept, ReplyIsAnswer, ReportIsTold

LEMMA ReaderTold ==
    ASSUME IInv, Told, ReaderStep \/ ReaderInput
    PROVE  Told'
<1> USE DEF handleVars
<1>0. TypeOK /\ LifecycleTypeOK /\ reader = [at |-> reader.at, msg |-> reader.msg]
  BY DEF IInv, TypeOK
<1>1. CASE ReaderEnd \/ ReaderReady \/ ReaderQueueAck \/ ReaderSetReady \/ ReaderConnect
  <2>1. reader.at # "deliver" /\ reader'.at # "deliver"
    BY <1>0, <1>1
       DEF ReaderEnd, ReaderReady, ReaderQueueAck, ReaderSetReady, ReaderConnect, ReaderAt, TypeOK
  <2>2. UNCHANGED <<active, response, pc, result, written, writer, wire>>
    BY <1>1
       DEF ReaderEnd, ReaderReady, ReaderQueueAck, ReaderSetReady, ReaderConnect, lifecycle, peerVars
  <2>3. AnswersStay /\ \A q \in Requests : SenderStays(q)
    BY <2>2 DEF AnswersStay, SenderStays
  <2>4. \A q \in Requests :
           reader = [at |-> "deliver", msg |-> q] <=> reader' = [at |-> "deliver", msg |-> q]
    BY <2>1
  <2> QED
    BY <2>2, <2>3, <2>4, BackgroundTold
<1>2. CASE ReaderDeliver
  <2> PICK m \in Requests : reader = [at |-> "deliver", msg |-> m]
    BY <1>0, <1>2 DEF ReaderDeliver, IInv, TasksHold
  <2>1. PICK valid \in BOOLEAN :
           /\ response' = [response EXCEPT ![m] = IF valid THEN "sent" ELSE "closed"]
           /\ reader' = [at |-> IF valid THEN "read" ELSE "stopped", msg |-> NoMessage]
    BY <1>2 DEF ReaderDeliver
  <2>2. UNCHANGED <<active, pc, result, written, writer, wire>>
    BY <1>2 DEF ReaderDeliver, peerVars
  <2>3. wire[m] = "answered"
    BY DEF Told, ReplyIsAnswer
  <2>4. response'[m] \in {"sent", "closed"} /\ \A q \in Requests \ {m} : response'[q] = response[q]
    BY <1>0, <2>1 DEF LifecycleTypeOK
  <2>5. \A q : reader' # [at |-> "deliver", msg |-> q]
    BY <2>1
  <2>6. SenderIsKept' /\ ReplyIsAnswer' /\ ReportIsTold'
    BY <2>2, <2>3, <2>4, <2>5 DEF Told, SenderIsKept, ReplyIsAnswer, ReportIsTold
  <2> QED
    BY <2>6 DEF Told
<1>3. ASSUME NEW r \in Requests, ReaderTake(r)
      PROVE  Told'
  <2>1. /\ UNCHANGED <<response, pc, result, written, writer>>
        /\ reader.at = "read" /\ wire' = [wire EXCEPT ![r] = "answered"]
        /\ \/ UNCHANGED active /\ reader'.at # "deliver"
           \/ active' = [active EXCEPT ![r] = Absent] /\ reader' = [at |-> "deliver", msg |-> r]
    BY <1>0, <1>3
       DEF ReaderTake, ReaderAt, TakeResponse, Retire, lifecycle, TypeOK
  <2>2. AnswersStay /\ wire'[r] = "answered"
    BY <1>0, <2>1 DEF AnswersStay, TypeOK
  <2>3. CASE UNCHANGED active /\ reader'.at # "deliver"
    <3>1. \A q \in Requests : SenderStays(q)
      BY <2>1, <2>3 DEF SenderStays
    <3>2. \A q \in Requests :
             reader = [at |-> "deliver", msg |-> q] <=> reader' = [at |-> "deliver", msg |-> q]
      BY <2>1, <2>3
    <3> QED
      BY <2>1, <2>2, <3>1, <3>2, BackgroundTold
  <2>4. CASE active' = [active EXCEPT ![r] = Absent] /\ reader' = [at |-> "deliver", msg |-> r]
    <3>1. \A q : reader # [at |-> "deliver", msg |-> q]
      BY <2>1
    <3>2. \A q \in Requests \ {r} : reader' # [at |-> "deliver", msg |-> q]
      BY <2>4
    <3>3. SenderIsKept'
      BY <1>0, <2>1, <2>4, <3>1 DEF Told, SenderIsKept, LifecycleTypeOK
    <3>4. ReplyIsAnswer'
      BY <2>1, <2>2, <3>2 DEF Told, ReplyIsAnswer, AnswersStay
    <3>5. ReportIsTold'
      BY <2>1 DEF Told, ReportIsTold
    <3> QED
      BY <3>3, <3>4, <3>5 DEF Told
  <2> QED
    BY <2>1, <2>3, <2>4
<1> QED
  BY <1>1, <1>2, <1>3 DEF ReaderStep, ReaderInput

LEMMA MainTold ==
    ASSUME IInv, Told,
           \/ MainStep \/ ShutdownTimeout \/ HttpStop \/ HttpDrain \/ Exited \/ UNCHANGED vars
           \/ \E r \in Requests : Tick(r)
    PROVE  Told'
<1> USE DEF handleVars, peerVars, vars
<1>0. TypeOK /\ LifecycleTypeOK
  BY DEF IInv, TypeOK
<1>1. CASE MainStopReader
  <2>1. reader.at # "deliver" /\ reader'.at # "deliver"
    BY <1>0, <1>1 DEF MainStopReader, ReaderAt, TypeOK
  <2>2. /\ AnswersStay /\ \A q \in Requests : SenderStays(q)
        /\ UNCHANGED <<pc, result, written, writer>>
    BY <1>1 DEF MainStopReader, AnswersStay, SenderStays, lifecycle
  <2>3. \A q \in Requests :
           reader = [at |-> "deliver", msg |-> q] <=> reader' = [at |-> "deliver", msg |-> q]
    BY <2>1
  <2> QED
    BY <2>2, <2>3, BackgroundTold
<1>2. CASE MainClearLifecycle
  <2>1. AnswersStay /\ UNCHANGED <<pc, result, written, writer, reader>>
    BY <1>2 DEF MainClearLifecycle, AnswersStay
  <2>2. \A q \in Requests : SenderStays(q)
    BY <1>2 DEF MainClearLifecycle, Clear, SenderStays
  <2> QED
    BY <2>1, <2>2, BackgroundTold
<1>3. CASE UNCHANGED <<lifecycle, pc, result, written, writer, reader, wire>>
  BY <1>3, BackgroundTold DEF AnswersStay, SenderStays, lifecycle
<1> QED
  BY <1>1, <1>2, <1>3
     DEF MainStep, MainWake, MainNotReady, MainClosePermits, MainClearRuntime,
         MainAwaitHttp, MainAwaitWriter, ShutdownTimeout, HttpStop, HttpDrain, Exited, Tick

\* The writer reports only on a request of which nothing was said yet.
LEMMA WriterTold ==
    ASSUME IInv, Told, WriterStep
    PROVE  Told'
<1> USE DEF handleVars, peerVars
<1>0. TypeOK /\ LifecycleTypeOK /\ NoMessage \notin Requests /\ Ack \notin Requests
  BY BrokerAssumption DEF IInv, TypeOK
<1>1. ASSUME UNCHANGED <<pc, result, reader, response>>, AnswersStay,
             \A q \in Requests : active'[q] = Absent <=> active[q] = Absent,
             \A q \in Requests : written'[q] = written[q] \/ written[q] = "open",
             \A q \in Requests : writer'.msg = q => written'[q] = "open"
      PROVE  Told'
  <2>1. SenderIsKept'
    BY <1>1 DEF Told, SenderIsKept
  <2>2. ReplyIsAnswer'
    BY <1>1 DEF Told, ReplyIsAnswer, AnswersStay
  <2>3. ReportIsTold'
    BY <1>1 DEF Told, ReportIsTold
  <2> QED
    BY <2>1, <2>2, <2>3 DEF Told
<1>2. \A q \in Requests : writer.msg = q => written[q] = "open"
  BY DEF Told, ReportIsTold
<1>3. CASE WriterRecv
  <2>1. UNCHANGED <<lifecycle, pc, result, written, reader, wire>>
    BY <1>3 DEF WriterRecv
  <2>2. \A q \in Requests : writer'.msg = q => InQueue(q)
    BY <1>0, <1>3, TailFacts DEF WriterRecv
  <2>3. \A q \in Requests : writer'.msg = q => written[q] = "open"
    BY <2>2 DEF IInv, UnsentUntilClaimed, Unsent
  <2> QED
    BY <1>1, <2>1, <2>3 DEF lifecycle, AnswersStay
<1>4. ASSUME NEW outcome, Skip(outcome),
             UNCHANGED <<lifecycle, pc, result, reader, wire>>
      PROVE  Told'
  <2>1. writer'.msg = NoMessage /\ written' = [written EXCEPT ![writer.msg] = outcome]
    BY <1>4 DEF Skip, Idle
  <2>2. \A q \in Requests : written'[q] = written[q] \/ written[q] = "open"
    BY <1>0, <1>2, <2>1 DEF TypeOK
  <2> QED
    BY <1>0, <1>1, <1>4, <2>1, <2>2 DEF lifecycle, AnswersStay
<1>5. ASSUME UNCHANGED <<pc, result, reader, response, written>>, writer'.msg = writer.msg,
             AnswersStay,
             \A q \in Requests : active'[q] = Absent <=> active[q] = Absent
      PROVE  Told'
  BY <1>1, <1>2, <1>5
<1>6. CASE WriterCheckReady \/ WriterCheckBudget \/ WriterAck
  <2>1. UNCHANGED <<lifecycle, pc, result, reader, wire>>
    BY <1>6 DEF WriterCheckReady, WriterCheckBudget, WriterAck
  <2>2. \/ \E outcome \in {"Cancelled", "Expired", "Dispatched"} : Skip(outcome)
        \/ writer'.msg = writer.msg /\ UNCHANGED written
    BY <1>0, <1>6 DEF WriterCheckReady, WriterCheckBudget, WriterAck, TypeOK
  <2> QED
    BY <1>4, <1>5, <2>1, <2>2 DEF lifecycle, AnswersStay
<1>7. CASE WriterClaim
  <2>1. UNCHANGED <<pc, result, reader, wire>>
    BY <1>7 DEF WriterClaim
  <2>2. CASE Claimable(writer.msg)
    <3>1. /\ UNCHANGED <<response, written>> /\ writer'.msg = writer.msg
          /\ \A q \in Requests : active'[q] = Absent <=> active[q] = Absent
      BY <1>0, <1>7, <2>2
         DEF WriterClaim, BeginDispatch, Claimable, TypeOK, LifecycleTypeOK, Absent
    <3> QED
      BY <1>5, <2>1, <3>1 DEF AnswersStay
  <2>3. CASE ~Claimable(writer.msg)
    BY <1>4, <1>7, <2>1, <2>3 DEF WriterClaim
  <2> QED
    BY <2>2, <2>3
<1>8. WriterWrite \/ WriterFail => AnswersStay /\ UNCHANGED <<lifecycle, pc, result, reader>>
  <2>1. ASSUME PutOnWire(writer.msg), writer.at = "write" PROVE AnswersStay
    <3>1. \A q \in Requests : writer.msg = q => wire[q] = "none"
      BY <2>1 DEF IInv, ClaimedIsTracked
    <3> QED
      BY <1>0, <2>1, <3>1 DEF PutOnWire, AnswersStay, TypeOK
  <2> QED
    BY <2>1 DEF WriterWrite, WriterFail, AnswersStay
<1>9. CASE WriterWrite
  <2>1. writer'.msg = writer.msg \/ writer'.msg = NoMessage
    BY <1>0, <1>9 DEF WriterWrite, Idle, TypeOK
  <2>2. written' = written
    BY <1>9 DEF WriterWrite
  <2> QED
    BY <1>0, <1>1, <1>2, <1>8, <1>9, <2>1, <2>2 DEF lifecycle
<1>10. CASE WriterFail
  <2>1. /\ writer'.msg = NoMessage
        /\ \A q \in Requests :
              written'[q] = IF q = writer.msg \/ InQueue(q) THEN "closed" ELSE written[q]
    BY <1>10 DEF WriterFail
  <2>2. \A q \in Requests : InQueue(q) => written[q] = "open"
    BY DEF IInv, UnsentUntilClaimed, Unsent
  <2> QED
    BY <1>0, <1>1, <1>2, <1>8, <1>10, <2>1, <2>2 DEF lifecycle
<1>11. CASE WriterMark
  <2>1. \A q \in Requests : active'[q] = Absent <=> active[q] = Absent
    BY <1>0, <1>11, HoldsRequest, MarkFacts DEF WriterMark
  <2>2. UNCHANGED <<pc, result, reader, response, written, wire>> /\ writer'.msg = writer.msg
    BY <1>0, <1>11 DEF WriterMark, MarkDispatched, TypeOK
  <2> QED
    BY <1>5, <2>1, <2>2 DEF AnswersStay
<1> QED
  BY <1>3, <1>6, <1>7, <1>9, <1>10, <1>11 DEF WriterStep

LEMMA OutcomeStep ==
    ASSUME IInv, OutcomeInv, [Next]_vars
    PROVE  OutcomeInv'
<1>1. LifecycleConsistent'
  BY ConsistentStep DEF OutcomeInv
<1>2. PermitsBounded'
  BY PermitStep DEF OutcomeInv
<1>3. Told'
  <2>1. Told
    BY DEF OutcomeInv, Told
  <2> QED
    BY <2>1, CallTold, ReaderTold, WriterTold, MainTold DEF Next
<1> QED
  BY <1>1, <1>2, <1>3 DEF OutcomeInv, Told

LEMMA OutcomeInit ==
    ASSUME Init
    PROVE  OutcomeInv
<1> USE DEF Init, LifecycleInit
<1>1. LifecycleConsistent
  <2>1. TerminalIds = {}
    BY DEF TerminalIds
  <2>2. TerminalBounded
    BY <2>1, FS_EmptySet, LifecycleAssumption DEF TerminalBounded
  <2> QED
    BY <2>2 DEF LifecycleConsistent, RecordsDisjoint, OrderEnumeratesTerminal
<1>2. PermitsBounded
  <2>1. Permits = {}
    BY DEF Permits, HoldsPermit
  <2> QED
    BY <2>1, FS_EmptySet, BrokerAssumption DEF PermitsBounded
<1>3. SenderIsKept /\ ReplyIsAnswer /\ ReportIsTold
  BY BrokerAssumption DEF SenderIsKept, ReplyIsAnswer, ReportIsTold
<1> QED
  BY <1>1, <1>2, <1>3 DEF OutcomeInv

\* No record is listed twice or lost, no reply is invented, and a call is told
\* what the writer reported, in every reachable state.
THEOREM OutcomeInvariance == Spec => [](IInv /\ OutcomeInv)
<1>1. Init => IInv /\ OutcomeInv
  BY InitInvariant, OutcomeInit
<1>2. IInv /\ OutcomeInv /\ [Next]_vars => (IInv /\ OutcomeInv)'
  BY NextInvariant, OutcomeStep
<1> QED
  BY <1>1, <1>2, PTL DEF Spec

\* The two tables never share a record, and the eviction list names the terminal
\* ones once each and no more than allowed, whatever tasks finish requests in
\* which order (request_lifecycle.rs:37-43, 105-165).
THEOREM TablesAgree == Spec => []LifecycleConsistent
<1>1. OutcomeInv => LifecycleConsistent
  BY DEF OutcomeInv
<1> QED
  BY <1>1, OutcomeInvariance, PTL

\* The permits bound the table of active requests, but for the calls between
\* drop(permit) and the guard's drop (broker.rs:441-453, 543-545).
THEOREM TableIsBounded == Spec => []RegisteredBounded
<1>1. IInv /\ OutcomeInv => RegisteredBounded
  BY RecordNeedsPermit DEF OutcomeInv
<1> QED
  BY <1>1, OutcomeInvariance, PTL

-----------------------------------------------------------------------------
(* Shutdown, as long as the HTTP task does not end by itself.               *)

LEMMA CauseStep ==
    ASSUME IInv, ~HTTP_MAY_STOP, ShutdownHasCause, [Next]_vars
    PROVE  ShutdownHasCause'
<1> USE DEF ShutdownHasCause, sharedVars
<1>0. TypeOK
  BY DEF IInv
<1>1. ASSUME NEW r \in Requests, Call(r) \/ CallStep(r) \/ Abandon(r) \/ Tick(r)
      PROVE  ShutdownHasCause'
  <2>1. UNCHANGED <<http, main, reader, writer, ready>>
    BY <1>1
       DEF Call, CallStep, AcquirePermit, PermitTimeout, RecheckReady, RegisterCall, Enqueue,
           AwaitEither, AwaitResponse, Elapse, TimedOut, DropPermit, DropGuard, Abandon,
           AbandonGuard, AbandonPermit, Tick
  <2> QED
    BY <2>1
<1>2. CASE WriterStep
  <2>1. UNCHANGED <<http, main, reader, ready>> /\ writer.at # "stopped"
    BY <1>2
       DEF WriterStep, WriterRecv, WriterCheckReady, WriterCheckBudget, WriterClaim,
           WriterWrite, WriterFail, WriterMark, WriterAck
  <2> QED
    BY <2>1
<1>3. CASE ReaderStep \/ ReaderInput
  <2>1. UNCHANGED <<http, main, writer>> /\ reader.at # "stopped"
    BY <1>3
       DEF ReaderStep, ReaderInput, ReaderEnd, ReaderTake, ReaderDeliver, ReaderReady,
           ReaderQueueAck, ReaderSetReady, ReaderConnect
  <2> QED
    BY <2>1
<1>4. CASE MainStep \/ ShutdownTimeout \/ HttpDrain \/ Exited \/ UNCHANGED vars
  <2>1. UNCHANGED writer /\ reader'.at \in {reader.at, "stopped"} /\ (ready' => ready)
    BY <1>0, <1>4
       DEF MainStep, MainWake, MainNotReady, MainClosePermits, MainClearRuntime,
           MainClearLifecycle, MainStopReader, MainAwaitHttp, MainAwaitWriter,
           ShutdownTimeout, HttpDrain, Exited, vars, ReaderAt, TypeOK
  <2>2. http' # "stopped"
    BY <1>4
       DEF MainStep, MainWake, MainNotReady, MainClosePermits, MainClearRuntime,
           MainClearLifecycle, MainStopReader, MainAwaitHttp, MainAwaitWriter,
           ShutdownTimeout, HttpDrain, Exited, vars
  <2>3. /\ main' # "select" => main # "select" \/ reader.at = "stopped" \/ writer.at = "stopped"
        /\ main' \notin {"select", "notReady"} =>
              main \notin {"select", "notReady"} \/ (main = "notReady" /\ ~ready')
    BY <1>4
       DEF MainStep, MainWake, MainNotReady, MainClosePermits, MainClearRuntime,
           MainClearLifecycle, MainStopReader, MainAwaitHttp, MainAwaitWriter,
           ShutdownTimeout, HttpDrain, Exited, vars
  <2> QED
    BY <1>0, <2>1, <2>2, <2>3 DEF TypeOK
<1>5. ~HttpStop
  BY DEF HttpStop
<1> QED
  BY <1>1, <1>2, <1>3, <1>4, <1>5 DEF Next

\* What LateStaysQueued says of one call.
Late(r) ==
    active[r] # Absent =>
        /\ pc[r] # "awaitResponse"
        /\ written[r] # "Dispatched"
        /\ writer.msg = r => writer.at = "checkReady"

LEMMA LateStep ==
    ASSUME IInv, ShutdownHasCause, LateStaysQueued, [Next]_vars
    PROVE  LateStaysQueued'
<1> USE DEF handleVars
<1>0. TypeOK /\ LifecycleTypeOK /\ NoMessage \notin Requests
  BY BrokerAssumption DEF IInv, TypeOK
<1>1. CASE MainStep \/ ShutdownTimeout \/ HttpStop \/ HttpDrain \/ Exited \/ UNCHANGED vars
  <2>1. CASE MainClearLifecycle
    BY <2>1 DEF MainClearLifecycle, Clear, LateStaysQueued
  <2>2. CASE ~MainClearLifecycle
    <3>1. /\ UNCHANGED <<lifecycle, pc, written, writer>>
          /\ main' \in AfterClear => main \in AfterClear
      BY <1>1, <2>2
         DEF MainStep, MainWake, MainNotReady, MainClosePermits, MainClearRuntime,
             MainStopReader, MainAwaitHttp, MainAwaitWriter,
             ShutdownTimeout, HttpStop, HttpDrain, Exited, vars, AfterClear
    <3> QED
      BY <3>1 DEF LateStaysQueued, lifecycle
  <2> QED
    BY <2>1, <2>2
<1> SUFFICES ASSUME main \in AfterClear, UNCHANGED main, NEW q \in Requests, Late(q)
             PROVE  Late(q)'
  <2>1. \/ \E r \in Requests : Call(r) \/ CallStep(r) \/ Abandon(r) \/ Tick(r)
        \/ WriterStep \/ ReaderStep \/ ReaderInput
        => UNCHANGED main
    BY DEF Call, CallStep, AcquirePermit, PermitTimeout, RecheckReady, RegisterCall, Enqueue,
           AwaitEither, AwaitResponse, Elapse, TimedOut, DropPermit, DropGuard, Abandon,
           AbandonGuard, AbandonPermit, Tick, WriterStep, WriterRecv, WriterCheckReady,
           WriterCheckBudget, WriterClaim, WriterWrite, WriterFail, WriterMark, WriterAck,
           ReaderStep, ReaderInput, ReaderEnd, ReaderTake, ReaderDeliver, ReaderReady,
           ReaderQueueAck, ReaderSetReady, ReaderConnect
  <2> QED
    BY <1>1, <2>1 DEF Next, LateStaysQueued, Late
<1> USE DEF Late
<1>2. ASSUME NEW r \in Requests, Call(r) \/ CallStep(r) \/ Abandon(r) \/ Tick(r)
      PROVE  Late(q)'
  <2>1. CASE RegisterCall(r)
    <3>1. writer.msg # r
      BY <2>1 DEF RegisterCall, IInv, SubmittedOnce, NotSubmitted
    <3> QED
      BY <1>0, <2>1, <3>1
         DEF RegisterCall, Register, Conclude, GoTo, TypeOK, LifecycleTypeOK, lifecycle
  <2>2. CASE ~RegisterCall(r)
    <3>1. UNCHANGED writer
      BY <1>2
         DEF Call, CallStep, AcquirePermit, PermitTimeout, RecheckReady, RegisterCall, Enqueue,
             AwaitEither, AwaitResponse, Elapse, TimedOut, DropPermit, DropGuard, Abandon,
             AbandonGuard, AbandonPermit, Tick
    <3>2. active'[q] # Absent => active[q] # Absent
      BY <1>0, <1>2, <2>2
         DEF Call, CallStep, AcquirePermit, PermitTimeout, RecheckReady, Enqueue,
             AwaitEither, AwaitResponse, Elapse, TimedOut, DropPermit, DropGuard, Abandon,
             AbandonGuard, AbandonPermit, Tick, Finish, Retire, lifecycle, LifecycleTypeOK
    <3>3. written'[q] = "Dispatched" => written[q] = "Dispatched"
      BY <1>0, <1>2, <2>2
         DEF Call, CallStep, AcquirePermit, PermitTimeout, RecheckReady, Enqueue,
             AwaitEither, AwaitResponse, Elapse, TimedOut, DropPermit, DropGuard, Abandon,
             AbandonGuard, AbandonPermit, Tick, TypeOK
    <3>4. pc'[q] = "awaitResponse" => pc[q] = "awaitResponse" \/ written[q] = "Dispatched"
      BY <1>0, <1>2, <2>2
         DEF Call, CallStep, AcquirePermit, PermitTimeout, RecheckReady, Enqueue,
             AwaitEither, AwaitResponse, Elapse, TimedOut, DropPermit, DropGuard, Abandon,
             AbandonGuard, AbandonPermit, Tick, TypeOK, GoTo, Conclude
    <3> QED
      BY <3>1, <3>2, <3>3, <3>4
  <2> QED
    BY <2>1, <2>2
<1>3. CASE ReaderStep \/ ReaderInput
  <2>1. UNCHANGED <<pc, written, writer>>
    BY <1>3
       DEF ReaderStep, ReaderInput, ReaderEnd, ReaderTake, ReaderDeliver, ReaderReady,
           ReaderQueueAck, ReaderSetReady, ReaderConnect
  <2>2. active'[q] # Absent => active[q] # Absent
    BY <1>0, <1>3
       DEF ReaderStep, ReaderInput, ReaderEnd, ReaderTake, ReaderDeliver, ReaderReady,
           ReaderQueueAck, ReaderSetReady, ReaderConnect, TakeResponse, Retire, lifecycle,
           LifecycleTypeOK
  <2> QED
    BY <2>1, <2>2
<1>4. CASE WriterStep
  <2>0. pc' = pc
    BY <1>4
       DEF WriterStep, WriterRecv, WriterCheckReady, WriterCheckBudget, WriterClaim,
           WriterWrite, WriterFail, WriterMark, WriterAck
  <2>1. CASE WriterRecv
    <3>1. /\ UNCHANGED <<active, written>>
          /\ writer'.at # "checkReady" => writer'.msg \notin Requests
      BY <1>0, <2>1, BrokerAssumption DEF WriterRecv, lifecycle
    <3> QED
      BY <2>0, <3>1
  <2>2. CASE WriterCheckReady
    <3>1. ~ready
      BY <2>2 DEF WriterCheckReady, ShutdownHasCause, AfterClear
    <3>2. Skip("Cancelled") /\ UNCHANGED active
      BY <2>2, <3>1 DEF WriterCheckReady, lifecycle
    <3> QED
      BY <1>0, <2>0, <3>2 DEF Skip, Idle, TypeOK
  <2>3. CASE WriterCheckBudget \/ WriterAck
    <3>1. UNCHANGED active /\ writer.at # "checkReady"
      BY <2>3 DEF WriterCheckBudget, WriterAck, lifecycle
    <3>2. writer'.msg \in {writer.msg, NoMessage}
      BY <1>0, <2>3 DEF WriterCheckBudget, WriterAck, Skip, Idle, TypeOK
    <3>3. q # writer.msg => written'[q] = written[q]
      BY <1>0, <2>3 DEF WriterCheckBudget, WriterAck, Skip, TypeOK
    <3> QED
      BY <1>0, <2>0, <3>1, <3>2, <3>3
  <2>4. CASE WriterClaim
    <3>1. \/ Skip("Cancelled") /\ UNCHANGED active
          \/ Claimable(writer.msg) /\ writer.at = "claim" /\ BeginDispatch(writer.msg)
             /\ written' = written /\ writer'.msg = writer.msg
      BY <1>0, <2>4 DEF WriterClaim, lifecycle, TypeOK
    <3>2. CASE Skip("Cancelled") /\ UNCHANGED active
      BY <1>0, <2>0, <3>2 DEF Skip, Idle, TypeOK
    <3>3. CASE Claimable(writer.msg) /\ writer.at = "claim" /\ BeginDispatch(writer.msg)
               /\ written' = written /\ writer'.msg = writer.msg
      <4>1. writer.msg # q
        BY <3>3 DEF Claimable, Absent
      <4>2. active'[q] = active[q]
        BY <1>0, <3>3, <4>1 DEF BeginDispatch, LifecycleTypeOK
      <4> QED
        BY <2>0, <3>3, <4>1, <4>2
    <3> QED
      BY <3>1, <3>2, <3>3
  <2>5. CASE WriterWrite \/ WriterFail \/ WriterMark
    <3>1. active'[q] = Absent <=> active[q] = Absent
      BY <1>0, <2>5, HoldsRequest, MarkFacts DEF WriterWrite, WriterFail, WriterMark, lifecycle
    <3>2. writer'.msg \in {writer.msg, NoMessage} /\ writer.at # "checkReady"
      BY <1>0, <2>5 DEF WriterWrite, WriterFail, WriterMark, Idle, TypeOK
    <3>3. written'[q] \in {written[q], "closed"}
      BY <2>5 DEF WriterWrite, WriterFail, WriterMark
    <3> QED
      BY <1>0, <2>0, <3>1, <3>2, <3>3
  <2> QED
    BY <1>4, <2>1, <2>2, <2>3, <2>4, <2>5 DEF WriterStep
<1> QED
  BY <1>1, <1>2, <1>3, <1>4 DEF Next, LateStaysQueued

\* The three invariants together, in a broker whose HTTP task only ends when told to.
THEOREM ShutdownInvariance ==
    ASSUME ~HTTP_MAY_STOP
    PROVE  Spec => [](IInv /\ OutcomeInv /\ ShutdownInv)
<1>1. Init => ShutdownInv
  BY DEF Init, ShutdownInv, ShutdownHasCause, LateStaysQueued, AfterClear
<1>2. IInv /\ ShutdownInv /\ [Next]_vars => ShutdownInv'
  BY CauseStep, LateStep DEF ShutdownInv
<1> QED
  BY <1>1, <1>2, OutcomeInvariance, PTL DEF Spec

\* Nobody waits for an answer whose sender is lost (broker.rs:506-530, 202-205).
THEOREM NobodyStranded ==
    ASSUME ~HTTP_MAY_STOP
    PROVE  Spec => []NoStrandedWaiter
<1>1. IInv /\ OutcomeInv /\ ShutdownInv => NoStrandedWaiter
  <2> SUFFICES ASSUME IInv, OutcomeInv, ShutdownInv, NEW r \in Requests,
                      pc[r] = "awaitResponse", ~Resolved(r)
               PROVE  \/ reader = [at |-> "deliver", msg |-> r]
                      \/ active[r] # Absent /\ main \notin AfterClear
    BY DEF NoStrandedWaiter
  <2>1. response[r] = "open"
    BY DEF Resolved, OutcomeInv, SenderIsKept, IInv, TypeOK, LifecycleTypeOK, ChannelStates
  <2> QED
    BY <2>1 DEF OutcomeInv, SenderIsKept, ShutdownInv, LateStaysQueued
<1> QED
  BY <1>1, ShutdownInvariance, PTL

\* Shutdown ends dispatching: what is committed after lifecycle.clear() would be
\* sent for a caller that has been told otherwise (broker.rs:201-206, 365-368).
THEOREM ClearEndsDispatch ==
    ASSUME ~HTTP_MAY_STOP
    PROVE  Spec => NoDispatchAfterClear
<1>1. IInv /\ ShutdownInv /\ [Next]_vars => \A r \in Requests : Claims(r) => main \notin AfterClear
  <2> SUFFICES ASSUME IInv, ShutdownInv, [Next]_vars, NEW r \in Requests,
                      active[r] = "Queued", active'[r] = "Dispatching", main \in AfterClear
               PROVE  FALSE
    BY DEF Claims
  <2>0. LifecycleTypeOK
    BY DEF IInv, TypeOK
  <2>1. ~UNCHANGED <<active, terminal, terminal_order>> /\ ~Clear
    BY DEF Clear, Absent
  <2>2. \A q \in Requests : ~Register(q) /\ ~MarkDispatched(q)
    BY <2>0 DEF Register, MarkDispatched, LifecycleTypeOK
  <2>3. \A q \in Requests, state \in TerminalStates : ~Retire(q, state)
    BY <2>0 DEF Retire, LifecycleTypeOK, Absent
  <2>4. PICK q \in Requests :
           BeginDispatch(q) /\ Claimable(q) /\ writer.at = "claim" /\ writer.msg = q
    BY <2>1, <2>2, <2>3, TableSteps
  <2>5. q = r
    BY <2>0, <2>4 DEF BeginDispatch, LifecycleTypeOK
  <2> QED
    BY <2>4, <2>5 DEF ShutdownInv, LateStaysQueued, Absent
<1> QED
  BY <1>1, ShutdownInvariance, PTL DEF Spec, NoDispatchAfterClear

-----------------------------------------------------------------------------
(* The refinement: every step of the broker is one of RequestService's, or   *)
(* leaves what that specification shows as it was.                           *)

CallsStay == \A q \in Requests : CallSeen(q)' = CallSeen(q)
FramesStay == \A q \in Requests : FrameSeen(q)' = FrameSeen(q)
OpenStays == (main' \in AfterClear) <=> (main \in AfterClear)

LEMMA NothingSeen ==
    ASSUME CallsStay, FramesStay, OpenStays
    PROVE  UNCHANGED Service!vars
BY DEF Service!vars, CallsStay, FramesStay, OpenStays

LEMMA CallStepFacts ==
    ASSUME IInv, NEW r \in Requests, Call(r) \/ CallStep(r) \/ Abandon(r)
    PROVE  /\ UNCHANGED <<wire, writer, main>>
           /\ \A q \in Requests \ {r} : pc'[q] = pc[q] /\ result'[q] = result[q]
           /\ pc[r] # "done" /\ pc'[r] # "idle"
           /\ pc[r] = "abandonPermit" => pc'[r] = "done" /\ result'[r] = result[r]
<1>0. pc \in [Requests -> CallSteps] /\ result \in [Requests -> Outcomes]
  BY DEF IInv, TypeOK
<1>1. UNCHANGED <<wire, writer, main>> /\ pc[r] # "done"
  BY DEF Call, CallStep, AcquirePermit, PermitTimeout, RecheckReady, RegisterCall, Enqueue,
         AwaitEither, AwaitResponse, Elapse, TimedOut, DropPermit, DropGuard, Abandon,
         AbandonGuard, AbandonPermit, WaitNotReady, peerVars
<1>2. \E to \in CallSteps \ {"idle"} : pc' = [pc EXCEPT ![r] = to]
  BY DEF Call, CallStep, AcquirePermit, PermitTimeout, RecheckReady, RegisterCall, Enqueue,
         AwaitEither, AwaitResponse, Elapse, TimedOut, DropPermit, DropGuard, Abandon,
         AbandonGuard, AbandonPermit, GoTo, Conclude, CallSteps
<1>3. \E out : result' = [result EXCEPT ![r] = out]
  <2>1. result = [result EXCEPT ![r] = result[r]]
    BY <1>0
  <2> QED
    BY <2>1
       DEF Call, CallStep, AcquirePermit, PermitTimeout, RecheckReady, RegisterCall, Enqueue,
           AwaitEither, AwaitResponse, Elapse, TimedOut, DropPermit, DropGuard, Abandon,
           AbandonGuard, AbandonPermit, Conclude
<1>4. pc[r] = "abandonPermit" => AbandonPermit(r)
  BY DEF Call, CallStep, AcquirePermit, PermitTimeout, RecheckReady, RegisterCall, Enqueue,
         AwaitEither, AwaitResponse, Elapse, TimedOut, DropPermit, DropGuard, Abandon,
         AbandonGuard, WaitNotReady
<1>5. pc[r] = "abandonPermit" => pc'[r] = "done" /\ result'[r] = result[r]
  BY <1>0, <1>4 DEF AbandonPermit, GoTo
<1> QED
  BY <1>0, <1>1, <1>2, <1>3, <1>5

LEMMA CallRefines ==
    ASSUME IInv, OutcomeInv', IInv', OutcomeInv, NEW r \in Requests, Call(r) \/ CallStep(r) \/ Abandon(r)
    PROVE  [Service!Next]_Service!vars
<1>1. /\ UNCHANGED <<wire, writer, main>>
      /\ \A q \in Requests \ {r} : pc'[q] = pc[q] /\ result'[q] = result[q]
      /\ pc[r] # "done" /\ pc'[r] # "idle"
      /\ pc[r] = "abandonPermit" => pc'[r] = "done" /\ result'[r] = result[r]
  BY CallStepFacts
<1>2. FramesStay /\ OpenStays
  BY <1>1 DEF FramesStay, OpenStays, FrameSeen
<1>3. \A q \in Requests \ {r} : CallSeen(q)' = CallSeen(q)
  BY <1>1 DEF CallSeen
<1>4. UNCHANGED <<[q \in Requests |-> FrameSeen(q)], main \notin AfterClear>>
  BY <1>2 DEF FramesStay, OpenStays
<1>5. [q \in Requests |-> CallSeen(q)]' =
         [[q \in Requests |-> CallSeen(q)] EXCEPT ![r] = CallSeen(r)']
  BY <1>3
<1>6. CASE CallSeen(r)' = CallSeen(r)
  BY <1>2, <1>3, <1>6, NothingSeen DEF CallsStay
<1>7. CASE CallSeen(r)' # CallSeen(r) /\ CallSeen(r)' = "pending"
  <2>1. CallSeen(r) = "idle"
    BY <1>1, <1>7 DEF CallSeen
  <2>2. Service!Submit(r)
    BY <1>4, <1>5, <1>7, <2>1 DEF Service!Submit
  <2> QED
    BY <2>2 DEF Service!Next
<1>8. CASE CallSeen(r)' # CallSeen(r) /\ CallSeen(r)' # "pending"
  <2> DEFINE told == CallSeen(r)'
  <2>1. /\ CallSeen(r) \in {"idle", "pending"}
        /\ told \in {"reply", "cancelled", "failed"}
        /\ told \in {"reply", "cancelled"} => told = result'[r]
    BY <1>1, <1>8 DEF CallSeen
  <2>2. told = "reply" => FrameSeen(r) = "answered"
    BY <1>1, <2>1 DEF OutcomeInv, ReplyIsAnswer, FrameSeen
  <2>3. told = "cancelled" => FrameSeen(r) = "none"
    <3> SUFFICES ASSUME told = "cancelled" PROVE FrameSeen(r) = "none"
      OBVIOUS
    <3>1. written'[r] = "Cancelled"
      BY <2>1 DEF OutcomeInv, ReportIsTold
    <3>2. wire'[r] = "none" /\ ~(writer'.at = "write" /\ writer'.msg = r)
      BY <3>1 DEF IInv, UndispatchedNeverWritten, ClaimedIsTracked
    <3> QED
      BY <1>1, <3>2 DEF FrameSeen
  <2> HIDE DEF told
  <2>4. Service!Return(r, told)
    BY <1>4, <1>5, <2>1, <2>2, <2>3 DEF Service!Return, told
  <2> QED
    BY <2>1, <2>4 DEF Service!Next, Service!Told
<1> QED
  BY <1>6, <1>7, <1>8

LEMMA FrameSteps ==
    ASSUME NEW r \in Requests, CallsStay, OpenStays,
           \A q \in Requests \ {r} : FrameSeen(q)' = FrameSeen(q),
           \/ FrameSeen(r)' = FrameSeen(r)
           \/ /\ FrameSeen(r) = "none" /\ FrameSeen(r)' = "committed"
              /\ main \notin AfterClear /\ CallSeen(r) = "pending"
           \/ FrameSeen(r) = "committed" /\ FrameSeen(r)' \in {"written", "none"}
           \/ FrameSeen(r) = "written" /\ FrameSeen(r)' = "answered"
    PROVE  [Service!Next]_Service!vars
<1>1. UNCHANGED <<[q \in Requests |-> CallSeen(q)], main \notin AfterClear>>
  BY DEF CallsStay, OpenStays
<1>2. [q \in Requests |-> FrameSeen(q)]' =
         [[q \in Requests |-> FrameSeen(q)] EXCEPT ![r] = FrameSeen(r)']
  OBVIOUS
<1>3. CASE FrameSeen(r)' = FrameSeen(r)
  BY <1>3, NothingSeen DEF FramesStay
<1>4. CASE /\ FrameSeen(r) = "none" /\ FrameSeen(r)' = "committed"
           /\ main \notin AfterClear /\ CallSeen(r) = "pending"
  <2>1. Service!Commit(r)
    BY <1>1, <1>2, <1>4 DEF Service!Commit
  <2> QED
    BY <2>1 DEF Service!Next
<1>5. CASE FrameSeen(r) = "committed" /\ FrameSeen(r)' \in {"written", "none"}
  <2>1. Service!Send(r) \/ Service!Lose(r)
    BY <1>1, <1>2, <1>5 DEF Service!Send, Service!Lose
  <2> QED
    BY <2>1 DEF Service!Next
<1>6. CASE FrameSeen(r) = "written" /\ FrameSeen(r)' = "answered"
  <2>1. Service!Answer(r)
    BY <1>1, <1>2, <1>6 DEF Service!Answer
  <2> QED
    BY <2>1 DEF Service!Next
<1> QED
  BY <1>3, <1>4, <1>5, <1>6

LEMMA WriterRefines ==
    ASSUME IInv, ShutdownInv, WriterStep
    PROVE  [Service!Next]_Service!vars
<1> USE DEF handleVars
<1>0. TypeOK /\ LifecycleTypeOK /\ Ack \notin Requests /\ writer = [at |-> writer.at, msg |-> writer.msg]
  BY BrokerAssumption DEF IInv, TypeOK
<1>1. CallsStay /\ OpenStays
  BY DEF WriterStep, WriterRecv, WriterCheckReady, WriterCheckBudget, WriterClaim,
         WriterWrite, WriterFail, WriterMark, WriterAck, CallsStay, OpenStays, CallSeen
<1>2. CASE WriterRecv \/ WriterCheckReady \/ WriterCheckBudget \/ WriterMark \/ WriterAck
           \/ (WriterClaim /\ ~Claimable(writer.msg))
  <2>1. wire' = wire
    BY <1>2
       DEF WriterRecv, WriterCheckReady, WriterCheckBudget, WriterMark, WriterAck, WriterClaim,
           peerVars
  <2>2. \A q \in Requests : writer # [at |-> "write", msg |-> q]
    BY <1>0, <1>2
       DEF WriterRecv, WriterCheckReady, WriterCheckBudget, WriterMark, WriterAck, WriterClaim
  <2>3. \A q \in Requests : writer' # [at |-> "write", msg |-> q]
    BY <1>0, <1>2
       DEF WriterRecv, WriterCheckReady, WriterCheckBudget, WriterMark, WriterAck, WriterClaim,
           Skip, Idle, TypeOK
  <2>4. FramesStay
    BY <2>1, <2>2, <2>3 DEF FramesStay, FrameSeen
  <2> QED
    BY <1>1, <2>4, NothingSeen
<1>3. CASE WriterClaim /\ Claimable(writer.msg)
  <2> PICK m \in Requests : m = writer.msg
    BY <1>3, HoldsRequest DEF WriterClaim
  <2>1. /\ writer = [at |-> "claim", msg |-> m] /\ writer' = [at |-> "write", msg |-> m]
        /\ wire' = wire /\ active[m] = "Queued"
    BY <1>0, <1>3 DEF WriterClaim, Claimable, peerVars, TypeOK
  <2>2. wire[m] = "none"
    BY <2>1, HoldsRequest DEF Unsent
  <2>3. pc[m] \notin {"idle", "abandonPermit", "done"}
    BY <2>1 DEF IInv, RecordIsGuarded, Absent
  <2>4. CallSeen(m) = "pending"
    BY <2>3 DEF CallSeen
  <2>5. main \notin AfterClear
    BY <2>1 DEF ShutdownInv, LateStaysQueued, Absent
  <2>6. FrameSeen(m) = "none" /\ FrameSeen(m)' = "committed"
    BY <2>1, <2>2 DEF FrameSeen
  <2>7. \A q \in Requests \ {m} : FrameSeen(q)' = FrameSeen(q)
    BY <2>1 DEF FrameSeen
  <2> QED
    BY <1>1, <2>4, <2>5, <2>6, <2>7, FrameSteps
<1>4. CASE WriterWrite \/ WriterFail
  <2>1. /\ writer.at = "write" /\ writer'.at # "write"
        /\ PutOnWire(writer.msg) \/ UNCHANGED wire
    BY <1>0, <1>4 DEF WriterWrite, WriterFail, Idle, TypeOK
  <2>2. writer.msg \in Messages
    BY <2>1 DEF IInv, TasksHold
  <2>3. CASE writer.msg = Ack
    <3>1. FramesStay
      BY <1>0, <2>1, <2>3 DEF PutOnWire, FramesStay, FrameSeen
    <3> QED
      BY <1>1, <3>1, NothingSeen
  <2>4. CASE writer.msg \in Requests
    <3> PICK m \in Requests : m = writer.msg
      BY <2>4
    <3>1. writer = [at |-> "write", msg |-> m] /\ wire[m] = "none"
      BY <1>0, <2>1 DEF IInv, ClaimedIsTracked
    <3>2. wire' \in {wire, [wire EXCEPT ![m] = "written"]}
      BY <1>0, <2>1, <3>1 DEF PutOnWire
    <3>3. \A q \in Requests \ {m} : FrameSeen(q)' = FrameSeen(q)
      BY <1>0, <2>1, <3>1, <3>2 DEF FrameSeen, TypeOK
    <3>4. FrameSeen(m) = "committed" /\ FrameSeen(m)' \in {"written", "none"}
      BY <1>0, <2>1, <3>1, <3>2 DEF FrameSeen, TypeOK
    <3> QED
      BY <1>1, <3>3, <3>4, FrameSteps
  <2> QED
    BY <2>2, <2>3, <2>4 DEF Messages
<1> QED
  BY <1>2, <1>3, <1>4 DEF WriterStep

LEMMA ReaderRefines ==
    ASSUME IInv, ReaderStep \/ ReaderInput
    PROVE  [Service!Next]_Service!vars
<1> USE DEF handleVars
<1>0. TypeOK
  BY DEF IInv
<1>1. CallsStay /\ OpenStays /\ UNCHANGED writer
  BY DEF ReaderStep, ReaderInput, ReaderEnd, ReaderTake, ReaderDeliver, ReaderReady,
         ReaderQueueAck, ReaderSetReady, ReaderConnect, CallsStay, OpenStays, CallSeen
<1>2. ASSUME NEW r \in Requests, ReaderTake(r)
      PROVE  [Service!Next]_Service!vars
  <2>1. /\ wire[r] = "written" /\ wire'[r] = "answered"
        /\ \A q \in Requests \ {r} : wire'[q] = wire[q]
    BY <1>0, <1>2 DEF ReaderTake, TypeOK
  <2>2. \A q \in Requests \ {r} : FrameSeen(q)' = FrameSeen(q)
    BY <1>1, <2>1 DEF FrameSeen
  <2>3. FrameSeen(r) = "written" /\ FrameSeen(r)' = "answered"
    BY <1>1, <2>1 DEF FrameSeen
  <2> QED
    BY <1>1, <2>2, <2>3, FrameSteps
<1>3. CASE ~\E r \in Requests : ReaderTake(r)
  <2>1. wire' = wire
    BY <1>3
       DEF ReaderStep, ReaderInput, ReaderEnd, ReaderDeliver, ReaderReady,
           ReaderQueueAck, ReaderSetReady, ReaderConnect, peerVars
  <2>2. FramesStay
    BY <1>1, <2>1 DEF FramesStay, FrameSeen
  <2> QED
    BY <1>1, <2>2, NothingSeen
<1> QED
  BY <1>2, <1>3

LEMMA MainRefines ==
    ASSUME \/ MainStep \/ ShutdownTimeout \/ HttpStop \/ HttpDrain \/ Exited \/ UNCHANGED vars
           \/ \E r \in Requests : Tick(r)
    PROVE  [Service!Next]_Service!vars
<1> USE DEF handleVars, peerVars, vars
<1>1. CallsStay /\ FramesStay
  <2>1. UNCHANGED <<pc, result, wire, writer>>
    BY DEF MainStep, MainWake, MainNotReady, MainClosePermits, MainClearRuntime,
           MainClearLifecycle, MainStopReader, MainAwaitHttp, MainAwaitWriter, ShutdownTimeout,
           HttpStop, HttpDrain, Exited, Tick
  <2> QED
    BY <2>1 DEF CallsStay, FramesStay, CallSeen, FrameSeen
<1>2. CASE MainClearLifecycle
  <2>1. main \notin AfterClear /\ main' \in AfterClear
    BY <1>2 DEF MainClearLifecycle, AfterClear
  <2>2. UNCHANGED <<[q \in Requests |-> CallSeen(q)], [q \in Requests |-> FrameSeen(q)]>>
    BY <1>1 DEF CallsStay, FramesStay
  <2>3. Service!Close
    BY <2>1, <2>2 DEF Service!Close
  <2> QED
    BY <2>3 DEF Service!Next
<1>3. CASE ~MainClearLifecycle
  <2>1. OpenStays
    BY <1>3
       DEF MainStep, MainWake, MainNotReady, MainClosePermits, MainClearRuntime,
           MainStopReader, MainAwaitHttp, MainAwaitWriter, ShutdownTimeout,
           HttpStop, HttpDrain, Exited, Tick, OpenStays, AfterClear
  <2> QED
    BY <1>1, <2>1, NothingSeen
<1> QED
  BY <1>2, <1>3

\* The broker implements RequestService: a request is committed once, for a
\* caller still waiting, before shutdown; a reply is the extension's answer, and
\* "cancelled" means that nothing was sent (broker.rs:430-545).
THEOREM Refinement ==
    ASSUME ~HTTP_MAY_STOP
    PROVE  Spec => ImplementsService
<1>1. Init => Service!Init
  BY BrokerAssumption DEF Init, Service!Init, CallSeen, FrameSeen, AfterClear
<1>2. /\ IInv /\ OutcomeInv /\ ShutdownInv
      /\ (IInv /\ OutcomeInv /\ ShutdownInv)'
      /\ [Next]_vars
      => [Service!Next]_Service!vars
  BY CallRefines, WriterRefines, ReaderRefines, MainRefines DEF Next
<1> QED
  BY <1>1, <1>2, ShutdownInvariance, PTL DEF Spec, ImplementsService, Service!Spec
=============================================================================
