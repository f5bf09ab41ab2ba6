------------------------ MODULE OperationTasksProofs ------------------------
(***************************************************************************)
(* Proofs about OperationTasks, for any number of keys, lanes and tasks.    *)
(* Each action is shown to keep the inductive invariant IInv; the safety    *)
(* properties follow from it.                                               *)
(***************************************************************************)
EXTENDS OperationTasks, TLAPS

LEMMA InitInvariant == Init => IInv
<1> SUFFICES ASSUME Init PROVE IInv
    OBVIOUS
<1> USE OperationAssumption
<1>1. TypeOK
  <2>1. next_sequence \in 0..MAX_SEQUENCE
    BY DEF Init
  <2>5. closed \in BOOLEAN /\ aborted \in SUBSET Tasks
    BY DEF Init
  <2>2. /\ tasks \in [Keys -> Tasks \cup {NoTask}]
        /\ key \in [Tasks -> Keys \cup {NoTask}]
        /\ lanes \in [Tasks -> LaneSets \cup {{}}]
        /\ predecessors \in [Tasks -> SUBSET Tasks]
        /\ pending \in [Tasks -> SUBSET Tasks]
    BY DEF Init
  <2>3. status \in [Tasks -> Statuses] /\ step \in [Tasks -> TaskSteps]
    BY DEF Init, Statuses, TaskSteps
  <2>4. /\ attached \in [Tasks -> BOOLEAN]
        /\ abort \in [Tasks -> BOOLEAN]
        /\ owner_retained \in [Tasks -> BOOLEAN]
    BY DEF Init
  <2> QED
    BY <2>1, <2>2, <2>3, <2>4, <2>5 DEF TypeOK
<1>2. AdmittedInOrder /\ EntriesOwned
  BY DEF Init, AdmittedInOrder, EntriesOwned, Tasks
<1>3. LiveIsRegistered /\ BodyIsLive /\ ClosedMeansSettled
  BY DEF Init, LiveIsRegistered, BodyIsLive, ClosedMeansSettled, Admitted, Tasks
<1>4. StatusIsHonest /\ AwaitedAreHarmless /\ RunsAfterPredecessors
  BY DEF Init, StatusIsHonest, AwaitedAreHarmless, RunsAfterPredecessors
<1>5. OverlapOrdered
  BY DEF Init, OverlapOrdered, Admitted, Tasks
<1> QED
  BY <1>1, <1>2, <1>3, <1>4, <1>5 DEF IInv

-----------------------------------------------------------------------------
(* One lemma per action.                                                    *)

LEMMA AdmitInvariant ==
    ASSUME IInv, NEW k \in Keys, NEW laneSet \in LaneSets, Admit(k, laneSet)
    PROVE  IInv'
<1> DEFINE n == next_sequence
<1> USE OperationAssumption
<1>0. n \in Tasks /\ n \in Nat /\ next_sequence' = n + 1 /\ step[n] = "none"
  BY DEF IInv, Admit, Saturated, TypeOK, Tasks, AdmittedInOrder
<1>1. TypeOK'
  <2>1. Conflicting(laneSet) \in SUBSET Tasks
    BY DEF Conflicting, Registered
  <2> QED
    BY <1>0, <2>1 DEF IInv, Admit, TypeOK, Tasks, TaskSteps
<1>2. AdmittedInOrder'
  BY <1>0 DEF IInv, Admit, TypeOK, AdmittedInOrder, Tasks
<1>3. EntriesOwned'
  BY <1>0 DEF IInv, Admit, TypeOK, EntriesOwned, Tasks
<1>4. LiveIsRegistered'
  <2> SUFFICES ASSUME ~closed', NEW s \in Admitted', ~Settled(s)'
               PROVE  IsEntry(s)'
    BY DEF LiveIsRegistered
  <2>1. CASE s = n
    BY <2>1, <1>0 DEF IInv, Admit, TypeOK, IsEntry, Tasks
  <2>2. CASE s # n
    <3>1. s \in Admitted /\ ~Settled(s) /\ IsEntry(s)
      BY <2>2, <1>0 DEF IInv, Admit, TypeOK, Admitted, Settled, LiveIsRegistered, Tasks
    <3>2. key[s] # k /\ key[s] \in Keys
      BY <3>1 DEF IInv, Admit, IsEntry, Admitted, AdmittedInOrder, Tasks
    <3> QED
      BY <3>1, <3>2, <2>2, <1>0 DEF IInv, Admit, TypeOK, IsEntry
  <2> QED
    BY <2>1, <2>2
<1>5. BodyIsLive' /\ StatusIsHonest'
  BY <1>0 DEF IInv, Admit, TypeOK, BodyIsLive, StatusIsHonest, Settled, Tasks
<1>6. AwaitedAreHarmless'
  BY <1>0 DEF IInv, Admit, TypeOK, AwaitedAreHarmless, Tasks
<1>7. RunsAfterPredecessors'
  <2>1. status[n] \in {"Queued", "NotDispatched"}
    BY <1>0 DEF IInv, StatusIsHonest
  <2> QED
    BY <1>0, <2>1 DEF IInv, Admit, TypeOK, RunsAfterPredecessors, Tasks
<1>8. OverlapOrdered'
  <2> SUFFICES ASSUME NEW s \in Admitted', NEW t \in Admitted', s < t,
                      Overlaps(lanes'[s], lanes'[t])
               PROVE  s \in predecessors'[t] \/ (Settled(s)' /\ step'[s] # "running")
    BY DEF OverlapOrdered, Overlaps
  <2>1. s \in Admitted /\ s # n /\ s \in Tasks
    BY <1>0 DEF Admitted, Tasks
  <2>2. CASE t = n
    <3>1. Overlaps(lanes[s], laneSet)
      BY <2>1, <2>2, <1>0 DEF IInv, Admit, TypeOK
    <3>2. predecessors'[t] = Conflicting(laneSet)
      BY <2>2, <1>0 DEF IInv, Admit, TypeOK
    <3>3. s \in Conflicting(laneSet) \/ s \notin Registered
                 \/ status[s] \in {"Completed", "NotDispatched"}
      BY <3>1, <2>1 DEF Conflicting
    <3>4. s \notin Registered => Settled(s)
      BY <2>1 DEF IInv, Admit, LiveIsRegistered, IsEntry, Registered, AdmittedInOrder,
                  Admitted
    <3>5. Settled(s) => step[s] # "running"
      BY <2>1 DEF IInv, Admit, BodyIsLive, Settled, Terminals
    <3>6. Settled(s)' = Settled(s) /\ step'[s] = step[s]
      BY <2>1, <1>0 DEF IInv, Admit, TypeOK, Settled
    <3> QED
      BY <3>2, <3>3, <3>4, <3>5, <3>6 DEF Settled, Terminals
  <2>3. CASE t # n
    <3>1. t \in Admitted /\ lanes'[s] = lanes[s] /\ lanes'[t] = lanes[t]
             /\ predecessors'[t] = predecessors[t] /\ step'[s] = step[s]
             /\ status' = status
      BY <2>1, <2>3, <1>0 DEF IInv, Admit, TypeOK, Admitted, Tasks
    <3> QED
      BY <3>1, <2>1 DEF IInv, OverlapOrdered, Settled
  <2> QED
    BY <2>2, <2>3
<1>9. ClosedMeansSettled'
  BY DEF Admit, ClosedMeansSettled
<1> QED
  BY <1>1, <1>2, <1>3, <1>4, <1>5, <1>6, <1>7, <1>8, <1>9 DEF IInv

LEMMA AttachAbortInvariant ==
    ASSUME IInv, NEW s \in Tasks, AttachAbort(s)
    PROVE  IInv'
<1> USE DEF IInv, AttachAbort, fixedVars
<1>1. TypeOK'
  <2>1. (IsEntry(s) /\ ~Settled(s)) \in BOOLEAN
    BY DEF IsEntry, Settled
  <2> QED
    BY <2>1 DEF TypeOK
<1>2. AdmittedInOrder' /\ EntriesOwned'
  BY DEF AdmittedInOrder, EntriesOwned
<1>3. LiveIsRegistered' /\ BodyIsLive' /\ StatusIsHonest' /\ ClosedMeansSettled'
  BY DEF LiveIsRegistered, BodyIsLive, StatusIsHonest, ClosedMeansSettled, Settled, IsEntry,
         Admitted
<1>4. AwaitedAreHarmless' /\ RunsAfterPredecessors'
  BY DEF AwaitedAreHarmless, RunsAfterPredecessors
<1>5. OverlapOrdered'
  BY DEF OverlapOrdered, Overlaps, Settled, Admitted
<1> QED
  BY <1>1, <1>2, <1>3, <1>4, <1>5

\* A task moves on from waiting or running: its status, step and pending
\* predecessors change, and nothing else.
LEMMA MoveInvariant ==
    ASSUME IInv, NEW s \in Tasks,
           NEW st \in Statuses, NEW to \in TaskSteps, NEW P \in SUBSET Tasks,
           UNCHANGED <<closed, next_sequence, tasks, fixedVars, entryVars, aborted>>,
           status' = [status EXCEPT ![s] = st],
           step' = [step EXCEPT ![s] = to],
           pending' = [pending EXCEPT ![s] = P],
           step[s] \in {"waiting", "running"},
           Settled(s) => st = status[s],
           to # "none",
           to = "waiting" =>
               /\ st \in {"Queued", "NotDispatched"}
               /\ \A p \in predecessors[s] \ P : status[p] \in {"Completed", "NotDispatched"},
           to = "running" => st = "Running" /\ ~Settled(s),
           to \in {"cleaning", "ended"} => st \in Terminals,
           to = "running" \/ st \in {"Running", "Completed"} =>
               \A p \in predecessors[s] : status[p] \in {"Completed", "NotDispatched"}
    PROVE  IInv'
<1> USE DEF fixedVars, entryVars
<1>0. TypeOK
  BY DEF IInv
<1>1. TypeOK'
  BY <1>0 DEF TypeOK
<1>2. AdmittedInOrder'
  BY <1>0 DEF IInv, TypeOK, AdmittedInOrder
<1>3. EntriesOwned'
  BY DEF IInv, EntriesOwned
\* What was over stays as it was, and does not start.
<1>4. \A t \in Tasks : Settled(t) => Settled(t)' /\ status'[t] = status[t]
  BY <1>0 DEF TypeOK, Settled
<1>5. \A t \in Tasks : Settled(t) /\ step'[t] = "running" => step[t] = "running"
  BY <1>0 DEF TypeOK, Settled
<1>6. LiveIsRegistered'
  BY <1>4 DEF IInv, LiveIsRegistered, IsEntry, Admitted
<1>7. BodyIsLive'
  BY <1>0 DEF IInv, TypeOK, BodyIsLive
<1>8. StatusIsHonest'
  BY <1>0 DEF IInv, TypeOK, StatusIsHonest, Settled, Terminals, TaskSteps
\* A harmless predecessor is over, so it stays harmless.
<1>9. \A p \in Tasks : status[p] \in {"Completed", "NotDispatched"}
                          => status'[p] \in {"Completed", "NotDispatched"}
  BY <1>4 DEF Settled, Terminals
<1>10. AwaitedAreHarmless'
  BY <1>0, <1>9 DEF IInv, TypeOK, AwaitedAreHarmless
<1>11. RunsAfterPredecessors'
  BY <1>0, <1>9 DEF IInv, TypeOK, RunsAfterPredecessors
<1>12. OverlapOrdered'
  <2> SUFFICES ASSUME NEW a \in Admitted, NEW t \in Admitted, a < t,
                      Overlaps(lanes[a], lanes[t])
               PROVE  a \in predecessors[t] \/ (Settled(a)' /\ step'[a] # "running")
    BY DEF OverlapOrdered, Overlaps, Admitted
  <2> QED
    BY <1>4, <1>5 DEF IInv, OverlapOrdered, Admitted
<1>13. ClosedMeansSettled'
  BY <1>4 DEF IInv, ClosedMeansSettled, Admitted
<1> QED
  BY <1>1, <1>2, <1>3, <1>6, <1>7, <1>8, <1>10, <1>11, <1>12, <1>13 DEF IInv

LEMMA AwaitPredecessorInvariant ==
    ASSUME IInv, NEW s \in Tasks, AwaitPredecessor(s)
    PROVE  IInv'
<1>1. PICK p \in pending[s] :
        /\ Settled(p)
        /\ IF status[p] = "Unknown"
           THEN BeginFinish(s, "NotDispatched") /\ UNCHANGED pending
           ELSE /\ pending' = [pending EXCEPT ![s] = @ \ {p}]
                /\ UNCHANGED <<status, step>>
  BY DEF AwaitPredecessor
<1>2. /\ TypeOK /\ step[s] = "waiting" /\ p \in Tasks
      /\ status[s] \in {"Queued", "NotDispatched"}
      /\ UNCHANGED <<closed, next_sequence, tasks, fixedVars, entryVars, aborted>>
  BY DEF IInv, TypeOK, StatusIsHonest, AwaitPredecessor
<1>3. CASE status[p] = "Unknown"
  <2> DEFINE st == IF status[s] \in Terminals THEN status[s] ELSE "NotDispatched"
  <2>1. st = "NotDispatched" /\ st \in Statuses /\ st \in Terminals
    BY <1>2 DEF Statuses, Terminals
  <2>2. /\ status' = [status EXCEPT ![s] = "NotDispatched"]
        /\ step' = [step EXCEPT ![s] = "cleaning"]
        /\ pending' = [pending EXCEPT ![s] = pending[s]]
    BY <1>1, <1>2, <1>3, <2>1 DEF TypeOK, BeginFinish, Settle
  <2>3. Settled(s) => status[s] = "NotDispatched"
    BY <1>2 DEF Settled, Terminals
  <2>4. pending[s] \in SUBSET Tasks
    BY <1>2 DEF TypeOK
  <2> QED
    BY <1>2, <2>1, <2>2, <2>3, <2>4, MoveInvariant DEF TaskSteps
<1>4. CASE status[p] # "Unknown"
  <2>1. /\ status' = [status EXCEPT ![s] = status[s]]
        /\ step' = [step EXCEPT ![s] = "waiting"]
        /\ pending' = [pending EXCEPT ![s] = pending[s] \ {p}]
    BY <1>1, <1>2, <1>4 DEF TypeOK
  <2>2. status[s] \in Statuses /\ (pending[s] \ {p}) \in SUBSET Tasks
    BY <1>2 DEF TypeOK
  <2>3. status[p] \in {"Completed", "NotDispatched"}
    BY <1>1, <1>2, <1>4 DEF Settled, Terminals
  <2>4. \A q \in predecessors[s] \ (pending[s] \ {p}) :
           status[q] \in {"Completed", "NotDispatched"}
    BY <1>2, <2>3 DEF IInv, AwaitedAreHarmless
  <2> QED
    BY <1>2, <2>1, <2>2, <2>4, MoveInvariant DEF TaskSteps
<1> QED
  BY <1>3, <1>4

LEMMA StartInvariant ==
    ASSUME IInv, NEW s \in Tasks, Start(s)
    PROVE  IInv'
<1>1. /\ TypeOK /\ step[s] = "waiting" /\ pending[s] = {}
      /\ status[s] \in {"Queued", "NotDispatched"}
      /\ pending' = [pending EXCEPT ![s] = {}]
      /\ UNCHANGED <<closed, next_sequence, tasks, fixedVars, entryVars, aborted>>
  BY DEF IInv, TypeOK, StatusIsHonest, Start
<1>2. \A p \in predecessors[s] : status[p] \in {"Completed", "NotDispatched"}
  BY <1>1 DEF IInv, AwaitedAreHarmless
<1>3. CASE status[s] = "Queued"
  <2>1. /\ status' = [status EXCEPT ![s] = "Running"]
        /\ step' = [step EXCEPT ![s] = "running"]
    BY <1>3 DEF Start
  <2>2. ~Settled(s) /\ "Running" \in Statuses /\ "running" \in TaskSteps
    BY <1>3 DEF Settled, Terminals, Statuses, TaskSteps
  <2> QED
    BY <1>1, <1>2, <2>1, <2>2, MoveInvariant
<1>4. CASE status[s] # "Queued"
  <2>1. /\ status' = [status EXCEPT ![s] = "NotDispatched"]
        /\ step' = [step EXCEPT ![s] = "ended"]
    BY <1>1, <1>4 DEF Start, TypeOK
  <2>2. "NotDispatched" \in Terminals /\ "NotDispatched" \in Statuses /\ "ended" \in TaskSteps
    BY DEF Terminals, Statuses, TaskSteps
  <2> QED
    BY <1>1, <1>4, <2>1, <2>2, MoveInvariant
<1> QED
  BY <1>3, <1>4

LEMMA BodyEndsInvariant ==
    ASSUME IInv, NEW s \in Tasks, BodyEnds(s)
    PROVE  IInv'
<1>1. PICK terminal \in Terminals : BeginFinish(s, terminal)
  BY DEF BodyEnds
<1>2. /\ TypeOK /\ step[s] = "running" /\ status[s] \in {"Running", "Unknown"}
      /\ UNCHANGED <<closed, next_sequence, tasks, fixedVars, entryVars, aborted>>
      /\ pending' = [pending EXCEPT ![s] = pending[s]]
      /\ pending[s] \in SUBSET Tasks
  BY DEF IInv, TypeOK, StatusIsHonest, BodyEnds
<1> DEFINE st == IF status[s] \in Terminals THEN status[s] ELSE terminal
<1>3. /\ status' = [status EXCEPT ![s] = st]
      /\ step' = [step EXCEPT ![s] = "cleaning"]
  BY <1>1 DEF BeginFinish, Settle
<1>4. st \in Terminals /\ st \in Statuses /\ "cleaning" \in TaskSteps
  BY DEF Statuses, TaskSteps
<1>5. Settled(s) => st = status[s]
  BY DEF Settled
<1>6. \A p \in predecessors[s] : status[p] \in {"Completed", "NotDispatched"}
  BY <1>2 DEF IInv, RunsAfterPredecessors
<1> HIDE DEF st
<1> QED
  BY <1>2, <1>3, <1>4, <1>5, <1>6, MoveInvariant

LEMMA DropInvariant ==
    ASSUME IInv, NEW s \in Tasks, Drop(s)
    PROVE  IInv'
<1>1. /\ TypeOK /\ step[s] \in {"waiting", "running"}
      /\ UNCHANGED <<closed, next_sequence, tasks, fixedVars, entryVars, aborted>>
      /\ pending' = [pending EXCEPT ![s] = pending[s]]
      /\ pending[s] \in SUBSET Tasks /\ status[s] \in Statuses
  BY DEF IInv, TypeOK, Drop
\* Only a task that runs or has run can be Running or Completed.
<1>2. status[s] \in {"Running", "Completed"} =>
         \A p \in predecessors[s] : status[p] \in {"Completed", "NotDispatched"}
  BY DEF IInv, RunsAfterPredecessors
<1>3. CASE Settled(s)
  <2>1. /\ status' = [status EXCEPT ![s] = status[s]]
        /\ step' = [step EXCEPT ![s] = "ended"]
    BY <1>1, <1>3 DEF Drop, TypeOK
  <2>2. status[s] \in Terminals /\ "ended" \in TaskSteps
    BY <1>3 DEF Settled, TaskSteps
  <2> QED
    BY <1>1, <1>2, <2>1, <2>2, MoveInvariant
<1>4. CASE ~Settled(s)
  <2> DEFINE st == IF status[s] = "Queued" THEN "NotDispatched" ELSE "Unknown"
  <2>1. /\ status' = [status EXCEPT ![s] = st]
        /\ step' = [step EXCEPT ![s] = "cleaning"]
    BY <1>4 DEF Drop, BeginFinish, Settle, Settled
  <2>2. /\ st \in Terminals /\ st \in Statuses /\ "cleaning" \in TaskSteps
        /\ st \notin {"Running", "Completed"}
    BY DEF Terminals, Statuses, TaskSteps
  <2> HIDE DEF st
  <2> QED
    BY <1>1, <1>4, <2>1, <2>2, MoveInvariant
<1> QED
  BY <1>3, <1>4

LEMMA CleanInvariant ==
    ASSUME IInv, NEW s \in Tasks, Clean(s)
    PROVE  IInv'
<1> USE DEF fixedVars, entryVars
<1>0. /\ TypeOK /\ step[s] = "cleaning" /\ Settled(s)
      /\ step' = [step EXCEPT ![s] = "ended"]
      /\ UNCHANGED <<closed, next_sequence, key, lanes, predecessors, pending, status>>
  BY DEF IInv, StatusIsHonest, Clean
<1>1. s \in Admitted /\ key[s] \in Keys
  BY <1>0 DEF IInv, AdmittedInOrder, Admitted
<1>2. \/ tasks' = tasks
      \/ tasks[key[s]] = s /\ tasks' = [tasks EXCEPT ![key[s]] = NoTask]
  BY DEF Clean, IsEntry
<1>3. TypeOK'
  <2>1. tasks' \in [Keys -> Tasks \cup {NoTask}]
    BY <1>0, <1>2 DEF TypeOK
  <2>2. step' \in [Tasks -> TaskSteps]
    BY <1>0 DEF TypeOK, TaskSteps
  <2>3. abort' \in [Tasks -> BOOLEAN]
    BY <1>0 DEF TypeOK, Clean
  <2> QED
    BY <1>0, <2>1, <2>2, <2>3 DEF TypeOK, Clean
<1>4. AdmittedInOrder'
  BY <1>0 DEF IInv, TypeOK, AdmittedInOrder
<1>5. EntriesOwned'
  BY <1>0, <1>1, <1>2 DEF IInv, TypeOK, EntriesOwned
<1>6. LiveIsRegistered'
  BY <1>0, <1>1, <1>2 DEF IInv, TypeOK, LiveIsRegistered, AdmittedInOrder, Admitted, IsEntry,
                          Settled
<1>7. BodyIsLive' /\ StatusIsHonest' /\ ClosedMeansSettled'
  BY <1>0 DEF IInv, TypeOK, BodyIsLive, StatusIsHonest, ClosedMeansSettled, Settled, Admitted
<1>8. AwaitedAreHarmless' /\ RunsAfterPredecessors'
  BY <1>0 DEF IInv, TypeOK, AwaitedAreHarmless, RunsAfterPredecessors
<1>9. OverlapOrdered'
  BY <1>0 DEF IInv, TypeOK, OverlapOrdered, Overlaps, Settled, Admitted
<1> QED
  BY <1>3, <1>4, <1>5, <1>6, <1>7, <1>8, <1>9 DEF IInv

LEMMA EvictOwnerInvariant ==
    ASSUME IInv, NEW k \in Keys, EvictOwner(k)
    PROVE  IInv'
<1> USE DEF fixedVars
<1>0. /\ TypeOK /\ tasks[k] \in Tasks /\ key[tasks[k]] = k
      /\ UNCHANGED <<closed, next_sequence, key, lanes, predecessors, pending, status, step>>
  BY DEF IInv, TypeOK, EntriesOwned, EvictOwner
<1>1. \/ tasks' = tasks
      \/ Settled(tasks[k]) /\ tasks' = [tasks EXCEPT ![k] = NoTask]
  BY DEF EvictOwner
<1>2. TypeOK'
  <2>1. tasks' \in [Keys -> Tasks \cup {NoTask}]
    BY <1>0, <1>1 DEF TypeOK
  <2>2. owner_retained' \in [Tasks -> BOOLEAN] /\ abort' \in [Tasks -> BOOLEAN]
    BY <1>0 DEF TypeOK, EvictOwner
  <2> QED
    BY <1>0, <2>1, <2>2 DEF TypeOK, EvictOwner
<1>3. AdmittedInOrder' /\ EntriesOwned'
  BY <1>0, <1>1 DEF IInv, TypeOK, AdmittedInOrder, EntriesOwned
<1>4. LiveIsRegistered'
  BY <1>0, <1>1 DEF IInv, TypeOK, LiveIsRegistered, AdmittedInOrder, Admitted, IsEntry, Settled
<1>5. BodyIsLive' /\ StatusIsHonest' /\ ClosedMeansSettled'
  BY <1>0 DEF IInv, BodyIsLive, StatusIsHonest, ClosedMeansSettled, Settled, Admitted
<1>6. AwaitedAreHarmless' /\ RunsAfterPredecessors'
  BY <1>0 DEF IInv, AwaitedAreHarmless, RunsAfterPredecessors
<1>7. OverlapOrdered'
  BY <1>0 DEF IInv, OverlapOrdered, Overlaps, Settled, Admitted
<1> QED
  BY <1>2, <1>3, <1>4, <1>5, <1>6, <1>7 DEF IInv

LEMMA ShutdownInvariant ==
    ASSUME IInv, ShutdownAndClear
    PROVE  IInv'
<1> USE DEF fixedVars
<1>0. /\ TypeOK /\ ~closed /\ closed'
      /\ tasks' = [k \in Keys |-> NoTask]
      /\ UNCHANGED <<next_sequence, key, lanes, predecessors, pending, step>>
  BY DEF IInv, ShutdownAndClear
<1>1. \A s \in Tasks :
        status'[s] = IF s \in Registered THEN FailUnfinished(status[s]) ELSE status[s]
  BY DEF ShutdownAndClear
<1>2. TypeOK'
  <2>1. status' \in [Tasks -> Statuses]
    BY <1>0 DEF TypeOK, ShutdownAndClear, FailUnfinished, Statuses, Terminals
  <2>2. tasks' \in [Keys -> Tasks \cup {NoTask}] /\ closed' \in BOOLEAN
    BY <1>0
  <2>3. /\ abort' \in [Tasks -> BOOLEAN]
        /\ owner_retained' \in [Tasks -> BOOLEAN]
        /\ aborted' \in SUBSET Tasks
    BY <1>0 DEF TypeOK, ShutdownAndClear, Registered
  <2> QED
    BY <1>0, <2>1, <2>2, <2>3 DEF TypeOK, ShutdownAndClear
\* Terminal statuses stay, and a status only moves to a terminal one.
<1>3. \A s \in Tasks :
        /\ Settled(s) => status'[s] = status[s] /\ Settled(s)'
        /\ status[s] = "Queued"  => status'[s] \in {"Queued", "NotDispatched"}
        /\ status[s] = "Running" => status'[s] \in {"Running", "Unknown"}
  BY <1>1 DEF FailUnfinished, Settled, Terminals
<1>4. AdmittedInOrder' /\ EntriesOwned'
  <2>1. \A s \in Registered : s < next_sequence
    BY OperationAssumption DEF IInv, EntriesOwned, Registered, Tasks
  <2>2. \A s \in Tasks : ~(s < next_sequence) => status'[s] = status[s]
    BY <1>1, <2>1
  <2> QED
    BY <1>0, <2>2 DEF IInv, AdmittedInOrder, EntriesOwned
<1>5. LiveIsRegistered' /\ BodyIsLive'
  BY <1>0 DEF LiveIsRegistered, BodyIsLive
<1>6. ClosedMeansSettled'
  <2> SUFFICES ASSUME NEW s \in Admitted PROVE Settled(s)'
    BY <1>0 DEF ClosedMeansSettled, Admitted
  <2>1. s \in Tasks /\ key[s] \in Keys /\ status[s] \in Statuses
    BY <1>0 DEF IInv, TypeOK, AdmittedInOrder, Admitted
  <2>2. CASE Settled(s)
    BY <1>3, <2>1, <2>2
  <2>3. CASE ~Settled(s)
    <3>1. s \in Registered
      BY <1>0, <2>1, <2>3 DEF IInv, LiveIsRegistered, IsEntry, Registered
    <3> QED
      BY <1>1, <2>1, <2>3, <3>1 DEF FailUnfinished, Settled, Statuses, Terminals
  <2> QED
    BY <2>2, <2>3
<1>7. StatusIsHonest'
  BY <1>0, <1>3 DEF IInv, TypeOK, StatusIsHonest, Settled, Terminals, Statuses
<1>8. \A p \in Tasks : status[p] \in {"Completed", "NotDispatched"}
                          => status'[p] \in {"Completed", "NotDispatched"}
  BY <1>3 DEF Settled, Terminals
<1>9. AwaitedAreHarmless'
  BY <1>0, <1>8 DEF IInv, TypeOK, AwaitedAreHarmless
<1>10. \A s \in Tasks : status'[s] \in {"Running", "Completed"} => status'[s] = status[s]
  BY <1>0, <1>3 DEF TypeOK, Settled, Statuses, Terminals
<1>11. RunsAfterPredecessors'
  BY <1>0, <1>8, <1>10 DEF IInv, TypeOK, RunsAfterPredecessors
<1>12. OverlapOrdered'
  BY <1>0, <1>3 DEF IInv, OverlapOrdered, Overlaps, Admitted
<1> QED
  BY <1>2, <1>4, <1>5, <1>6, <1>7, <1>9, <1>11, <1>12 DEF IInv

LEMMA StutterInvariant ==
    ASSUME IInv, UNCHANGED vars
    PROVE  IInv'
BY DEF IInv, vars, fixedVars, entryVars, TypeOK, AdmittedInOrder, EntriesOwned,
       LiveIsRegistered, BodyIsLive, StatusIsHonest, AwaitedAreHarmless,
       RunsAfterPredecessors, OverlapOrdered, ClosedMeansSettled, Overlaps, Settled,
       IsEntry, Admitted

LEMMA NextInvariant == IInv /\ [Next]_vars => IInv'
<1> SUFFICES ASSUME IInv, [Next]_vars PROVE IInv'
    OBVIOUS
<1>1. ASSUME NEW k \in Keys, NEW laneSet \in LaneSets, Admit(k, laneSet) PROVE IInv'
  BY <1>1, AdmitInvariant
<1>2. ASSUME NEW s \in Tasks, AttachAbort(s) PROVE IInv'
  BY <1>2, AttachAbortInvariant
<1>3. ASSUME NEW s \in Tasks, TaskStep(s) PROVE IInv'
  BY <1>3, AwaitPredecessorInvariant, StartInvariant, CleanInvariant DEF TaskStep
<1>4. ASSUME NEW s \in Tasks, BodyEnds(s) PROVE IInv'
  BY <1>4, BodyEndsInvariant
<1>5. ASSUME NEW s \in Tasks, Drop(s) PROVE IInv'
  BY <1>5, DropInvariant
<1>6. ASSUME NEW k \in Keys, EvictOwner(k) PROVE IInv'
  BY <1>6, EvictOwnerInvariant
<1>7. CASE ShutdownAndClear
  BY <1>7, ShutdownInvariant
<1>8. CASE UNCHANGED vars
  BY <1>8, StutterInvariant
<1> QED
  BY <1>1, <1>2, <1>3, <1>4, <1>5, <1>6, <1>7, <1>8 DEF Next

-----------------------------------------------------------------------------
(* The theorems.                                                            *)

\* Whatever keys, lanes and limits are, and however admission, panics, aborts,
\* eviction and shutdown interleave, the invariant holds.
THEOREM Invariance == Spec => []IInv
BY InitInvariant, NextInvariant, PTL DEF Spec

\* The types of all variables, in particular that sequence numbers never pass
\* MAX_SEQUENCE.
THEOREM TypeCorrect == Spec => []TypeOK
<1>1. IInv => TypeOK
  BY DEF IInv
<1> QED
  BY <1>1, Invariance, PTL

\* Bodies on overlapping lanes never run at the same time.
THEOREM Exclusion == Spec => []OverlapExclusion
<1>1. IInv => OverlapExclusion
  <2> SUFFICES ASSUME IInv, NEW s \in Tasks, NEW t \in Tasks, s # t,
                      step[s] = "running", step[t] = "running",
                      Overlaps(lanes[s], lanes[t])
               PROVE  FALSE
    BY DEF OverlapExclusion
  <2>1. s \in Admitted /\ t \in Admitted
    BY DEF IInv, AdmittedInOrder, Admitted
  <2>2. ASSUME NEW a \in Admitted, NEW b \in Admitted, a < b,
               step[a] = "running", step[b] = "running", Overlaps(lanes[a], lanes[b])
        PROVE  FALSE
    <3>1. a \in predecessors[b]
      BY <2>2 DEF IInv, OverlapOrdered
    <3>2. status[a] \in {"Completed", "NotDispatched"}
      BY <2>2, <3>1 DEF IInv, RunsAfterPredecessors, Admitted
    <3>3. status[a] \in {"Running", "Unknown"}
      BY <2>2 DEF IInv, StatusIsHonest, Admitted
    <3> QED
      BY <3>2, <3>3
  <2>3. Overlaps(lanes[t], lanes[s])
    BY DEF Overlaps
  <2>4. s < t \/ t < s
    BY OperationAssumption DEF Tasks
  <2> QED
    BY <2>1, <2>2, <2>3, <2>4
<1> QED
  BY <1>1, Invariance, PTL

\* A body starts only after its predecessors are known to be harmless.
THEOREM PredecessorsFirst == Spec => []RunsAfterPredecessors
<1>1. IInv => RunsAfterPredecessors
  BY DEF IInv
<1> QED
  BY <1>1, Invariance, PTL

\* What waiters are told agrees with the body.
THEOREM HonestStatus == Spec => []StatusIsHonest
<1>1. IInv => StatusIsHonest
  BY DEF IInv
<1> QED
  BY <1>1, Invariance, PTL

\* A key never has two tasks that are not over.
THEOREM SingleLiveTask == Spec => []OneLiveTaskPerKey
<1>1. IInv => OneLiveTaskPerKey
  BY DEF IInv, OneLiveTaskPerKey, LiveIsRegistered, IsEntry, ClosedMeansSettled, Admitted
<1> QED
  BY <1>1, Invariance, PTL

\* After shutdown nobody waits for a task.
THEOREM ShutdownSettles == Spec => []ClosedMeansSettled
<1>1. IInv => ClosedMeansSettled
  BY DEF IInv
<1> QED
  BY <1>1, Invariance, PTL

-----------------------------------------------------------------------------
(* The refinement: each step is one of OperationService's, or is not seen.   *)

LEMMA ServiceTypes ==
    ASSUME IInv
    PROVE  /\ Reported \in [Tasks -> {"none"} \cup Statuses]
           /\ \A s \in Tasks : Reported[s] = "none" <=> ~(s < next_sequence)
           /\ \A s \in Tasks : s < next_sequence => Reported[s] = status[s]
<1>1. /\ status \in [Tasks -> Statuses]
      /\ \A s \in Tasks : step[s] = "none" <=> ~(s < next_sequence)
  BY DEF IInv, TypeOK, AdmittedInOrder
<1>2. \A s \in Tasks : status[s] # "none"
  BY <1>1 DEF Statuses, Terminals
<1> QED
  BY <1>1, <1>2 DEF Reported

LEMMA NotSeen ==
    ASSUME UNCHANGED <<closed, lanes, status, step>>
    PROVE  UNCHANGED Service!vars
BY DEF Service!vars, Reported, Running

LEMMA AdmitRefines ==
    ASSUME IInv, NEW k \in Keys, NEW laneSet \in LaneSets, Admit(k, laneSet)
    PROVE  Service!Next
<1> DEFINE n == next_sequence
<1> USE OperationAssumption
<1>1. n \in Tasks /\ n \in Nat /\ step[n] = "none" /\ status[n] = "Queued"
  BY DEF IInv, Admit, Saturated, TypeOK, Tasks, AdmittedInOrder
<1>2. /\ ~closed /\ closed' = closed /\ status' = status
      /\ lanes' = [lanes EXCEPT ![n] = laneSet]
      /\ step' = [step EXCEPT ![n] = "waiting"]
      /\ step \in [Tasks -> TaskSteps]
  BY DEF Admit, IInv, TypeOK
<1>3. Reported' = [Reported EXCEPT ![n] = "Queued"] /\ Running' = Running
  BY <1>1, <1>2 DEF Reported, Running
<1>4. Reported[n] = "none" /\ \A t \in Tasks : t < n => Reported[t] # "none"
  BY <1>1, ServiceTypes
<1>5. Service!Admit(n)
  BY <1>2, <1>3, <1>4 DEF Service!Admit
<1> QED
  BY <1>1, <1>5 DEF Service!Next

\* A task that moves is seen to begin, to end, or to give up; or it is not seen.
LEMMA MoveRefines ==
    ASSUME IInv, NEW s \in Tasks, NEW st, NEW to,
           UNCHANGED <<closed, lanes>>,
           status' = [status EXCEPT ![s] = st],
           step' = [step EXCEPT ![s] = to],
           step[s] # "none", to # "none",
           \/ step[s] # "running" /\ to # "running" /\ st = status[s]
           \/ step[s] # "running" /\ to # "running" /\ status[s] = "Queued"
              /\ st = "NotDispatched"
           \/ /\ step[s] = "running" /\ to # "running" /\ st \in Terminals
              /\ status[s] # "Running" => st = status[s]
           \/ step[s] = "waiting" /\ pending[s] = {} /\ status[s] = "Queued"
              /\ to = "running" /\ st = "Running"
    PROVE  [Service!Next]_Service!vars
<1>1. /\ status \in [Tasks -> Statuses] /\ step \in [Tasks -> TaskSteps]
      /\ s < next_sequence
  BY DEF IInv, TypeOK, AdmittedInOrder
<1>2. /\ Reported[s] = status[s]
      /\ Reported' = [Reported EXCEPT ![s] = st]
  BY <1>1 DEF Reported
<1>3. /\ to # "running" => Running' = Running \ {s}
      /\ to = "running" => Running' = Running \cup {s}
      /\ s \in Running <=> step[s] = "running"
  BY <1>1 DEF Running
<1>4. CASE step[s] # "running" /\ to # "running" /\ st = status[s]
  <2>1. Reported' = Reported
    BY <1>2, <1>4 DEF Reported
  <2>2. Running' = Running
    BY <1>3, <1>4
  <2> QED
    BY <2>1, <2>2 DEF Service!vars
<1>5. CASE /\ step[s] # "running" /\ to # "running"
           /\ status[s] = "Queued" /\ st = "NotDispatched"
  <2>1. Service!GiveUp(s)
    BY <1>2, <1>3, <1>5 DEF Service!GiveUp
  <2> QED
    BY <2>1 DEF Service!Next
<1>6. CASE /\ step[s] = "running" /\ to # "running" /\ st \in Terminals
           /\ status[s] # "Running" => st = status[s]
  <2>1. s \in Running /\ Running' = Running \ {s}
    BY <1>3, <1>6
  <2>2. Reported' = [Reported EXCEPT ![s] = IF @ = "Running" THEN st ELSE @]
    BY <1>2, <1>6
  <2>3. st \in Service!Outcomes
    BY <1>6 DEF Terminals, Service!Outcomes
  <2>4. Service!End(s)
    BY <2>1, <2>2, <2>3 DEF Service!End
  <2> QED
    BY <2>4 DEF Service!Next
<1>7. CASE /\ step[s] = "waiting" /\ pending[s] = {} /\ status[s] = "Queued"
           /\ to = "running" /\ st = "Running"
  <2>1. ~closed
    BY <1>1, <1>7 DEF IInv, ClosedMeansSettled, Admitted, Settled, Terminals
  <2>2. ASSUME NEW t \in Tasks, t < s, Service!Meet(lanes[t], lanes[s])
        PROVE  Reported[t] \in Service!Outcomes /\ t \notin Running
    <3>1. t \in Admitted /\ s \in Admitted /\ Overlaps(lanes[t], lanes[s])
      BY <1>1, <2>2, OperationAssumption
         DEF IInv, TypeOK, Admitted, Tasks, Overlaps, Service!Meet
    <3>2. t \in predecessors[s] \/ (Settled(t) /\ step[t] # "running")
      BY <2>2, <3>1 DEF IInv, OverlapOrdered
    <3>3. t \in predecessors[s] => status[t] \in {"Completed", "NotDispatched"}
      BY <1>7 DEF IInv, AwaitedAreHarmless
    <3>4. Settled(t) /\ step[t] # "running"
      BY <3>2, <3>3 DEF IInv, StatusIsHonest, Settled, Terminals
    <3>5. Reported[t] = status[t]
      BY <3>1, ServiceTypes DEF Admitted
    <3> QED
      BY <3>4, <3>5 DEF Settled, Terminals, Service!Outcomes, Running
  <2>3. Service!Begin(s)
    BY <1>2, <1>3, <1>7, <2>1, <2>2 DEF Service!Begin
  <2> QED
    BY <2>3 DEF Service!Next
<1> QED
  BY <1>4, <1>5, <1>6, <1>7

LEMMA TaskRefines ==
    ASSUME IInv, NEW s \in Tasks, AwaitPredecessor(s) \/ Start(s) \/ BodyEnds(s) \/ Drop(s)
    PROVE  [Service!Next]_Service!vars
<1>1. /\ status \in [Tasks -> Statuses] /\ step \in [Tasks -> TaskSteps]
      /\ pending[s] \in SUBSET Tasks
  BY DEF IInv, TypeOK
<1>2. /\ step[s] = "waiting" => status[s] \in {"Queued", "NotDispatched"}
      /\ step[s] = "running" => status[s] \in {"Running", "Unknown"}
  BY DEF IInv, StatusIsHonest
<1>3. UNCHANGED <<closed, lanes>>
  BY DEF AwaitPredecessor, Start, BodyEnds, Drop, fixedVars
<1>4. CASE AwaitPredecessor(s)
  <2>1. step[s] = "waiting"
    BY <1>4 DEF AwaitPredecessor
  <2>2. \/ BeginFinish(s, "NotDispatched")
        \/ UNCHANGED <<status, step>>
    BY <1>4 DEF AwaitPredecessor
  <2>3. CASE BeginFinish(s, "NotDispatched")
    <3>1. /\ status' = [status EXCEPT ![s] = "NotDispatched"]
          /\ step' = [step EXCEPT ![s] = "cleaning"]
      BY <1>1, <1>2, <2>1, <2>3 DEF BeginFinish, Settle, Terminals
    <3> QED
      BY <1>2, <1>3, <2>1, <3>1, MoveRefines
  <2>4. CASE UNCHANGED <<status, step>>
    BY <1>3, <2>4, NotSeen
  <2> QED
    BY <2>2, <2>3, <2>4
<1>5. CASE Start(s)
  <2>1. step[s] = "waiting" /\ pending[s] = {}
    BY <1>5 DEF Start
  <2>2. CASE status[s] = "Queued"
    <3>1. /\ status' = [status EXCEPT ![s] = "Running"]
          /\ step' = [step EXCEPT ![s] = "running"]
      BY <1>5, <2>2 DEF Start
    <3> QED
      BY <1>3, <2>1, <2>2, <3>1, MoveRefines
  <2>3. CASE status[s] # "Queued"
    <3>1. /\ status' = [status EXCEPT ![s] = status[s]]
          /\ step' = [step EXCEPT ![s] = "ended"]
      BY <1>1, <1>5, <2>3 DEF Start
    <3> QED
      BY <1>3, <2>1, <3>1, MoveRefines
  <2> QED
    BY <2>2, <2>3
<1>6. CASE BodyEnds(s)
  <2>1. step[s] = "running"
    BY <1>6 DEF BodyEnds
  <2>2. PICK terminal \in Terminals : BeginFinish(s, terminal)
    BY <1>6 DEF BodyEnds
  <2> DEFINE st == IF status[s] \in Terminals THEN status[s] ELSE terminal
  <2>3. /\ status' = [status EXCEPT ![s] = st]
        /\ step' = [step EXCEPT ![s] = "cleaning"]
    BY <2>2 DEF BeginFinish, Settle
  <2>4. st \in Terminals /\ (status[s] # "Running" => st = status[s])
    BY <1>2, <2>1 DEF Terminals
  <2> HIDE DEF st
  <2> QED
    BY <1>3, <2>1, <2>3, <2>4, MoveRefines
<1>7. CASE Drop(s)
  <2>1. step[s] \in {"waiting", "running"}
    BY <1>7 DEF Drop
  <2>2. CASE Settled(s)
    <3>1. /\ status' = [status EXCEPT ![s] = status[s]]
          /\ step' = [step EXCEPT ![s] = "ended"]
      BY <1>1, <1>7, <2>2 DEF Drop
    <3>2. status[s] \in Terminals
      BY <2>2 DEF Settled
    <3> QED
      BY <1>3, <2>1, <3>1, <3>2, MoveRefines
  <2>3. CASE ~Settled(s)
    <3> DEFINE st == IF status[s] = "Queued" THEN "NotDispatched" ELSE "Unknown"
    <3>1. /\ status' = [status EXCEPT ![s] = st]
          /\ step' = [step EXCEPT ![s] = "cleaning"]
      BY <1>7, <2>3 DEF Drop, BeginFinish, Settle, Settled
    <3>2. /\ step[s] = "waiting" => status[s] = "Queued" /\ st = "NotDispatched"
          /\ step[s] = "running" => status[s] = "Running" /\ st \in Terminals
      BY <1>2, <2>3 DEF Settled, Terminals
    <3> HIDE DEF st
    <3> QED
      BY <1>3, <2>1, <3>1, <3>2, MoveRefines
  <2> QED
    BY <2>2, <2>3
<1> QED
  BY <1>4, <1>5, <1>6, <1>7

LEMMA CleanRefines ==
    ASSUME IInv, NEW s \in Tasks, Clean(s)
    PROVE  [Service!Next]_Service!vars
<1>1. /\ step' = [step EXCEPT ![s] = "ended"]
      /\ status' = [status EXCEPT ![s] = status[s]]
      /\ UNCHANGED <<closed, lanes>>
      /\ step[s] = "cleaning"
  BY DEF IInv, TypeOK, Clean, fixedVars
<1> QED
  BY <1>1, MoveRefines

LEMMA CloseRefines ==
    ASSUME IInv, ShutdownAndClear
    PROVE  Service!Next
<1>1. /\ ~closed /\ closed'
      /\ UNCHANGED <<lanes, step>>
  BY DEF ShutdownAndClear, fixedVars
<1>2. \A s \in Tasks :
        status'[s] = IF s \in Registered THEN FailUnfinished(status[s]) ELSE status[s]
  BY DEF ShutdownAndClear
<1>3. \A s \in Tasks : step[s] = "none" <=> ~(s < next_sequence)
  BY DEF IInv, AdmittedInOrder
\* What is not over has its entry, so that nothing is missed.
<1>4. \A s \in Admitted : ~Settled(s) => s \in Registered
  BY <1>1 DEF IInv, LiveIsRegistered, IsEntry, AdmittedInOrder, Registered, Admitted
<1>5. \A s \in Admitted : status'[s] = FailUnfinished(status[s])
  BY <1>2, <1>4 DEF Admitted, Settled, Terminals, FailUnfinished
<1>6. Reported' = [s \in Tasks |-> CASE Reported[s] = "Queued"  -> "NotDispatched"
                                     [] Reported[s] = "Running" -> "Unknown"
                                     [] OTHER                   -> Reported[s]]
  <2> SUFFICES ASSUME NEW s \in Tasks
               PROVE  Reported'[s] = CASE Reported[s] = "Queued"  -> "NotDispatched"
                                       [] Reported[s] = "Running" -> "Unknown"
                                       [] OTHER                   -> Reported[s]
    BY DEF Reported
  <2>1. CASE s < next_sequence
    <3>1. Reported[s] = status[s] /\ Reported'[s] = status'[s]
      BY <1>1, <1>3, <2>1 DEF Reported
    <3>2. status'[s] = FailUnfinished(status[s])
      BY <1>5, <2>1 DEF Admitted
    <3> QED
      BY <3>1, <3>2 DEF FailUnfinished
  <2>2. CASE ~(s < next_sequence)
    <3>1. Reported[s] = "none" /\ Reported'[s] = "none"
      BY <1>1, <1>3, <2>2 DEF Reported
    <3> QED
      BY <3>1
  <2> QED
    BY <2>1, <2>2
<1>7. Running' = Running
  BY <1>1 DEF Running
<1>8. Service!Close
  BY <1>1, <1>6, <1>7 DEF Service!Close
<1> QED
  BY <1>8 DEF Service!Next

LEMMA NextRefines ==
    ASSUME IInv, [Next]_vars
    PROVE  [Service!Next]_Service!vars
<1>1. ASSUME NEW s \in Tasks, AttachAbort(s) PROVE UNCHANGED Service!vars
  BY <1>1, NotSeen DEF AttachAbort, fixedVars
<1>2. ASSUME NEW k \in Keys, EvictOwner(k) PROVE UNCHANGED Service!vars
  BY <1>2, NotSeen DEF EvictOwner, fixedVars
<1>3. CASE UNCHANGED vars
  BY <1>3, NotSeen DEF vars, fixedVars
<1> QED
  BY <1>1, <1>2, <1>3, AdmitRefines, TaskRefines, CleanRefines, CloseRefines DEF Next, TaskStep

\* The registry implements OperationService: operations on overlapping lanes begin
\* in the order of their admission, each only when all before it are over; the
\* first terminal status of a task is its last; after shutdown none begins.
THEOREM ImplementsOperationService == Spec => ServedInOrder
<1>1. Init => Service!Init
  BY DEF Init, Service!Init, Reported, Running
<1>2. IInv /\ [Next]_vars => [Service!Next]_Service!vars
  BY NextRefines
<1> QED
  BY <1>1, <1>2, Invariance, PTL DEF Spec, ServedInOrder, Service!Spec
=============================================================================
