-------------------------- MODULE OperationService --------------------------
(***************************************************************************)
(* What the registry of browser operations promises, without keys, entries,  *)
(* predecessors or abort handles: operations on overlapping lanes run one    *)
(* after the other in the order of their admission, each is reported as over *)
(* once and for all, and after the closing none begins.  OperationTasks.tla  *)
(* implements it.                                                            *)
(***************************************************************************)
EXTENDS Naturals

CONSTANTS Tasks,     \* numbers, in the order of admission
          LaneSets,
          Browser    \* the lane that overlaps all

VARIABLES
    open,     \* operations are admitted
    report,   \* what waiters are told of an operation, "none" before its admission
    lanes,
    bodies    \* the operations that are at work

vars == <<open, report, lanes, bodies>>

Outcomes == {"Completed", "NotDispatched", "Unknown"}

Meet(a, b) == Browser \in a \cup b \/ a \cap b # {}

Init ==
    /\ open = TRUE
    /\ report = [s \in Tasks |-> "none"]
    /\ lanes = [s \in Tasks |-> {}]
    /\ bodies = {}

Admit(s) ==
    /\ open
    /\ report[s] = "none"
    /\ \A t \in Tasks : t < s => report[t] # "none"
    /\ report' = [report EXCEPT ![s] = "Queued"]
    /\ \E laneSet \in LaneSets : lanes' = [lanes EXCEPT ![s] = laneSet]
    /\ UNCHANGED <<open, bodies>>

\* Whatever was admitted before on one of the lanes is over, and at work no more.
Begin(s) ==
    /\ open
    /\ report[s] = "Queued"
    /\ \A t \in Tasks :
           t < s /\ Meet(lanes[t], lanes[s]) => report[t] \in Outcomes /\ t \notin bodies
    /\ report' = [report EXCEPT ![s] = "Running"]
    /\ bodies' = bodies \cup {s}
    /\ UNCHANGED <<open, lanes>>

\* What was reported at the closing stays, though the body ends later.
End(s) ==
    /\ s \in bodies
    /\ bodies' = bodies \ {s}
    /\ \E outcome \in Outcomes :
           report' = [report EXCEPT ![s] = IF @ = "Running" THEN outcome ELSE @]
    /\ UNCHANGED <<open, lanes>>

GiveUp(s) ==
    /\ report[s] = "Queued"
    /\ report' = [report EXCEPT ![s] = "NotDispatched"]
    /\ UNCHANGED <<open, lanes, bodies>>

Close ==
    /\ open
    /\ open' = FALSE
    /\ report' = [s \in Tasks |-> CASE report[s] = "Queued"  -> "NotDispatched"
                                    [] report[s] = "Running" -> "Unknown"
                                    [] OTHER                 -> report[s]]
    /\ UNCHANGED <<lanes, bodies>>

Next ==
    \/ \E s \in Tasks : Admit(s) \/ Begin(s) \/ End(s) \/ GiveUp(s)
    \/ Close

Spec == Init /\ [][Next]_vars
=============================================================================
