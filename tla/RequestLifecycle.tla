-------------------------- MODULE RequestLifecycle --------------------------
(***************************************************************************)
(* The broker's table of browser requests (native/src/request_lifecycle.rs).*)
(* Every operation of the table runs under one mutex, so each is one        *)
(* atomic step; Broker.tla takes them from several tasks.                   *)
(*                                                                         *)
(* A request ID is a fresh UUID, so the module identifies a request with    *)
(* its ID and registers it once.  The HashMaps are total functions in which *)
(* Absent and NoRecord stand for a missing key.                             *)
(***************************************************************************)
EXTENDS Naturals, Sequences, FiniteSets

CONSTANTS Requests,               \* the calls ever made of BrowserRequestHandle
          MAX_TERMINAL_REQUESTS   \* how many terminal records are retained

ASSUME LifecycleAssumption ==
    /\ IsFiniteSet(Requests)
    /\ MAX_TERMINAL_REQUESTS \in Nat \ {0}

VARIABLES
    active,          \* phase of each active record, or Absent
    terminal,        \* terminal record of each request, or NoRecord
    terminal_order,  \* the terminal IDs, oldest first
    response         \* the oneshot channel whose sender an active record holds

lifecycle == <<active, terminal, terminal_order, response>>

Absent == "Absent"
Phases == {"Queued", "Dispatching", "Dispatched"}
TerminalStates == {"Responded", "TimedOut", "AbandonedWaiter"}
NoRecord == [phase |-> Absent, state |-> Absent]
TerminalRecords == [phase : Phases, state : TerminalStates]

\* A oneshot channel: not made yet, sender alive, value sent, sender dropped.
ChannelStates == {"unborn", "open", "sent", "closed"}

LifecycleTypeOK ==
    /\ active \in [Requests -> Phases \cup {Absent}]
    /\ terminal \in [Requests -> TerminalRecords \cup {NoRecord}]
    /\ terminal_order \in Seq(Requests)
    /\ response \in [Requests -> ChannelStates]

LifecycleInit ==
    /\ active = [r \in Requests |-> Absent]
    /\ terminal = [r \in Requests |-> NoRecord]
    /\ terminal_order = <<>>
    /\ response = [r \in Requests |-> "unborn"]

ActiveIds == {r \in Requests : active[r] # Absent}
TerminalIds == {r \in Requests : terminal[r] # NoRecord}

-----------------------------------------------------------------------------
(* Plausible bugs in the operations below, used only to show that the       *)
(* properties can tell them apart from the code.                            *)

\* The while loop of insert_terminal forgets to drop the evicted record.
InsertTerminalKeepingRecord(r, record) ==
    LET filled == [terminal EXCEPT ![r] = record]
        order  == Append(terminal_order, r)
    IN  /\ terminal' = filled
        /\ terminal_order' =
             IF Cardinality({q \in Requests : filled[q] # NoRecord}) > MAX_TERMINAL_REQUESTS
             THEN Tail(order) ELSE order

\* begin_dispatch looks the ID up in the retained records as well.
ClaimableEvenIfTerminal(r) ==
    \/ active[r] = "Queued"
    \/ terminal[r].phase = "Queued"

\* mark_dispatched forgets that the answer may have overtaken it.
MarkActiveOnly(r) ==
    /\ active' = [active EXCEPT ![r] = IF @ = "Dispatching" THEN "Dispatched" ELSE @]
    /\ UNCHANGED <<terminal, terminal_order, response>>

\* clear leaves the active records, and so their senders, in place.
ClearTerminalOnly ==
    /\ terminal' = [r \in Requests |-> NoRecord]
    /\ terminal_order' = <<>>
    /\ UNCHANGED <<active, response>>
-----------------------------------------------------------------------------
(* Operations.                                                              *)

Register(r) ==
    /\ active' = [active EXCEPT ![r] = "Queued"]
    /\ response' = [response EXCEPT ![r] = "open"]
    /\ UNCHANGED <<terminal, terminal_order>>

\* begin_dispatch returns true exactly for an active, still queued record.
Claimable(r) == active[r] = "Queued"

BeginDispatch(r) ==
    /\ active' = [active EXCEPT ![r] = "Dispatching"]
    /\ UNCHANGED <<terminal, terminal_order, response>>

\* Only a Dispatching record advances; the terminal copy is tried second.
MarkDispatched(r) ==
    /\ active' = [active EXCEPT ![r] = IF @ = "Dispatching" THEN "Dispatched" ELSE @]
    /\ terminal' = [terminal EXCEPT ![r].phase =
                      IF active[r] # "Dispatching" /\ @ = "Dispatching"
                      THEN "Dispatched" ELSE @]
    /\ UNCHANGED <<terminal_order, response>>

\* The while loop runs at most once: TerminalBounded holds before each call.
InsertTerminal(r, record) ==
    LET filled == [terminal EXCEPT ![r] = record]
        order  == Append(terminal_order, r)
    IN  IF Cardinality({q \in Requests : filled[q] # NoRecord}) > MAX_TERMINAL_REQUESTS
        THEN /\ terminal' = [filled EXCEPT ![Head(order)] = NoRecord]
             /\ terminal_order' = Tail(order)
        ELSE /\ terminal' = filled
             /\ terminal_order' = order

\* Moves an active record to the terminal table.
Retire(r, state) ==
    /\ InsertTerminal(r, [phase |-> active[r], state |-> state])
    /\ active' = [active EXCEPT ![r] = Absent]

\* The sender leaves the table with the matched response: the channel stays
\* open until the reader uses or drops it.  Without an active record the
\* table is unchanged.
TakeResponse(r) ==
    /\ IF active[r] # Absent THEN Retire(r, "Responded")
                             ELSE UNCHANGED <<active, terminal, terminal_order>>
    /\ UNCHANGED response

\* The waiter's side gives up; the sender is dropped with the record.
Finish(r, state) ==
    IF active[r] # Absent
    THEN /\ Retire(r, state)
         /\ response' = [response EXCEPT ![r] = "closed"]
    ELSE UNCHANGED lifecycle

\* All records go, and with the active ones their senders.
Clear ==
    /\ active' = [r \in Requests |-> Absent]
    /\ terminal' = [r \in Requests |-> NoRecord]
    /\ terminal_order' = <<>>
    /\ response' = [r \in Requests |-> IF active[r] # Absent THEN "closed" ELSE response[r]]
-----------------------------------------------------------------------------
(* The two maps never share an ID, and terminal_order lists exactly the IDs *)
(* of terminal, once each (request_lifecycle.rs:37-43): otherwise eviction  *)
(* would drop nothing, loop, or drop a record that is still wanted.         *)
RecordsDisjoint == \A r \in Requests : active[r] # Absent => terminal[r] = NoRecord

OrderEnumeratesTerminal ==
    /\ \A i, j \in 1..Len(terminal_order) :
          terminal_order[i] = terminal_order[j] => i = j
    /\ \A r \in Requests :
          terminal[r] # NoRecord <=> \E i \in 1..Len(terminal_order) : terminal_order[i] = r

TerminalBounded == Cardinality(TerminalIds) <= MAX_TERMINAL_REQUESTS

LifecycleConsistent == RecordsDisjoint /\ OrderEnumeratesTerminal /\ TerminalBounded
=============================================================================
