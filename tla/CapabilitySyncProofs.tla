------------------------- MODULE CapabilitySyncProofs ------------------------
(***************************************************************************)
(* A theorem about CapabilitySync, for any number of connections, changes and *)
(* requests: the states of a connection arrive once and in order, and no      *)
(* snapshot overtakes its state.                                             *)
(***************************************************************************)
EXTENDS CapabilitySync, TLAPS

USE SyncAssumption

-----------------------------------------------------------------------------
(* Sequences *)

LEMMA Appended ==
    ASSUME NEW S, NEW q \in Seq(S), NEW m \in S
    PROVE  /\ Append(q, m) \in Seq(S)
           /\ DOMAIN Append(q, m) = 1..Len(q) + 1 /\ DOMAIN q = 1..Len(q) /\ Len(q) \in Nat
           /\ Append(q, m)[Len(q) + 1] = m
           /\ \A i \in 1..Len(q) : Append(q, m)[i] = q[i] /\ q[i] \in S
  OBVIOUS

LEMMA Rest ==
    ASSUME NEW S, NEW q \in Seq(S), q # <<>>
    PROVE  /\ Tail(q) \in Seq(S) /\ Head(q) = q[1] /\ Head(q) \in S
           /\ DOMAIN q = 1..Len(q) /\ Len(q) \in Nat \ {0}
           /\ DOMAIN Tail(q) = 1..Len(q) - 1 /\ Len(Tail(q)) = Len(q) - 1
           /\ \A i \in 1..Len(q) : q[i] \in S
           /\ \A i \in 1..Len(q) - 1 : Tail(q)[i] = q[i + 1]
  OBVIOUS

-----------------------------------------------------------------------------
(* Steps that touch neither the connection nor its messages *)

LEMMA QuietStep ==
    ASSUME IInv, TypeOK', RequestsHold', UNCHANGED <<connection, brokerReady, lastPublished, wires>>,
           \/ publisher' = publisher
           \/ publisher'.at # "instance" /\ publisher'.port <= ports
           \/ PublisherIsAhead',
           \A port \in 1..MaxPorts :
               /\ ready'[port].at = "done" <=> ready[port].at = "done"
               /\ ready'[port].at = "post" => ready'[port].state # 0
    PROVE  IInv'
  <1>1. UNCHANGED <<nativePort, ports, brokerReady, lastPublished, toBroker, toExtension, broker>>
    BY DEF connection, wires
  <1>2. StatesInOrder'
    BY <1>1 DEF IInv, StatesInOrder, PublishedInOrder, SnapshotAfterItsState, IsState
  <1>3. nativePort # 0 => nativePort \in 1..MaxPorts
    BY DEF IInv, StatesInOrder, TypeOK
  <1>4. SilentUntilReady'
    BY <1>1, <1>3 DEF IInv, SilentUntilReady
  <1>5. LastIsUnderway'
    BY <1>1, <1>3 DEF IInv, LastIsUnderway, IsState
  <1>6. PublisherIsAhead'
    BY <1>1 DEF IInv, PublisherIsAhead
  <1>7. QED BY <1>2, <1>4, <1>5, <1>6 DEF IInv

\* What a request is to the invariant, whatever becomes of its promise.
SameRequests(now, then) ==
    \A q \in Requests :
        /\ then[q].port = now[q].port /\ then[q].capture = now[q].capture
        /\ then[q].state = now[q].state
        /\ then[q].at = now[q].at \/ (now[q].at = "publication" /\ then[q].at = "replaced")

LEMMA ReplacedSame ==
    ASSUME NEW now \in [Requests -> RequestRecords]
    PROVE  Replaced(now) \in [Requests -> RequestRecords] /\ SameRequests(now, Replaced(now))
  <1>1. \A q \in Requests : now[q] \in RequestRecords
    OBVIOUS
  <1>2. ASSUME NEW q \in Requests
        PROVE  /\ Replaced(now)[q] \in RequestRecords
               /\ Replaced(now)[q].port = now[q].port /\ Replaced(now)[q].capture = now[q].capture
               /\ Replaced(now)[q].state = now[q].state
               /\ \/ Replaced(now)[q].at = now[q].at
                  \/ now[q].at = "publication" /\ Replaced(now)[q].at = "replaced"
    <2>1. Replaced(now)[q] = IF now[q].at = "publication" THEN [now[q] EXCEPT !.at = "replaced"]
                             ELSE now[q]
      BY DEF Replaced
    <2>2. QED BY <1>1, <2>1 DEF RequestRecords
  <1>3. QED BY <1>2 DEF Replaced, SameRequests

LEMMA SchedulingIsQuiet ==
    LET scheduled == [Idle EXCEPT !.at = "scheduled"]
    IN scheduled \in PublisherRecords /\ scheduled.at = "scheduled" /\ scheduled.port = 0
  BY DEF Idle, PublisherRecords

\* queueCapabilityPublication schedules the publisher, if it does anything.
LEMMA QueueStep ==
    ASSUME TypeOK, NEW state \in 0..MaxFacts, NEW now \in [Requests -> RequestRecords], Queue(state, now)
    PROVE  /\ pending' \in 0..MaxFacts
           /\ publisher' \in PublisherRecords
           /\ publisher' = publisher \/ (publisher'.at # "instance" /\ publisher'.port <= ports)
           /\ requests' \in [Requests -> RequestRecords] /\ SameRequests(now, requests')
  <1>1. pending' \in 0..MaxFacts
    BY DEF Queue, Newer, TypeOK
  <1>2. SameRequests(now, now)
    BY DEF SameRequests
  <1>3. 0 <= ports
    BY DEF TypeOK
  <1>4. CASE brokerReady /\ publisher.at = "idle"
    <2>1. publisher' = [Idle EXCEPT !.at = "scheduled"] /\ requests' = Replaced(now)
      BY <1>4 DEF Queue
    <2>2. publisher' \in PublisherRecords /\ publisher'.at = "scheduled" /\ publisher'.port = 0
      BY <2>1, SchedulingIsQuiet
    <2>3. QED BY <1>1, <1>3, <2>1, <2>2, ReplacedSame
  <1>5. CASE ~(brokerReady /\ publisher.at = "idle")
    <2>1. publisher' = publisher /\ requests' = now
      BY <1>5 DEF Queue
    <2>2. 0 \in 0..ports /\ 0 \in 0..MaxFacts
      BY <1>1 DEF TypeOK
    <2>3. QED BY <1>1, <1>2, <2>1, <2>2, Zenon DEF TypeOK
  <1>6. QED BY <1>4, <1>5

\* Requests that stay the same hold what they held.
LEMMA SameRequestsHold ==
    ASSUME TypeOK, RequestsHold, SameRequests(requests, requests'),
           UNCHANGED <<facts, nativePort, ports, brokerReady>>
    PROVE  RequestsHold'
  BY DEF RequestsHold, SameRequests

LEMMA ReconcileKeeps == ASSUME IInv, Reconcile PROVE IInv'
  <1>1. TypeOK /\ facts \in 0..MaxFacts /\ RequestsHold
    BY DEF IInv, StatesInOrder, TypeOK, Revisions
  <1>2. Queue(facts, requests) /\ requests \in [Requests -> RequestRecords]
    BY <1>1 DEF Reconcile, TypeOK
  <1>3. /\ pending' \in 0..MaxFacts
        /\ publisher' \in PublisherRecords
        /\ publisher' = publisher \/ (publisher'.at # "instance" /\ publisher'.port <= ports)
        /\ requests' \in [Requests -> RequestRecords] /\ SameRequests(requests, requests')
    BY <1>1, <1>2, QueueStep
  <1>4. TypeOK'
    BY <1>1, <1>3 DEF Reconcile, TypeOK, connection, tasks, wires
  <1>5. RequestsHold'
    BY <1>1, <1>3, SameRequestsHold DEF Reconcile, connection
  <1>6. QED BY <1>3, <1>4, <1>5, QuietStep DEF Reconcile, tasks, IInv, SilentUntilReady

LEMMA AckTaskKeeps == ASSUME IInv, AckTask PROVE IInv'
  <1>1. TypeOK /\ RequestsHold
    BY DEF IInv, StatesInOrder
  <1>2. CASE AckState
    <2>1. ackState' \in [at : {"none", "asked", "got"}, state : 0..MaxFacts]
      BY <1>1, <1>2 DEF AckState, TypeOK, Revisions
    <2>2. TypeOK'
      BY <1>1, <1>2, <2>1 DEF AckState, TypeOK, connection, sources, wires
    <2>3. RequestsHold'
      BY <1>1, <1>2 DEF AckState, RequestsHold, connection, sources
    <2>4. QED BY <1>2, <2>2, <2>3, QuietStep DEF AckState, IInv, SilentUntilReady
  <1>3. CASE AckQueue
    <2>1. ackState.state \in 0..MaxFacts /\ requests \in [Requests -> RequestRecords]
      BY <1>1 DEF TypeOK
    <2>2. /\ pending' \in 0..MaxFacts
          /\ publisher' \in PublisherRecords
          /\ publisher' = publisher \/ (publisher'.at # "instance" /\ publisher'.port <= ports)
          /\ requests' \in [Requests -> RequestRecords] /\ SameRequests(requests, requests')
      <3>1. CASE Queue(ackState.state, requests)
        BY <1>1, <2>1, <3>1, QueueStep
      <3>2. CASE UNCHANGED <<pending, publisher, requests>>
        BY <1>1, <3>2 DEF TypeOK, SameRequests
      <3>3. QED BY <1>3, <3>1, <3>2 DEF AckQueue
    <2>3. ackState' \in [at : {"none", "asked", "got"}, state : 0..MaxFacts]
      BY <1>3 DEF AckQueue
    <2>4. TypeOK'
      BY <1>1, <1>3, <2>2, <2>3 DEF AckQueue, TypeOK, connection, sources, wires
    <2>5. RequestsHold'
      BY <1>1, <1>3, <2>2, SameRequestsHold DEF AckQueue, connection, sources
    <2>6. QED BY <1>3, <2>2, <2>4, <2>5, QuietStep DEF AckQueue, IInv, SilentUntilReady
  <1>4. QED BY <1>2, <1>3 DEF AckTask

LEMMA SourceChangedKeeps == ASSUME IInv, SourceChanged PROVE IInv'
  <1>1. TypeOK /\ RequestsHold /\ facts' \in Revisions /\ facts \in Int
    BY DEF IInv, StatesInOrder, TypeOK, SourceChanged, Revisions
  <1>2. TypeOK'
    BY <1>1 DEF SourceChanged, TypeOK, connection, tasks, wires
  <1>3. RequestsHold'
    <2>1. \A q \in Requests : requests[q].capture \in 1..facts => requests[q].capture \in 1..facts + 1
      BY <1>1
    <2>2. QED BY <1>1, <2>1 DEF SourceChanged, RequestsHold, connection
  <1>4. QED BY <1>2, <1>3, QuietStep DEF SourceChanged, tasks, IInv, SilentUntilReady

LEMMA ReadyStateKeeps == ASSUME IInv, NEW port \in 1..MaxPorts, ReadyState(port) PROVE IInv'
  <1>1. TypeOK /\ revision \in 0..MaxFacts /\ revision # 0
    BY DEF IInv, StatesInOrder, TypeOK, Revisions
  <1>2. /\ ready' \in [1..MaxPorts -> ReadyRecords]
        /\ ready'[port].at = "post" /\ ready'[port].state = revision /\ ready[port].at # "done"
        /\ \A p \in 1..MaxPorts : p # port => ready'[p] = ready[p]
    BY <1>1 DEF ReadyState, TypeOK, ReadyRecords
  <1>3. TypeOK'
    BY <1>1, <1>2 DEF ReadyState, TypeOK, connection, sources, wires
  <1>4. RequestsHold'
    BY DEF ReadyState, IInv, RequestsHold, connection, sources
  <1>5. \A p \in 1..MaxPorts : /\ ready'[p].at = "done" <=> ready[p].at = "done"
                               /\ ready'[p].at = "post" => ready'[p].state # 0
    BY <1>1, <1>2 DEF IInv, SilentUntilReady
  <1>6. QED BY <1>3, <1>4, <1>5, QuietStep DEF ReadyState

\* One request moves on, and the others stay.
LEMMA RequestMoves ==
    ASSUME IInv, NEW r \in Requests, requests' \in [Requests -> RequestRecords],
           \A q \in Requests \ {r} : requests'[q] = requests[q],
           requests'[r].port = requests[r].port,
           requests[r].at \notin {"none", "done"},
           requests'[r].at \in {"state", "queue", "loop", "publication", "replaced"} =>
               requests'[r].capture \in 1..facts',
           requests'[r].at \in {"queue", "loop", "publication", "replaced"} =>
               requests'[r].capture <= requests'[r].state,
           facts' \in Revisions, facts <= facts',
           UNCHANGED <<revision, connection, brokerReady, lastPublished, pending, publisher, tasks, wires>>
    PROVE  IInv'
  <1>1. TypeOK /\ RequestsHold
    BY DEF IInv, StatesInOrder
  <1>2. TypeOK'
    BY <1>1 DEF TypeOK, connection, tasks, wires
  <1>3. \A q \in Requests : requests[q].capture \in 1..facts => requests[q].capture \in 1..facts'
    BY <1>1 DEF TypeOK, Revisions
  <1>4. UNCHANGED <<nativePort, ports, brokerReady>>
    BY DEF connection
  <1>5. RequestsHold'
    <2>1. SUFFICES ASSUME NEW q \in Requests
                   PROVE  /\ requests'[q].port <= ports
                          /\ requests'[q].at \notin {"none", "done"} =>
                                 requests'[q].port # 0
                                 /\ (requests'[q].port = nativePort => brokerReady)
                          /\ requests'[q].at \in {"state", "queue", "loop", "publication", "replaced"} =>
                                 requests'[q].capture \in 1..facts'
                          /\ requests'[q].at \in {"queue", "loop", "publication", "replaced"} =>
                                 requests'[q].capture <= requests'[q].state
      BY <1>4 DEF RequestsHold
    <2>2. CASE q = r
      BY <1>1, <2>2 DEF RequestsHold
    <2>3. CASE q # r
      BY <1>1, <1>3, <2>3 DEF RequestsHold
    <2>4. QED BY <2>2, <2>3
  <1>6. QED BY <1>2, <1>5, QuietStep DEF tasks, IInv, SilentUntilReady

LEMMA CaptureKeeps == ASSUME IInv, NEW r \in Requests, Capture(r) PROVE IInv'
  <1>1. TypeOK
    BY DEF IInv, StatesInOrder
  <1>2. facts' \in Revisions /\ facts <= facts' /\ facts' \in 0..MaxFacts /\ facts' \in 1..facts'
    BY <1>1 DEF Capture, TypeOK, Revisions
  <1>3. /\ requests' \in [Requests -> RequestRecords]
        /\ \A q \in Requests \ {r} : requests'[q] = requests[q]
        /\ requests'[r].port = requests[r].port /\ requests'[r].at = "state"
        /\ requests'[r].capture = facts'
    BY <1>1, <1>2 DEF Capture, TypeOK, RequestRecords
  <1>4. QED BY <1>2, <1>3, RequestMoves DEF Capture, At

LEMMA SyncStateKeeps == ASSUME IInv, NEW r \in Requests, SyncState(r) PROVE IInv'
  <1>1. TypeOK /\ RequestsHold
    BY DEF IInv, StatesInOrder
  <1>2. revision \in 0..MaxFacts /\ revision = facts /\ facts \in Revisions /\ facts \in Int
    BY <1>1 DEF SyncState, WhenIdle, TypeOK, Revisions
  <1>3. /\ requests' \in [Requests -> RequestRecords]
        /\ \A q \in Requests \ {r} : requests'[q] = requests[q]
        /\ requests'[r].port = requests[r].port /\ requests'[r].at = "queue"
        /\ requests'[r].capture = requests[r].capture /\ requests'[r].state = revision
    BY <1>1, <1>2 DEF SyncState, TypeOK, RequestRecords
  <1>4. requests[r].capture \in 1..facts /\ requests[r].at = "state"
    BY <1>1 DEF SyncState, At, RequestsHold
  <1>5. facts' = facts /\ revision' = revision
    BY DEF SyncState, sources
  <1>6. QED BY <1>2, <1>3, <1>4, <1>5, RequestMoves DEF SyncState

LEMMA SyncAwaitKeeps == ASSUME IInv, NEW r \in Requests, SyncAwait(r) PROVE IInv'
  <1>1. TypeOK /\ RequestsHold /\ facts \in Revisions /\ facts \in Int
    BY DEF IInv, StatesInOrder, TypeOK, Revisions
  <1>2. /\ requests' \in [Requests -> RequestRecords]
        /\ \A q \in Requests \ {r} : requests'[q] = requests[q]
        /\ requests'[r].port = requests[r].port /\ requests'[r].at = "publication"
        /\ requests'[r].capture = requests[r].capture /\ requests'[r].state = requests[r].state
    BY <1>1 DEF SyncAwait, RequestStep, TypeOK, RequestRecords
  <1>3. requests[r].at = "loop" /\ requests[r].capture \in 1..facts
        /\ requests[r].capture <= requests[r].state
    BY <1>1 DEF SyncAwait, At, RequestsHold
  <1>4. facts' = facts /\ revision' = revision
    BY DEF SyncAwait, RequestStep, sources
  <1>5. QED BY <1>1, <1>2, <1>3, <1>4, RequestMoves DEF SyncAwait, RequestStep

LEMMA TimeOutKeeps == ASSUME IInv, NEW r \in Requests, TimeOut(r) PROVE IInv'
  <1>1. TypeOK /\ RequestsHold /\ facts \in Revisions /\ facts \in Int
    BY DEF IInv, StatesInOrder, TypeOK, Revisions
  <1>2. /\ requests' \in [Requests -> RequestRecords]
        /\ \A q \in Requests \ {r} : requests'[q] = requests[q]
        /\ requests'[r].port = requests[r].port /\ requests'[r].at = requests[r].at
        /\ requests'[r].capture = requests[r].capture /\ requests'[r].state = requests[r].state
    BY <1>1 DEF TimeOut, TypeOK, RequestRecords
  <1>3. facts' = facts /\ revision' = revision
    BY DEF TimeOut, sources
  <1>4. /\ requests'[r].at \in {"state", "queue", "loop", "publication", "replaced"} =>
               requests'[r].capture \in 1..facts
        /\ requests'[r].at \in {"queue", "loop", "publication", "replaced"} =>
               requests'[r].capture <= requests'[r].state
    BY <1>1, <1>2 DEF RequestsHold
  <1>5. requests[r].at \notin {"none", "done"} /\ facts' \in Revisions /\ facts <= facts'
        /\ UNCHANGED <<revision, connection, brokerReady, lastPublished, pending, publisher, tasks, wires>>
    BY <1>1, <1>3 DEF TimeOut
  <1>6. QED BY <1>2, <1>3, <1>4, <1>5, RequestMoves

LEMMA LoopAgainKeeps == ASSUME IInv, NEW r \in Requests, SyncQueue(r) \/ SyncResume(r) PROVE IInv'
  <1> DEFINE now == [requests EXCEPT ![r].at = "loop"]
  <1>1. TypeOK /\ RequestsHold
    BY DEF IInv, StatesInOrder
  <1>2. requests[r].at \in {"queue", "publication", "replaced"}
    BY DEF SyncQueue, SyncResume, At
  <1>3. requests \in [Requests -> RequestRecords] /\ requests[r].state \in 0..MaxFacts
    BY <1>1 DEF TypeOK, RequestRecords
  <1>4. /\ now \in [Requests -> RequestRecords]
        /\ \A q \in Requests \ {r} : now[q] = requests[q]
        /\ now[r].port = requests[r].port /\ now[r].at = "loop"
        /\ now[r].capture = requests[r].capture /\ now[r].state = requests[r].state
    BY <1>3 DEF RequestRecords
  <1>5. \/ Queue(requests[r].state, now)
        \/ requests' = now /\ UNCHANGED <<pending, publisher>>
    BY DEF SyncQueue, SyncResume
  <1> HIDE DEF now
  <1>6. /\ pending' \in 0..MaxFacts
        /\ publisher' \in PublisherRecords
        /\ publisher' = publisher \/ (publisher'.at # "instance" /\ publisher'.port <= ports)
        /\ requests' \in [Requests -> RequestRecords] /\ SameRequests(now, requests')
    <2>1. CASE Queue(requests[r].state, now)
      BY <1>1, <1>3, <1>4, <2>1, QueueStep
    <2>2. CASE requests' = now /\ UNCHANGED <<pending, publisher>>
      BY <1>1, <1>4, <2>2 DEF TypeOK, SameRequests
    <2>3. QED BY <1>5, <2>1, <2>2
  <1>7. UNCHANGED <<facts, revision, nativePort, ports, readyRevision, brokerReady, lastPublished,
                    ready, ackState, toBroker, toExtension, broker>>
    BY DEF SyncQueue, SyncResume, sources, connection, tasks, wires
  <1>8. TypeOK'
    BY <1>1, <1>6, <1>7 DEF TypeOK
  <1>9. RequestsHold'
    <2>1. SUFFICES ASSUME NEW q \in Requests
                   PROVE  /\ requests'[q].port <= ports
                          /\ requests'[q].at \notin {"none", "done"} =>
                                 requests'[q].port # 0
                                 /\ (requests'[q].port = nativePort => brokerReady)
                          /\ requests'[q].at \in {"state", "queue", "loop", "publication", "replaced"} =>
                                 requests'[q].capture \in 1..facts
                          /\ requests'[q].at \in {"queue", "loop", "publication", "replaced"} =>
                                 requests'[q].capture <= requests'[q].state
      BY <1>7 DEF RequestsHold
    <2>2. /\ requests'[q].port = now[q].port /\ requests'[q].capture = now[q].capture
          /\ requests'[q].state = now[q].state
          /\ requests'[q].at = now[q].at \/ (now[q].at = "publication" /\ requests'[q].at = "replaced")
      BY <1>6 DEF SameRequests
    <2>3. CASE q = r
      BY <1>1, <1>2, <1>4, <2>2, <2>3 DEF RequestsHold
    <2>4. CASE q # r
      BY <1>1, <1>4, <2>2, <2>4 DEF RequestsHold
    <2>5. QED BY <2>3, <2>4
  <1>10. QED BY <1>6, <1>7, <1>8, <1>9, QuietStep DEF connection, wires, IInv, SilentUntilReady

-----------------------------------------------------------------------------
(* The publisher *)

\* Where publishCapabilitiesChanged goes on, given what it has published.
LEMMA PublishFromStep ==
    ASSUME TypeOK, NEW published \in 0..MaxFacts, PublishFrom(published)
    PROVE  /\ publisher' \in PublisherRecords /\ pending' \in 0..MaxFacts
           /\ \/ publisher'.at # "instance" /\ publisher'.port = 0
              \/ /\ brokerReady /\ publisher'.port = nativePort /\ nativePort # 0
                 /\ publisher'.state > published
  <1>1. CASE pending > published /\ brokerReady
    <2>1. publisher' = [at |-> "instance", port |-> nativePort, state |-> pending] /\ pending' = 0
      BY <1>1 DEF PublishFrom
    <2>2. nativePort \in 0..MaxPorts /\ nativePort # 0 /\ pending \in 0..MaxFacts
      BY <1>1 DEF TypeOK
    <2>3. QED BY <1>1, <2>1, <2>2 DEF PublisherRecords
  <1>2. CASE ~(pending > published /\ brokerReady)
    <2>1. publisher' = [Idle EXCEPT !.at = "finally"] /\ pending' \in {pending, 0}
      BY <1>2 DEF PublishFrom
    <2>2. pending' \in 0..MaxFacts
      BY <2>1 DEF TypeOK
    <2>3. publisher' \in PublisherRecords /\ publisher'.at # "instance" /\ publisher'.port = 0
      BY <2>1 DEF Idle, PublisherRecords
    <2>4. QED BY <2>2, <2>3
  <1>3. QED BY <1>1, <1>2

LEMMA PublishStartKeeps == ASSUME IInv, PublishStart PROVE IInv'
  <1>1. TypeOK /\ RequestsHold /\ lastPublished \in 0..MaxFacts /\ ports \in Nat /\ nativePort <= ports
    BY DEF IInv, StatesInOrder, TypeOK
  <1>2. UNCHANGED <<facts, revision, nativePort, ports, readyRevision, brokerReady, lastPublished,
                    ready, ackState, requests, toBroker, toExtension, broker>>
    BY DEF PublishStart, sources, connection, tasks, wires
  <1>3. /\ publisher' \in PublisherRecords /\ pending' \in 0..MaxFacts
        /\ \/ publisher'.at # "instance" /\ publisher'.port = 0
           \/ /\ brokerReady /\ publisher'.port = nativePort /\ nativePort # 0
              /\ publisher'.state > lastPublished
    BY <1>1, PublishFromStep DEF PublishStart
  <1>4. TypeOK'
    BY <1>1, <1>2, <1>3 DEF TypeOK
  <1>5. RequestsHold'
    BY <1>1, <1>2 DEF RequestsHold
  <1>6. PublisherIsAhead'
    BY <1>1, <1>2, <1>3 DEF PublisherIsAhead
  <1>7. QED BY <1>2, <1>4, <1>5, <1>6, QuietStep DEF connection, wires, IInv, SilentUntilReady

LEMMA PublishEndKeeps == ASSUME IInv, PublishEnd PROVE IInv'
  <1>1. TypeOK /\ RequestsHold /\ 0 <= ports /\ requests \in [Requests -> RequestRecords]
    BY DEF IInv, StatesInOrder, TypeOK
  <1>2. UNCHANGED <<facts, revision, nativePort, ports, readyRevision, brokerReady, lastPublished,
                    pending, ready, ackState, toBroker, toExtension, broker>>
    BY DEF PublishEnd, sources, connection, tasks, wires
  <1>3. /\ publisher' \in PublisherRecords /\ publisher'.at # "instance" /\ publisher'.port = 0
        /\ requests' \in [Requests -> RequestRecords] /\ SameRequests(requests, requests')
    <2>1. CASE publisher' = [Idle EXCEPT !.at = "scheduled"] /\ requests' = Replaced(requests)
      BY <1>1, <2>1, SchedulingIsQuiet, ReplacedSame
    <2>2. CASE publisher' = Idle /\ UNCHANGED requests
      BY <1>1, <2>2 DEF Idle, PublisherRecords, SameRequests
    <2>3. QED BY <2>1, <2>2 DEF PublishEnd
  <1>4. TypeOK'
    BY <1>1, <1>2, <1>3 DEF TypeOK
  <1>5. RequestsHold'
    BY <1>1, <1>2, <1>3, SameRequestsHold
  <1>6. QED BY <1>1, <1>2, <1>3, <1>4, <1>5, QuietStep DEF connection, wires, IInv, SilentUntilReady

\* A broker that is ready has had its ready, and so has its port.
LEMMA ReadyPort ==
    ASSUME IInv, brokerReady
    PROVE  nativePort \in 1..MaxPorts /\ broker # 0 /\ ready[nativePort].at = "done"
  BY DEF IInv, StatesInOrder, TypeOK, SilentUntilReady

LEMMA PublishKeeps == ASSUME IInv, Publish PROVE IInv'
  <1>1. /\ TypeOK /\ RequestsHold /\ 0 <= ports /\ publisher \in PublisherRecords
        /\ publisher.at = "instance"
    BY DEF IInv, StatesInOrder, TypeOK, Publish
  <1>2. UNCHANGED <<facts, revision, nativePort, ports, readyRevision, brokerReady, ready, ackState,
                    requests, toExtension, broker>>
    BY DEF Publish, sources, connection, tasks
  <1>3. RequestsHold'
    BY <1>1, <1>2 DEF RequestsHold
  <1>4. CASE nativePort = publisher.port /\ brokerReady
    <2> DEFINE m == [type |-> "capabilities_changed", revision |-> publisher.state, port |-> nativePort]
               n == Len(toBroker)
    <2>1. nativePort \in 1..MaxPorts /\ broker # 0 /\ ready[nativePort].at = "done"
      BY <1>4, ReadyPort
    <2>2. publisher.state > lastPublished /\ publisher.state \in 0..MaxFacts /\ lastPublished \in 0..MaxFacts
      BY <1>1, <1>4 DEF IInv, PublisherIsAhead, PublisherRecords, TypeOK
    <2>3. toBroker' = Append(toBroker, m) /\ lastPublished' = publisher.state /\ PublishFrom(publisher.state)
      BY <1>4 DEF Publish
    <2>4. m \in Messages /\ m.type = "capabilities_changed" /\ m.revision = publisher.state
          /\ m.port = nativePort
      BY <2>1, <2>2 DEF Messages, Revisions
    <2> HIDE DEF m
    <2>5. /\ toBroker' \in Seq(Messages) /\ DOMAIN toBroker' = 1..n + 1
          /\ DOMAIN toBroker = 1..n /\ n \in Nat
          /\ toBroker'[n + 1] = m
          /\ \A i \in 1..n : toBroker'[i] = toBroker[i] /\ toBroker[i] \in Messages
      BY <1>1, <2>3, <2>4, Appended DEF TypeOK
    <2> HIDE DEF n
    <2>6. /\ publisher' \in PublisherRecords /\ pending' \in 0..MaxFacts
          /\ \/ publisher'.at # "instance" /\ publisher'.port = 0
             \/ /\ brokerReady /\ publisher'.port = nativePort /\ nativePort # 0
                /\ publisher'.state > publisher.state
      BY <1>1, <2>2, <2>3, PublishFromStep
    <2>7. TypeOK'
      BY <1>1, <1>2, <2>2, <2>3, <2>5, <2>6 DEF TypeOK
    <2>8. /\ broker <= lastPublished /\ broker \in 0..MaxFacts
          /\ \A i \in 1..n : IsState(i) => toBroker[i].revision <= lastPublished
      <3>1. broker \in 0..MaxFacts /\ nativePort # 0
        BY <1>1, <2>1 DEF TypeOK
      <3>2. QED BY <2>5, <3>1 DEF IInv, LastIsUnderway
    <2>9. \A i \in 1..n : toBroker[i] \in Messages /\ toBroker[i].revision \in 1..MaxFacts
      BY <2>5 DEF Messages, Revisions
    <2>10. PublishedInOrder'
      <3>1. SUFFICES ASSUME NEW i \in 1..n + 1, toBroker'[i].type # "response"
                     PROVE  /\ toBroker'[i].port = nativePort
                            /\ toBroker'[i].revision > broker
                            /\ (toBroker'[i].type = "ready") <=>
                                   (broker = 0 /\ \A j \in 1..i - 1 : toBroker'[j].type = "response")
                            /\ \A j \in 1..i - 1 : toBroker'[j].type # "response" =>
                                   toBroker'[j].revision < toBroker'[i].revision
        BY <1>2, <2>5 DEF PublishedInOrder, IsState
      <3>2. CASE i = n + 1
        <4>1. \A j \in 1..n : toBroker[j].type # "response" => toBroker[j].revision < publisher.state
          BY <2>2, <2>8, <2>9 DEF IsState
        <4>2. QED BY <2>1, <2>2, <2>4, <2>5, <2>8, <3>2, <4>1
      <3>3. CASE i \in 1..n
        BY <2>1, <2>5, <3>1, <3>3 DEF IInv, StatesInOrder, PublishedInOrder, IsState
      <3>4. QED BY <2>5, <3>2, <3>3
    <2>11. SnapshotAfterItsState'
      BY <1>2, <2>4, <2>5 DEF IInv, StatesInOrder, SnapshotAfterItsState, IsState
    <2>12. SilentUntilReady'
      BY <1>2, <2>1 DEF IInv, SilentUntilReady
    <2>13. LastIsUnderway'
      BY <1>2, <2>2, <2>3, <2>4, <2>5, <2>8, <2>9 DEF LastIsUnderway, IsState
    <2>14. PublisherIsAhead'
      BY <1>1, <1>2, <2>1, <2>3, <2>6 DEF IInv, PublisherIsAhead, TypeOK
    <2>15. QED BY <1>3, <2>7, <2>10, <2>11, <2>12, <2>13, <2>14 DEF IInv, StatesInOrder
  <1>5. CASE ~(nativePort = publisher.port /\ brokerReady)
    <2>1. publisher' = [Idle EXCEPT !.at = "finally"] /\ UNCHANGED <<toBroker, lastPublished, pending>>
      BY <1>5 DEF Publish
    <2>2. publisher' \in PublisherRecords /\ publisher'.at # "instance" /\ publisher'.port = 0
      BY <2>1 DEF Idle, PublisherRecords
    <2>3. TypeOK'
      BY <1>1, <1>2, <2>1, <2>2 DEF TypeOK
    <2>4. QED
      BY <1>1, <1>2, <1>3, <2>1, <2>2, <2>3, QuietStep DEF connection, wires, IInv, SilentUntilReady
  <1>6. QED BY <1>4, <1>5

-----------------------------------------------------------------------------
(* The connection *)

LEMMA ConnectKeeps == ASSUME IInv, ConnectBroker PROVE IInv'
  <1>1. TypeOK /\ RequestsHold /\ PublisherIsAhead /\ SilentUntilReady
    BY DEF IInv, StatesInOrder
  <1>2. /\ ports' = ports + 1 /\ nativePort' = ports + 1 /\ brokerReady' = FALSE
        /\ readyRevision' = 0 /\ lastPublished' = 0
        /\ ready' = [ready EXCEPT ![ports + 1] = [at |-> "state", state |-> 0]]
        /\ toBroker' = <<>> /\ toExtension' = <<>> /\ broker' = 0
        /\ UNCHANGED <<facts, revision, pending, publisher, ackState, requests>>
    BY DEF ConnectBroker, sources
  <1>3. ports \in Nat /\ ports + 1 \in 1..MaxPorts
    BY <1>1 DEF ConnectBroker, TypeOK
  <1>4. /\ ready' \in [1..MaxPorts -> ReadyRecords] /\ ready'[ports + 1].at = "state"
        /\ \A port \in 1..MaxPorts : ready'[port].at = "post" => ready'[port].state # 0
    BY <1>1, <1>2, <1>3 DEF TypeOK, ReadyRecords, SilentUntilReady
  <1>5. TypeOK'
    <2>1. toBroker' \in Seq(Messages) /\ toExtension' \in Seq({"ready_ack"} \cup Requests)
      BY <1>2
    <2>2. /\ ports' \in 0..MaxPorts /\ nativePort' \in 0..ports' /\ nativePort' # 0
          /\ 0 \in 0..MaxFacts
      BY <1>2, <1>3
    <2>3. QED BY <1>1, <1>2, <1>4, <2>1, <2>2, Zenon DEF TypeOK
  <1>6. StatesInOrder'
    BY <1>2, <1>5 DEF StatesInOrder, PublishedInOrder, SnapshotAfterItsState
  <1>7. SilentUntilReady'
    BY <1>2, <1>4 DEF SilentUntilReady
  <1>8. LastIsUnderway'
    BY <1>2, <1>4 DEF LastIsUnderway
  <1>9. PublisherIsAhead'
    BY <1>1, <1>2, <1>3 DEF PublisherIsAhead, TypeOK, PublisherRecords
  <1>10. RequestsHold'
    <2>1. \A q \in Requests : requests[q].port \in 0..MaxPorts
      BY <1>1 DEF TypeOK, RequestRecords
    <2>2. QED BY <1>1, <1>2, <1>3, <2>1 DEF RequestsHold
  <1>11. QED BY <1>6, <1>7, <1>8, <1>9, <1>10 DEF IInv

LEMMA DisconnectKeeps == ASSUME IInv, Disconnect PROVE IInv'
  <1>1. TypeOK /\ RequestsHold /\ PublisherIsAhead /\ SilentUntilReady
    BY DEF IInv, StatesInOrder
  <1>2. /\ nativePort' = 0 /\ brokerReady' = FALSE /\ toBroker' = <<>> /\ toExtension' = <<>>
        /\ broker' = 0
        /\ UNCHANGED <<facts, revision, ports, readyRevision, lastPublished, pending, publisher, ready,
                       ackState, requests>>
    BY DEF Disconnect, sources, tasks
  <1>3. TypeOK'
    <2>1. toBroker' \in Seq(Messages) /\ toExtension' \in Seq({"ready_ack"} \cup Requests)
      BY <1>2
    <2>2. 0 \in 0..ports /\ 0 \in 0..MaxFacts
      BY <1>1 DEF TypeOK
    <2>3. QED BY <1>1, <1>2, <2>1, <2>2, Zenon DEF TypeOK
  <1>4. StatesInOrder'
    BY <1>2, <1>3 DEF StatesInOrder, PublishedInOrder, SnapshotAfterItsState
  <1>5. SilentUntilReady' /\ LastIsUnderway'
    BY <1>1, <1>2 DEF SilentUntilReady, LastIsUnderway
  <1>6. PublisherIsAhead'
    BY <1>1, <1>2 DEF PublisherIsAhead
  <1>7. RequestsHold'
    BY <1>1, <1>2 DEF RequestsHold
  <1>8. QED BY <1>4, <1>5, <1>6, <1>7 DEF IInv

LEMMA SendReadyKeeps == ASSUME IInv, NEW port \in 1..MaxPorts, SendReady(port) PROVE IInv'
  <1>1. TypeOK /\ RequestsHold /\ PublisherIsAhead /\ SilentUntilReady /\ StatesInOrder
    BY DEF IInv, StatesInOrder
  <1>2. /\ ready[port].at = "post"
        /\ UNCHANGED <<facts, revision, nativePort, ports, brokerReady, publisher, ackState, requests,
                       toExtension, broker>>
    BY DEF SendReady, sources
  <1>3. /\ ready[port].state \in 1..MaxFacts
        /\ ready' \in [1..MaxPorts -> ReadyRecords]
        /\ ready'[port].at = "done" /\ \A p \in 1..MaxPorts : p # port => ready'[p] = ready[p]
    BY <1>1, <1>2 DEF SendReady, TypeOK, SilentUntilReady, ReadyRecords
  <1>4. RequestsHold'
    BY <1>1, <1>2 DEF RequestsHold
  <1>5. CASE nativePort = port
    <2> DEFINE state == ready[port].state
               m == [type |-> "ready", revision |-> state, port |-> port]
    <2>1. toBroker = <<>> /\ broker = 0 /\ ~brokerReady /\ toExtension = <<>>
      BY <1>1, <1>2, <1>5 DEF SilentUntilReady
    <2>2. /\ readyRevision' = state /\ lastPublished' = state /\ pending' \in {0, pending}
          /\ toBroker' = <<m>>
      BY <1>5, <2>1 DEF SendReady
    <2>3. m \in Messages /\ m.type = "ready" /\ m.revision = state /\ m.port = port
      BY <1>3 DEF Messages, Revisions
    <2>4. toBroker' \in Seq(Messages) /\ DOMAIN toBroker' = {1} /\ Len(toBroker') = 1
          /\ toBroker'[1].type = "ready" /\ toBroker'[1].revision = state /\ toBroker'[1].port = port
      BY <2>2, <2>3
    <2> HIDE DEF m
    <2>5. TypeOK'
      BY <1>1, <1>2, <1>3, <2>2, <2>4 DEF TypeOK
    <2>6. StatesInOrder'
      BY <1>2, <1>3, <1>5, <2>1, <2>4, <2>5
         DEF StatesInOrder, PublishedInOrder, SnapshotAfterItsState, IsState
    <2>7. SilentUntilReady'
      BY <1>1, <1>2, <1>3, <1>5, <2>1, <2>4 DEF SilentUntilReady
    <2>8. LastIsUnderway'
      BY <1>2, <1>3, <2>1, <2>2, <2>4 DEF LastIsUnderway, IsState
    <2>9. PublisherIsAhead'
      BY <1>1, <1>2, <2>1 DEF PublisherIsAhead
    <2>10. QED BY <1>4, <2>6, <2>7, <2>8, <2>9 DEF IInv
  <1>6. CASE nativePort # port
    <2>1. UNCHANGED <<readyRevision, lastPublished, pending, toBroker>>
      BY <1>6 DEF SendReady
    <2>2. TypeOK'
      BY <1>1, <1>2, <1>3, <2>1 DEF TypeOK
    <2>3. StatesInOrder'
      BY <1>1, <1>2, <2>1, <2>2 DEF StatesInOrder, PublishedInOrder, SnapshotAfterItsState, IsState
    <2>4. nativePort # 0 => nativePort \in 1..MaxPorts /\ ready'[nativePort] = ready[nativePort]
      BY <1>1, <1>3, <1>6 DEF TypeOK
    <2>5. SilentUntilReady'
      BY <1>1, <1>2, <1>3, <2>1, <2>4 DEF SilentUntilReady
    <2>6. LastIsUnderway'
      BY <1>2, <2>1, <2>4 DEF IInv, LastIsUnderway, IsState
    <2>7. PublisherIsAhead'
      BY <1>1, <1>2, <2>1 DEF PublisherIsAhead
    <2>8. QED BY <1>4, <2>3, <2>5, <2>6, <2>7 DEF IInv
  <1>7. QED BY <1>5, <1>6

\* What the extension takes from the broker.
LEMMA HandleReadyAckKeeps == ASSUME IInv, HandleReadyAck PROVE IInv'
  <1>1. TypeOK /\ RequestsHold /\ PublisherIsAhead /\ SilentUntilReady /\ StatesInOrder
    BY DEF IInv, StatesInOrder
  <1>2. /\ nativePort # 0 /\ toExtension # <<>> /\ toExtension' = Tail(toExtension)
        /\ brokerReady' = TRUE /\ ackState' = [at |-> "asked", state |-> 0]
        /\ UNCHANGED <<facts, revision, nativePort, ports, readyRevision, lastPublished, pending,
                       publisher, ready, requests, toBroker, broker>>
    BY DEF HandleReadyAck, sources, connection
  <1>3. broker # 0
    BY <1>1, <1>2 DEF SilentUntilReady
  <1>4. toExtension' \in Seq({"ready_ack"} \cup Requests)
    BY <1>1, <1>2, Rest DEF TypeOK
  <1>5. TypeOK'
    BY <1>1, <1>2, <1>4 DEF TypeOK
  <1>6. StatesInOrder'
    BY <1>1, <1>2, <1>5 DEF StatesInOrder, PublishedInOrder, SnapshotAfterItsState, IsState
  <1>7. SilentUntilReady'
    BY <1>1, <1>2, <1>3 DEF SilentUntilReady
  <1>8. LastIsUnderway'
    BY <1>2 DEF IInv, LastIsUnderway, IsState
  <1>9. PublisherIsAhead'
    BY <1>1, <1>2 DEF PublisherIsAhead
  <1>10. RequestsHold'
    BY <1>1, <1>2 DEF RequestsHold
  <1>11. QED BY <1>6, <1>7, <1>8, <1>9, <1>10 DEF IInv

LEMMA HandleRequestKeeps == ASSUME IInv, HandleRequest PROVE IInv'
  <1> DEFINE r == Head(toExtension)
  <1>1. TypeOK /\ RequestsHold /\ PublisherIsAhead /\ SilentUntilReady /\ StatesInOrder
    BY DEF IInv, StatesInOrder
  <1>2. /\ brokerReady /\ toExtension # <<>> /\ toExtension' = Tail(toExtension) /\ r \in Requests
        /\ UNCHANGED <<facts, revision, nativePort, ports, brokerReady, readyRevision, lastPublished,
                       pending, publisher, ready, ackState, toBroker, broker>>
    BY DEF HandleRequest, sources, connection, tasks
  <1>3. nativePort \in 1..MaxPorts /\ broker # 0 /\ nativePort <= ports
    BY <1>1, <1>2, ReadyPort DEF TypeOK
  <1>4. toExtension' \in Seq({"ready_ack"} \cup Requests)
    BY <1>1, <1>2, Rest DEF TypeOK
  <1>5. LET new == [at |-> "capture", port |-> nativePort, capture |-> 0, state |-> 0,
                    timedOut |-> FALSE]
        IN new \in RequestRecords /\ new.at = "capture" /\ new.port = nativePort
    BY <1>3 DEF RequestRecords
  <1>6. /\ requests' \in [Requests -> RequestRecords]
        /\ requests'[r].at = "capture" /\ requests'[r].port = nativePort
        /\ \A q \in Requests \ {r} : requests'[q] = requests[q]
    BY <1>1, <1>2, <1>5 DEF HandleRequest, TypeOK
  <1>7. TypeOK'
    BY <1>1, <1>2, <1>4, <1>6 DEF TypeOK
  <1>8. StatesInOrder'
    BY <1>1, <1>2, <1>7 DEF StatesInOrder, PublishedInOrder, SnapshotAfterItsState, IsState
  <1>9. SilentUntilReady'
    BY <1>1, <1>2, <1>3 DEF SilentUntilReady
  <1>10. LastIsUnderway'
    BY <1>2 DEF IInv, LastIsUnderway, IsState
  <1>11. PublisherIsAhead'
    BY <1>1, <1>2 DEF PublisherIsAhead
  <1>12. RequestsHold'
    BY <1>1, <1>2, <1>3, <1>6 DEF RequestsHold
  <1>13. QED BY <1>8, <1>9, <1>10, <1>11, <1>12 DEF IInv

-----------------------------------------------------------------------------
(* Answers *)

\* What brokerReady and MustPublish say of an answer's state.
LEMMA AnsweredState ==
    ASSUME IInv, NEW r \in Requests, Respond(r), nativePort = requests[r].port
    PROVE  /\ nativePort \in 1..MaxPorts /\ broker # 0 /\ ready[nativePort].at = "done"
           /\ requests[r].capture \in Revisions /\ requests[r].capture <= lastPublished
  <1>1. TypeOK /\ RequestsHold
    BY DEF IInv, StatesInOrder
  <1>2. brokerReady /\ requests[r].capture \in 1..facts /\ requests[r].capture <= requests[r].state
    BY <1>1 DEF Respond, At, RequestsHold
  <1>3. requests[r].state <= lastPublished
    <2>1. requests[r].state \in 0..MaxFacts /\ lastPublished \in 0..MaxFacts
      BY <1>1 DEF TypeOK, RequestRecords
    <2>2. ~(requests[r].state > lastPublished)
      BY <1>2 DEF Respond, MustPublish
    <2>3. QED BY <2>1, <2>2
  <1>4. requests[r].state \in 0..MaxFacts /\ lastPublished \in 0..MaxFacts /\ facts \in 1..MaxFacts
    BY <1>1 DEF TypeOK, RequestRecords, Revisions
  <1>5. QED BY <1>2, <1>3, <1>4, ReadyPort DEF Revisions

LEMMA RespondKeeps == ASSUME IInv, NEW r \in Requests, Respond(r) PROVE IInv'
  <1>1. TypeOK /\ RequestsHold /\ PublisherIsAhead /\ SilentUntilReady /\ StatesInOrder
    BY DEF IInv, StatesInOrder
  <1>2. UNCHANGED <<facts, revision, nativePort, ports, brokerReady, readyRevision, lastPublished, pending,
                    publisher, ready, ackState, toExtension, broker>>
    BY DEF Respond, sources, connection, tasks
  <1>3. /\ requests' \in [Requests -> RequestRecords]
        /\ requests'[r].at = "done" /\ requests'[r].port = requests[r].port
        /\ \A q \in Requests \ {r} : requests'[q] = requests[q]
    BY <1>1 DEF Respond, TypeOK, RequestRecords
  <1>4. RequestsHold'
    BY <1>1, <1>2, <1>3 DEF RequestsHold
  <1>5. PublisherIsAhead'
    BY <1>1, <1>2 DEF PublisherIsAhead
  <1>6. CASE toBroker' = toBroker
    <2>1. TypeOK'
      BY <1>1, <1>2, <1>3, <1>6 DEF TypeOK
    <2>2. StatesInOrder'
      BY <1>1, <1>2, <1>6, <2>1 DEF StatesInOrder, PublishedInOrder, SnapshotAfterItsState, IsState
    <2>3. SilentUntilReady'
      BY <1>1, <1>2, <1>6 DEF SilentUntilReady
    <2>4. LastIsUnderway'
      BY <1>2, <1>6 DEF IInv, LastIsUnderway, IsState
    <2>5. QED BY <1>4, <1>5, <2>2, <2>3, <2>4 DEF IInv
  <1>7. CASE toBroker' # toBroker
    <2> DEFINE m == [type |-> "response", revision |-> requests[r].capture, port |-> nativePort]
               n == Len(toBroker)
    <2>1. nativePort = requests[r].port /\ toBroker' = Append(toBroker, m)
      BY <1>7 DEF Respond
    <2>2. /\ nativePort \in 1..MaxPorts /\ broker # 0 /\ ready[nativePort].at = "done"
          /\ requests[r].capture \in Revisions /\ requests[r].capture <= lastPublished
      BY <2>1, AnsweredState
    <2>3. m \in Messages /\ m.type = "response" /\ m.revision = requests[r].capture
      BY <2>2 DEF Messages
    <2> HIDE DEF m
    <2>4. /\ toBroker' \in Seq(Messages) /\ DOMAIN toBroker' = 1..n + 1
          /\ DOMAIN toBroker = 1..n /\ n \in Nat
          /\ toBroker'[n + 1] = m
          /\ \A i \in 1..n : toBroker'[i] = toBroker[i] /\ toBroker[i] \in Messages
      BY <1>1, <2>1, <2>3, Appended DEF TypeOK
    <2> HIDE DEF n
    <2>5. TypeOK'
      BY <1>1, <1>2, <1>3, <2>4 DEF TypeOK
    <2>6. PublishedInOrder'
      <3>1. SUFFICES ASSUME NEW i \in 1..n + 1, toBroker'[i].type # "response"
                     PROVE  /\ toBroker'[i].port = nativePort
                            /\ toBroker'[i].revision > broker
                            /\ (toBroker'[i].type = "ready") <=>
                                   (broker = 0 /\ \A j \in 1..i - 1 : toBroker'[j].type = "response")
                            /\ \A j \in 1..i - 1 : toBroker'[j].type # "response" =>
                                   toBroker'[j].revision < toBroker'[i].revision
        BY <1>2, <2>4 DEF PublishedInOrder, IsState
      <3>2. i \in 1..n
        BY <2>3, <2>4, <3>1
      <3>3. QED BY <2>2, <2>4, <3>1, <3>2 DEF IInv, StatesInOrder, PublishedInOrder, IsState
    <2>7. /\ broker <= lastPublished
          /\ \A i \in 1..n : IsState(i) => toBroker[i].revision <= lastPublished
          /\ \/ lastPublished = broker
             \/ \E i \in 1..n : IsState(i) /\ toBroker[i].revision = lastPublished
      BY <2>2, <2>4 DEF IInv, LastIsUnderway
    <2>8. SnapshotAfterItsState'
      <3>1. SUFFICES ASSUME NEW i \in 1..n + 1, toBroker'[i].type = "response"
                     PROVE  \/ toBroker'[i].revision <= broker
                            \/ \E j \in 1..i - 1 : toBroker'[j].type # "response"
                                                   /\ toBroker'[j].revision >= toBroker'[i].revision
        BY <1>2, <2>4 DEF SnapshotAfterItsState, IsState
      <3>2. CASE i = n + 1
        <4>1. toBroker'[i].revision <= lastPublished /\ i - 1 = n
          BY <2>2, <2>3, <2>4, <3>2
        <4>2. CASE lastPublished = broker
          BY <4>1, <4>2
        <4>3. CASE \E j \in 1..n : IsState(j) /\ toBroker[j].revision = lastPublished
          <5>1. PICK j \in 1..n : IsState(j) /\ toBroker[j].revision = lastPublished
            BY <4>3
          <5>2. toBroker'[j].type # "response" /\ toBroker'[j].revision = lastPublished
            BY <2>4, <5>1 DEF IsState
          <5>3. requests[r].capture \in Int /\ lastPublished \in Int
            BY <1>1, <2>2 DEF TypeOK, Revisions
          <5>4. QED BY <2>3, <2>4, <3>2, <4>1, <5>1, <5>2, <5>3
        <4>4. QED BY <2>7, <4>2, <4>3
      <3>3. CASE i \in 1..n
        BY <2>4, <3>1, <3>3 DEF IInv, StatesInOrder, SnapshotAfterItsState, IsState
      <3>4. QED BY <2>4, <3>2, <3>3
    <2>9. SilentUntilReady'
      BY <1>1, <1>2, <2>2 DEF SilentUntilReady
    <2>10. LastIsUnderway'
      BY <1>2, <2>3, <2>4, <2>7 DEF LastIsUnderway, IsState
    <2>11. QED BY <1>4, <1>5, <2>5, <2>6, <2>8, <2>9, <2>10 DEF IInv, StatesInOrder
  <1>8. QED BY <1>6, <1>7

-----------------------------------------------------------------------------
(* The broker *)

LEMMA BrokerRequestKeeps == ASSUME IInv, NEW r \in Requests, BrokerRequest(r) PROVE IInv'
  <1>1. TypeOK /\ RequestsHold /\ PublisherIsAhead /\ SilentUntilReady /\ StatesInOrder
    BY DEF IInv, StatesInOrder
  <1>2. /\ broker # 0 /\ toExtension' = Append(toExtension, r)
        /\ UNCHANGED <<facts, revision, nativePort, ports, readyRevision, brokerReady, lastPublished,
                       pending, publisher, ready, ackState, requests, toBroker, broker>>
    BY DEF BrokerRequest, sources, connection, tasks
  <1>3. toExtension' \in Seq({"ready_ack"} \cup Requests)
    BY <1>1, <1>2, Appended DEF TypeOK
  <1>4. TypeOK'
    BY <1>1, <1>2, <1>3 DEF TypeOK
  <1>5. StatesInOrder'
    BY <1>1, <1>2, <1>4 DEF StatesInOrder, PublishedInOrder, SnapshotAfterItsState, IsState
  <1>6. nativePort # 0
    BY <1>1, <1>2 DEF SilentUntilReady
  <1>7. SilentUntilReady'
    BY <1>1, <1>2, <1>6 DEF SilentUntilReady
  <1>8. LastIsUnderway'
    BY <1>2 DEF IInv, LastIsUnderway, IsState
  <1>9. PublisherIsAhead'
    BY <1>1, <1>2 DEF PublisherIsAhead
  <1>10. RequestsHold'
    BY <1>1, <1>2 DEF RequestsHold
  <1>11. QED BY <1>5, <1>7, <1>8, <1>9, <1>10 DEF IInv

LEMMA BrokerReadKeeps == ASSUME IInv, BrokerRead PROVE IInv'
  <1> DEFINE m == Head(toBroker)
             n == Len(toBroker)
  <1>1. TypeOK /\ RequestsHold /\ PublisherIsAhead /\ SilentUntilReady /\ StatesInOrder
    BY DEF IInv, StatesInOrder
  <1>2. /\ toBroker # <<>> /\ toBroker' = Tail(toBroker)
        /\ broker' = IF m.type = "response" THEN broker ELSE Newer(m.revision, broker)
        /\ toExtension' = IF m.type = "ready" THEN Append(toExtension, "ready_ack") ELSE toExtension
        /\ UNCHANGED <<facts, revision, nativePort, ports, readyRevision, brokerReady, lastPublished,
                       pending, publisher, ready, ackState, requests>>
    BY DEF BrokerRead, sources, connection, tasks
  <1>3. /\ toBroker' \in Seq(Messages) /\ m = toBroker[1] /\ m \in Messages
        /\ DOMAIN toBroker = 1..n /\ n \in Nat \ {0}
        /\ DOMAIN toBroker' = 1..n - 1
        /\ \A i \in 1..n : toBroker[i] \in Messages
        /\ \A i \in 1..n - 1 : toBroker'[i] = toBroker[i + 1]
    BY <1>1, <1>2, Rest DEF TypeOK
  <1> HIDE DEF m, n
  <1>4. m.revision \in 1..MaxFacts /\ broker \in 0..MaxFacts /\ lastPublished \in 0..MaxFacts
    BY <1>1, <1>3 DEF TypeOK, Messages, Revisions
  <1>5. nativePort # 0 /\ nativePort \in 1..MaxPorts /\ ready[nativePort].at = "done"
    BY <1>1, <1>2 DEF SilentUntilReady, TypeOK
  <1>6. /\ \/ m.type = "response" /\ broker' = broker /\ broker # 0
           \/ m.type # "response" /\ broker' = m.revision /\ m.revision > broker
        /\ broker' \in 1..MaxFacts /\ broker' >= broker
    <2>1. CASE m.type = "response"
      <3>1. broker # 0
        BY <1>1, <1>2, <1>3, <2>1 DEF SilentUntilReady
      <3>2. QED BY <1>2, <1>4, <2>1, <3>1
    <2>2. CASE m.type # "response"
      <3>1. m.revision > broker
        BY <1>1, <1>3, <2>2 DEF StatesInOrder, PublishedInOrder, IsState
      <3>2. QED BY <1>2, <1>4, <2>2, <3>1 DEF Newer
    <2>3. QED BY <2>1, <2>2
  <1>7. toExtension' \in Seq({"ready_ack"} \cup Requests)
    BY <1>1, <1>2, Appended DEF TypeOK
  <1>8. TypeOK'
    BY <1>1, <1>2, <1>3, <1>6, <1>7 DEF TypeOK
  <1>9. \A i \in 1..n : toBroker[i].type # "response" =>
            /\ toBroker[i].port = nativePort
            /\ toBroker[i].revision > broker
            /\ (toBroker[i].type = "ready") <=>
                   (broker = 0 /\ \A j \in 1..i - 1 : toBroker[j].type = "response")
            /\ \A j \in 1..i - 1 : toBroker[j].type # "response" =>
                   toBroker[j].revision < toBroker[i].revision
    BY <1>1, <1>3 DEF StatesInOrder, PublishedInOrder, IsState
  <1>10. PublishedInOrder'
    <2>1. SUFFICES ASSUME NEW i \in 1..n - 1, toBroker'[i].type # "response"
                   PROVE  /\ toBroker'[i].port = nativePort
                          /\ toBroker'[i].revision > broker'
                          /\ toBroker'[i].type # "ready"
                          /\ \A j \in 1..i - 1 : toBroker'[j].type # "response" =>
                                 toBroker'[j].revision < toBroker'[i].revision
      <3>1. nativePort' = nativePort /\ DOMAIN toBroker' = 1..n - 1 /\ broker' # 0
        BY <1>2, <1>3, <1>6
      <3>2. QED BY <2>1, <3>1 DEF PublishedInOrder, IsState
    <2>2. i + 1 \in 1..n /\ toBroker'[i] = toBroker[i + 1] /\ 1 \in 1..(i + 1) - 1
      BY <1>3
    <2>3. toBroker'[i].port = nativePort /\ toBroker[i + 1].revision > broker
      BY <1>9, <2>1, <2>2
    <2>4. toBroker'[i].revision > broker' /\ toBroker'[i].type # "ready"
      BY <1>3, <1>6, <1>9, <2>1, <2>2
    <2>5. ASSUME NEW j \in 1..i - 1, toBroker'[j].type # "response"
          PROVE  toBroker'[j].revision < toBroker'[i].revision
      <3>1. j + 1 \in 1..(i + 1) - 1 /\ toBroker'[j] = toBroker[j + 1]
        BY <1>3
      <3>2. QED BY <1>9, <2>1, <2>2, <2>5, <3>1
    <2>6. QED BY <2>3, <2>4, <2>5
  <1>11. SnapshotAfterItsState'
    <2>1. SUFFICES ASSUME NEW i \in 1..n - 1, toBroker'[i].type = "response"
                   PROVE  \/ toBroker'[i].revision <= broker'
                          \/ \E j \in 1..i - 1 : toBroker'[j].type # "response"
                                                 /\ toBroker'[j].revision >= toBroker'[i].revision
      BY <1>2, <1>3 DEF SnapshotAfterItsState, IsState
    <2>2. i + 1 \in 1..n /\ toBroker'[i] = toBroker[i + 1]
      BY <1>3
    <2>3. \/ toBroker[i + 1].revision <= broker
          \/ \E j \in 1..(i + 1) - 1 : toBroker[j].type # "response"
                                       /\ toBroker[j].revision >= toBroker[i + 1].revision
      BY <1>1, <1>3, <2>1, <2>2 DEF StatesInOrder, SnapshotAfterItsState, IsState
    <2>4. toBroker[i + 1] \in Messages /\ toBroker[i + 1].revision \in 1..MaxFacts
      BY <1>3, <2>2 DEF Messages, Revisions
    <2>5. CASE toBroker[i + 1].revision <= broker
      BY <1>4, <1>6, <2>2, <2>4, <2>5
    <2>6. ASSUME NEW j \in 1..(i + 1) - 1, toBroker[j].type # "response",
                 toBroker[j].revision >= toBroker[i + 1].revision
          PROVE  \/ toBroker'[i].revision <= broker'
                 \/ \E k \in 1..i - 1 : toBroker'[k].type # "response"
                                        /\ toBroker'[k].revision >= toBroker'[i].revision
      <3>1. CASE j = 1
        BY <1>3, <1>6, <2>2, <2>6, <3>1
      <3>2. CASE j # 1
        <4>1. j - 1 \in 1..i - 1 /\ j - 1 \in 1..n - 1 /\ toBroker'[j - 1] = toBroker[j]
          BY <1>3, <3>2
        <4>2. QED BY <2>2, <2>6, <4>1
      <3>3. QED BY <3>1, <3>2
    <2>7. QED BY <2>3, <2>5, <2>6
  <1>12. SilentUntilReady'
    BY <1>1, <1>2, <1>5, <1>6 DEF SilentUntilReady
  <1>13. /\ broker <= lastPublished
         /\ \A i \in 1..n : toBroker[i].type # "response" => toBroker[i].revision <= lastPublished
         /\ \/ lastPublished = broker
            \/ \E i \in 1..n : toBroker[i].type # "response" /\ toBroker[i].revision = lastPublished
    BY <1>3, <1>5 DEF IInv, LastIsUnderway, IsState
  <1>14. LastIsUnderway'
    <2>1. broker' <= lastPublished
      BY <1>3, <1>6, <1>13
    <2>2. \A i \in 1..n - 1 : toBroker'[i].type # "response" => toBroker'[i].revision <= lastPublished
      BY <1>3, <1>13
    <2>3. \/ lastPublished = broker'
          \/ \E i \in 1..n - 1 : toBroker'[i].type # "response" /\ toBroker'[i].revision = lastPublished
      <3>1. CASE lastPublished = broker
        BY <1>4, <1>6, <2>1, <3>1
      <3>2. ASSUME NEW i \in 1..n, toBroker[i].type # "response", toBroker[i].revision = lastPublished
            PROVE  \/ lastPublished = broker'
                   \/ \E k \in 1..n - 1 : toBroker'[k].type # "response"
                                          /\ toBroker'[k].revision = lastPublished
        <4>1. CASE i = 1
          BY <1>3, <1>6, <3>2, <4>1
        <4>2. CASE i # 1
          <5>1. i - 1 \in 1..n - 1 /\ toBroker'[i - 1] = toBroker[i]
            BY <1>3, <4>2
          <5>2. QED BY <3>2, <5>1
        <4>3. QED BY <4>1, <4>2
      <3>3. QED BY <1>13, <3>1, <3>2
    <2>4. QED BY <1>2, <1>3, <2>1, <2>2, <2>3 DEF LastIsUnderway, IsState
  <1>15. PublisherIsAhead'
    BY <1>1, <1>2 DEF PublisherIsAhead
  <1>16. RequestsHold'
    BY <1>1, <1>2 DEF RequestsHold
  <1>17. QED BY <1>8, <1>10, <1>11, <1>12, <1>14, <1>15, <1>16 DEF IInv, StatesInOrder

-----------------------------------------------------------------------------
(* The theorem *)

LEMMA InitHolds == ASSUME Init PROVE IInv
  <1>1. TypeOK
    <2>1. toBroker \in Seq(Messages) /\ toExtension \in Seq({"ready_ack"} \cup Requests)
      BY DEF Init
    <2>2. /\ publisher \in PublisherRecords
          /\ ready \in [1..MaxPorts -> ReadyRecords]
          /\ ackState \in [at : {"none", "asked", "got"}, state : 0..MaxFacts]
          /\ requests \in [Requests -> RequestRecords]
      BY DEF Init, Idle, PublisherRecords, ReadyRecords, NoRequest, RequestRecords
    <2>3. 1 \in Revisions /\ 0 \in 0..0 /\ 0 \in 0..MaxPorts /\ 0 \in 0..MaxFacts
      BY DEF Revisions
    <2>4. QED BY <2>1, <2>2, <2>3, Zenon DEF Init, TypeOK
  <1>2. StatesInOrder
    BY <1>1 DEF Init, StatesInOrder, PublishedInOrder, SnapshotAfterItsState
  <1>3. SilentUntilReady /\ LastIsUnderway
    BY DEF Init, SilentUntilReady, LastIsUnderway
  <1>4. PublisherIsAhead /\ RequestsHold
    BY DEF Init, Idle, NoRequest, PublisherIsAhead, RequestsHold
  <1>5. QED BY <1>2, <1>3, <1>4 DEF IInv

LEMMA NextKeeps == ASSUME IInv, [Next]_vars PROVE IInv'
  <1>1. CASE UNCHANGED vars
    <2>1. TypeOK' /\ RequestsHold'
      BY <1>1 DEF vars, IInv, StatesInOrder, TypeOK, RequestsHold
    <2>2. QED BY <1>1, <2>1, QuietStep DEF vars, connection, wires, IInv, SilentUntilReady
  <1>2. CASE Publication
    BY <1>2, PublishStartKeeps, PublishKeeps, PublishEndKeeps DEF Publication
  <1>3. CASE SourceChanged \/ Reconcile \/ ConnectBroker \/ Disconnect \/ HandleReadyAck \/ AckTask
             \/ HandleRequest \/ BrokerRead
    BY <1>3, SourceChangedKeeps, ReconcileKeeps, ConnectKeeps, DisconnectKeeps, HandleReadyAckKeeps,
       AckTaskKeeps, HandleRequestKeeps, BrokerReadKeeps
  <1>4. ASSUME NEW port \in 1..MaxPorts, ReadyTask(port) PROVE IInv'
    BY <1>4, ReadyStateKeeps, SendReadyKeeps DEF ReadyTask
  <1>5. ASSUME NEW r \in Requests, RequestTask(r) \/ TimeOut(r) \/ BrokerRequest(r) PROVE IInv'
    BY <1>5, CaptureKeeps, SyncStateKeeps, SyncAwaitKeeps, LoopAgainKeeps, RespondKeeps, TimeOutKeeps,
       BrokerRequestKeeps DEF RequestTask
  <1>6. QED BY <1>1, <1>2, <1>3, <1>4, <1>5 DEF Next

\* The invariant holds.
THEOREM InvariantHolds == Spec => []IInv
  <1>1. QED BY InitHolds, NextKeeps, PTL DEF Spec

\* Over every connection the capability states come once and in order, none of
\* them from an earlier connection, and no snapshot comes before the state that
\* it was captured under.
THEOREM StatesStayInOrder == Spec => []StatesInOrder
  <1>1. IInv => StatesInOrder
    BY DEF IInv
  <1>2. QED BY InvariantHolds, <1>1, PTL

=============================================================================
