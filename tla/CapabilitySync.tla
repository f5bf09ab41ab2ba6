--------------------------- MODULE CapabilitySync ---------------------------
(***************************************************************************)
(* How the extension keeps the broker's capabilities current: connections,   *)
(* the handshake, the publication of capability states and the answers to    *)
(* browser.snapshot (extension/background-controller.js) over the revisions   *)
(* of the capability controller (extension/capabilities.js).                  *)
(*                                                                         *)
(* An action is what runs between two awaits.  A capability state is its      *)
(* revision.  Promises are kept and instance identities are found: the code   *)
(* that handles their failures is not modelled.                               *)
(***************************************************************************)
EXTENDS Integers, Sequences

CONSTANTS Requests,      \* identities of browser.snapshot requests
          MaxPorts,      \* bound: connections
          MaxFacts       \* bound: changes of what capabilities depend on

ASSUME SyncAssumption == MaxPorts \in Nat /\ MaxFacts \in Nat \ {0}

VARIABLES
    facts,         \* how often what capabilities depend on has changed
    revision,      \* revision of the controller's snapshot: the facts it was taken from
    nativePort,    \* the connection, 0 for null
    ports,         \* how many connections there have been
    brokerReady,
    readyRevision, lastPublished,     \* of this connection
    pending,       \* pendingCapabilityState, 0 for null
    publisher,     \* publishCapabilitiesChanged: where it is, its port and its state
    ready,         \* sendReady of each port: where it is, and its state
    ackState,      \* the state that the latest ready_ack has asked for: "none", "asked", or it
    requests,      \* of each request: where it is, its port, capture, state, whether it timed out
    toBroker, toExtension,            \* messages of this connection under way
    broker         \* the capability revision of the broker of this connection, 0 before ready

vars == <<facts, revision, nativePort, ports, brokerReady, readyRevision, lastPublished, pending,
          publisher, ready, ackState, requests, toBroker, toExtension, broker>>

sources == <<facts, revision>>
connection == <<nativePort, ports, readyRevision>>
tasks == <<ready, ackState>>
wires == <<toBroker, toExtension, broker>>

Revisions == 1..MaxFacts
Idle == [at |-> "idle", port |-> 0, state |-> 0]
PublisherRecords == [at : {"idle", "scheduled", "instance", "finally"}, port : 0..MaxPorts,
               state : 0..MaxFacts]
ReadyRecords == [at : {"none", "state", "post", "done"}, state : 0..MaxFacts]
RequestRecords == [at : {"none", "capture", "state", "queue", "loop", "publication", "replaced", "done"},
          port : 0..MaxPorts, capture : 0..MaxFacts, state : 0..MaxFacts, timedOut : BOOLEAN]
Messages == [type : {"ready", "capabilities_changed", "response"}, revision : Revisions,
             port : 1..MaxPorts]
NoRequest == [at |-> "none", port |-> 0, capture |-> 0, state |-> 0, timedOut |-> FALSE]

TypeOK ==
    /\ facts \in Revisions /\ revision \in Revisions
    /\ nativePort \in 0..ports /\ ports \in 0..MaxPorts
    /\ brokerReady \in BOOLEAN /\ (brokerReady => nativePort # 0)
    /\ readyRevision \in 0..MaxFacts /\ lastPublished \in 0..MaxFacts
    /\ pending \in 0..MaxFacts
    /\ publisher \in PublisherRecords
    /\ ready \in [1..MaxPorts -> ReadyRecords]
    /\ ackState \in [at : {"none", "asked", "got"}, state : 0..MaxFacts]
    /\ requests \in [Requests -> RequestRecords]
    /\ toBroker \in Seq(Messages)
    /\ toExtension \in Seq({"ready_ack"} \cup Requests)
    /\ broker \in 0..MaxFacts

Init ==
    /\ facts = 1 /\ revision = 1
    /\ nativePort = 0 /\ ports = 0 /\ brokerReady = FALSE
    /\ readyRevision = 0 /\ lastPublished = 0 /\ pending = 0
    /\ publisher = Idle
    /\ ready = [port \in 1..MaxPorts |-> [at |-> "none", state |-> 0]]
    /\ ackState = [at |-> "none", state |-> 0]
    /\ requests = [r \in Requests |-> NoRequest]
    /\ toBroker = <<>> /\ toExtension = <<>> /\ broker = 0

-----------------------------------------------------------------------------
(* Publication *)

Newer(state, than) == IF state > than THEN state ELSE than

\* capabilityPublication is another promise: who awaits the old one will see.
Replaced(now) ==
    [r \in Requests |-> IF now[r].at = "publication" THEN [now[r] EXCEPT !.at = "replaced"]
                        ELSE now[r]]

\* queueCapabilityPublication, with the requests as they are now.
Queue(state, now) ==
    /\ pending' = Newer(state, pending)
    /\ IF brokerReady /\ publisher.at = "idle"
       THEN publisher' = [Idle EXCEPT !.at = "scheduled"] /\ requests' = Replaced(now)
       ELSE UNCHANGED publisher /\ requests' = now

\* publishCapabilitiesChanged: until nothing is pending, or it must wait for the
\* instance identity.
PublishFrom(published) ==
    IF pending > published /\ brokerReady
    THEN /\ publisher' = [at |-> "instance", port |-> nativePort, state |-> pending]
         /\ pending' = 0
    ELSE /\ publisher' = [Idle EXCEPT !.at = "finally"]
         /\ pending' = IF pending > published THEN pending ELSE 0

PublishStart ==
    /\ publisher.at = "scheduled"
    /\ PublishFrom(lastPublished)
    /\ UNCHANGED <<sources, connection, brokerReady, lastPublished, tasks, requests, wires>>

\* (a wrong variant: the port is not looked at again)
PublishToNewPort ==
    /\ publisher.at = "instance"
    /\ IF brokerReady
       THEN /\ toBroker' = Append(toBroker, [type |-> "capabilities_changed",
                                             revision |-> publisher.state, port |-> publisher.port])
            /\ lastPublished' = publisher.state
            /\ PublishFrom(publisher.state)
       ELSE /\ publisher' = [Idle EXCEPT !.at = "finally"]
            /\ UNCHANGED <<toBroker, lastPublished, pending>>
    /\ UNCHANGED <<sources, connection, brokerReady, tasks, requests, toExtension, broker>>

\* (a wrong variant: what was published is not noted)
PublishUncounted ==
    /\ publisher.at = "instance"
    /\ IF nativePort = publisher.port /\ brokerReady
       THEN /\ toBroker' = Append(toBroker, [type |-> "capabilities_changed",
                                             revision |-> publisher.state, port |-> nativePort])
            /\ PublishFrom(lastPublished)
       ELSE publisher' = [Idle EXCEPT !.at = "finally"] /\ UNCHANGED <<toBroker, pending>>
    /\ UNCHANGED <<sources, connection, brokerReady, lastPublished, tasks, requests, toExtension,
                   broker>>

\* The port may have gone while it waited, and another one may be there: then
\* the state is dropped.
Publish ==
    /\ publisher.at = "instance"
    /\ IF nativePort = publisher.port /\ brokerReady
       THEN /\ toBroker' = Append(toBroker, [type |-> "capabilities_changed",
                                             revision |-> publisher.state, port |-> nativePort])
            /\ lastPublished' = publisher.state
            /\ PublishFrom(publisher.state)
       ELSE /\ publisher' = [Idle EXCEPT !.at = "finally"]
            /\ UNCHANGED <<toBroker, lastPublished, pending>>
    /\ UNCHANGED <<sources, connection, brokerReady, tasks, requests, toExtension, broker>>

PublishEnd ==
    /\ publisher.at = "finally"
    /\ IF brokerReady /\ pending # 0
       THEN publisher' = [Idle EXCEPT !.at = "scheduled"] /\ requests' = Replaced(requests)
       ELSE publisher' = Idle /\ UNCHANGED requests
    /\ UNCHANGED <<sources, connection, brokerReady, lastPublished, pending, tasks, wires>>

-----------------------------------------------------------------------------
(* The capability controller *)

\* A setting, a permission, or what Chrome supports.
SourceChanged ==
    /\ facts < MaxFacts
    /\ facts' = facts + 1
    /\ UNCHANGED <<revision, connection, brokerReady, lastPublished, pending, publisher, tasks,
                   requests, wires>>

\* A reconciliation that no change has overtaken; its listener publishes.
Reconcile ==
    /\ revision # facts
    /\ revision' = facts
    /\ Queue(facts, requests)
    /\ UNCHANGED <<facts, connection, brokerReady, lastPublished, tasks, wires>>

\* getState returns when no reconciliation is under way.
WhenIdle == revision = facts

-----------------------------------------------------------------------------
(* Connections *)

ConnectBroker ==
    /\ nativePort = 0 /\ ports < MaxPorts
    /\ ports' = ports + 1
    /\ nativePort' = ports'
    /\ brokerReady' = FALSE
    /\ readyRevision' = 0 /\ lastPublished' = 0
    /\ ready' = [ready EXCEPT ![ports'] = [at |-> "state", state |-> 0]]
    /\ toBroker' = <<>> /\ toExtension' = <<>> /\ broker' = 0
    /\ UNCHANGED <<sources, pending, publisher, ackState, requests>>

\* clearConnection, when the broker is gone or disconnectPort.
Disconnect ==
    /\ nativePort # 0
    /\ nativePort' = 0 /\ brokerReady' = FALSE
    /\ toBroker' = <<>> /\ toExtension' = <<>> /\ broker' = 0
    /\ UNCHANGED <<sources, ports, readyRevision, lastPublished, pending, publisher, tasks, requests>>

ReadyState(port) ==
    /\ ready[port].at = "state" /\ WhenIdle
    /\ ready' = [ready EXCEPT ![port] = [at |-> "post", state |-> revision]]
    /\ UNCHANGED <<sources, connection, brokerReady, lastPublished, pending, publisher, ackState,
                   requests, wires>>

SendReady(port) ==
    /\ ready[port].at = "post"
    /\ ready' = [ready EXCEPT ![port].at = "done"]
    /\ IF nativePort = port
       THEN LET state == ready[port].state
            IN /\ readyRevision' = state /\ lastPublished' = state
               /\ pending' = IF pending <= state THEN 0 ELSE pending
               /\ toBroker' = Append(toBroker, [type |-> "ready", revision |-> state, port |-> port])
       ELSE UNCHANGED <<readyRevision, lastPublished, pending, toBroker>>
    /\ UNCHANGED <<sources, nativePort, ports, brokerReady, publisher, ackState, requests,
                   toExtension, broker>>

\* (a wrong variant: the state is not asked for again)
HandleReadyAckAtOnce ==
    /\ nativePort # 0 /\ toExtension # <<>> /\ Head(toExtension) = "ready_ack"
    /\ toExtension' = Tail(toExtension)
    /\ brokerReady' = TRUE
    /\ UNCHANGED <<sources, connection, lastPublished, pending, publisher, ready, ackState, requests,
                   toBroker, broker>>

HandleReadyAck ==
    /\ nativePort # 0 /\ toExtension # <<>> /\ Head(toExtension) = "ready_ack"
    /\ toExtension' = Tail(toExtension)
    /\ brokerReady' = TRUE
    /\ ackState' = [at |-> "asked", state |-> 0]
    /\ UNCHANGED <<sources, connection, lastPublished, pending, publisher, ready, requests, toBroker,
                   broker>>

AckState ==
    /\ ackState.at = "asked" /\ WhenIdle
    /\ ackState' = [at |-> "got", state |-> revision]
    /\ UNCHANGED <<sources, connection, brokerReady, lastPublished, pending, publisher, ready,
                   requests, wires>>

AckQueue ==
    /\ ackState.at = "got"
    /\ ackState' = [at |-> "none", state |-> 0]
    /\ IF ackState.state > readyRevision THEN Queue(ackState.state, requests)
       ELSE UNCHANGED <<pending, publisher, requests>>
    /\ UNCHANGED <<sources, connection, brokerReady, lastPublished, ready, wires>>

-----------------------------------------------------------------------------
(* browser.snapshot *)

At(r, from) == requests[r].at = from
RequestStep(r, to) ==
    /\ requests' = [requests EXCEPT ![r].at = to]
    /\ UNCHANGED <<sources, connection, brokerReady, lastPublished, pending, publisher, tasks, wires>>

HandleRequest ==
    /\ brokerReady /\ toExtension # <<>> /\ Head(toExtension) \in Requests
    /\ toExtension' = Tail(toExtension)
    /\ requests' = [requests EXCEPT ![Head(toExtension)] =
           [at |-> "capture", port |-> nativePort, capture |-> 0, state |-> 0, timedOut |-> FALSE]]
    /\ UNCHANGED <<sources, connection, brokerReady, lastPublished, pending, publisher, tasks,
                   toBroker, broker>>

\* The capture itself may find that Chrome supports more than was known.
Capture(r) ==
    /\ At(r, "capture")
    /\ facts' \in {facts, facts + 1} \cap Revisions
    /\ requests' = [requests EXCEPT ![r].at = "state", ![r].capture = facts']
    /\ UNCHANGED <<revision, connection, brokerReady, lastPublished, pending, publisher, tasks, wires>>

\* synchronizeCapabilityPublication
SyncState(r) ==
    /\ At(r, "state") /\ WhenIdle
    /\ requests' = [requests EXCEPT ![r].at = "queue", ![r].state = revision]
    /\ UNCHANGED <<sources, connection, brokerReady, lastPublished, pending, publisher, tasks, wires>>

SyncQueue(r) ==
    /\ At(r, "queue")
    /\ Queue(requests[r].state, [requests EXCEPT ![r].at = "loop"])
    /\ UNCHANGED <<sources, connection, brokerReady, lastPublished, tasks, wires>>

MustPublish(r) == brokerReady /\ requests[r].state > lastPublished

SyncAwait(r) ==
    /\ At(r, "loop") /\ MustPublish(r)
    /\ RequestStep(r, "publication")

\* The promise that it awaits has been kept.
SyncResume(r) ==
    /\ (At(r, "publication") /\ publisher.at = "idle") \/ At(r, "replaced")
    /\ IF At(r, "publication") /\ requests[r].state > lastPublished
       THEN Queue(requests[r].state, [requests EXCEPT ![r].at = "loop"])
       ELSE requests' = [requests EXCEPT ![r].at = "loop"] /\ UNCHANGED <<pending, publisher>>
    /\ UNCHANGED <<sources, connection, brokerReady, lastPublished, tasks, wires>>

\* (a wrong variant: the answer does not wait for the publication)
RespondAtOnce(r) ==
    /\ At(r, "loop")
    /\ requests' = [requests EXCEPT ![r].at = "done"]
    /\ toBroker' = IF nativePort = requests[r].port /\ ~requests[r].timedOut
                   THEN Append(toBroker, [type |-> "response", revision |-> requests[r].capture,
                                          port |-> nativePort])
                   ELSE toBroker
    /\ UNCHANGED <<sources, connection, brokerReady, lastPublished, pending, publisher, tasks,
                   toExtension, broker>>

Respond(r) ==
    /\ At(r, "loop") /\ ~MustPublish(r)
    /\ requests' = [requests EXCEPT ![r].at = "done"]
    /\ toBroker' = IF nativePort = requests[r].port /\ ~requests[r].timedOut
                   THEN Append(toBroker, [type |-> "response", revision |-> requests[r].capture,
                                          port |-> nativePort])
                   ELSE toBroker
    /\ UNCHANGED <<sources, connection, brokerReady, lastPublished, pending, publisher, tasks,
                   toExtension, broker>>

\* withDeadline: an error is sent, and what was begun goes on.
TimeOut(r) ==
    /\ requests[r].at \notin {"none", "done"} /\ ~requests[r].timedOut
    /\ requests' = [requests EXCEPT ![r].timedOut = TRUE]
    /\ UNCHANGED <<sources, connection, brokerReady, lastPublished, pending, publisher, tasks, wires>>

-----------------------------------------------------------------------------
(* The broker of this connection *)

BrokerRead ==
    /\ toBroker # <<>>
    /\ LET message == Head(toBroker)
       IN /\ toBroker' = Tail(toBroker)
          /\ broker' = IF message.type = "response" THEN broker ELSE Newer(message.revision, broker)
          /\ toExtension' = IF message.type = "ready" THEN Append(toExtension, "ready_ack")
                            ELSE toExtension
    /\ UNCHANGED <<sources, connection, brokerReady, lastPublished, pending, publisher, tasks, requests>>

BrokerRequest(r) ==
    /\ broker # 0 /\ At(r, "none") /\ \A i \in DOMAIN toExtension : toExtension[i] # r
    /\ toExtension' = Append(toExtension, r)
    /\ UNCHANGED <<sources, connection, brokerReady, lastPublished, pending, publisher, tasks, requests,
                   toBroker, broker>>

Publication == PublishStart \/ Publish \/ PublishEnd
ReadyTask(port) == ReadyState(port) \/ SendReady(port)
AckTask == AckState \/ AckQueue
RequestTask(r) == Capture(r) \/ SyncState(r) \/ SyncQueue(r) \/ SyncAwait(r) \/ SyncResume(r) \/ Respond(r)

Next ==
    \/ Publication \/ SourceChanged \/ Reconcile \/ ConnectBroker \/ Disconnect
    \/ (\E port \in 1..MaxPorts : ReadyTask(port))
    \/ HandleReadyAck \/ AckTask \/ HandleRequest
    \/ (\E r \in Requests : RequestTask(r) \/ TimeOut(r) \/ BrokerRequest(r))
    \/ BrokerRead

Spec == Init /\ [][Next]_vars

\* The event loop runs every task that can run, and messages arrive.
Fairness ==
    /\ WF_vars(Publication) /\ WF_vars(Reconcile) /\ WF_vars(AckTask)
    /\ WF_vars(HandleReadyAck) /\ WF_vars(HandleRequest) /\ WF_vars(BrokerRead)
    /\ \A port \in 1..MaxPorts : WF_vars(ReadyTask(port))
    /\ \A r \in Requests : WF_vars(RequestTask(r))

FairSpec == Spec /\ Fairness

-----------------------------------------------------------------------------
(* Properties *)

IsState(i) == toBroker[i].type # "response"

\* Each connection carries ready first and once, and then only capability states
\* that are newer than the one before; none of them was meant for an earlier
\* connection.
PublishedInOrder ==
    \A i \in DOMAIN toBroker : IsState(i) =>
        /\ toBroker[i].port = nativePort
        /\ toBroker[i].revision > broker
        /\ (toBroker[i].type = "ready") <=> (broker = 0 /\ \A j \in 1..i - 1 : ~IsState(j))
        /\ \A j \in 1..i - 1 : IsState(j) => toBroker[j].revision < toBroker[i].revision

\* The answer to browser.snapshot comes after the capability state that its
\* capture belongs to, so that the broker knows of every support flag in it.
SnapshotAfterItsState ==
    \A i \in DOMAIN toBroker : toBroker[i].type = "response" =>
        \/ toBroker[i].revision <= broker
        \/ \E j \in 1..i - 1 : IsState(j) /\ toBroker[j].revision >= toBroker[i].revision

\* Both at once, with the types.
StatesInOrder ==
    /\ TypeOK
    /\ PublishedInOrder
    /\ SnapshotAfterItsState

\* Once nothing changes any more, a broker that is connected gets to know the
\* latest state, although a publication is dropped when its port goes away.
EventuallyCurrent == <>[](brokerReady => broker = facts)

\* synchronizeCapabilityPublication comes to an end.
EventuallyAnswered ==
    \A r \in Requests : (requests[r].at # "none") ~> (requests[r].at = "done")

\* The invariant that StatesInOrder rests on: a connection is silent until its
\* ready; what the publisher is about to post is newer than what the port was
\* sent, and that is under way or known; and a request that has looked for its
\* state belongs to a connection that is ready.
SilentUntilReady ==
    /\ nativePort = 0 => toBroker = <<>> /\ toExtension = <<>> /\ broker = 0
    /\ nativePort # 0 /\ ready[nativePort].at # "done" => toBroker = <<>> /\ broker = 0
    /\ broker = 0 =>
           /\ ~brokerReady /\ toExtension = <<>>
           /\ toBroker = <<>> \/ (Len(toBroker) = 1 /\ toBroker[1].type = "ready")
    /\ \A port \in 1..MaxPorts : ready[port].at = "post" => ready[port].state # 0

LastIsUnderway ==
    nativePort # 0 =>
        /\ broker <= lastPublished
        /\ \A i \in DOMAIN toBroker : IsState(i) => toBroker[i].revision <= lastPublished
        /\ \/ ready[nativePort].at # "done" \/ lastPublished = broker
           \/ \E i \in DOMAIN toBroker : IsState(i) /\ toBroker[i].revision = lastPublished

PublisherIsAhead ==
    /\ publisher.port <= ports
    /\ publisher.at = "instance" =>
           /\ publisher.port # 0
           /\ publisher.port = nativePort => brokerReady /\ publisher.state > lastPublished

RequestsHold ==
    \A r \in Requests :
        /\ requests[r].port <= ports
        /\ requests[r].at \notin {"none", "done"} =>
               requests[r].port # 0 /\ (requests[r].port = nativePort => brokerReady)
        /\ requests[r].at \in {"state", "queue", "loop", "publication", "replaced"} =>
               requests[r].capture \in 1..facts
        /\ requests[r].at \in {"queue", "loop", "publication", "replaced"} =>
               requests[r].capture <= requests[r].state

IInv ==
    /\ StatesInOrder
    /\ SilentUntilReady
    /\ LastIsUnderway
    /\ PublisherIsAhead
    /\ RequestsHold

=============================================================================
