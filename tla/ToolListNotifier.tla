-------------------------- MODULE ToolListNotifier ---------------------------
(***************************************************************************)
(* How MCP clients learn that the tool list changed: registration and       *)
(* publication in native/src/runtime.rs, the channel of one place in         *)
(* native/src/capabilities.rs, legacy sessions and subscriptions in          *)
(* native/src/mcp.rs.  The reader task publishes, each client registers and  *)
(* listens in tasks of its own; between two lock regions anything can happen.*)
(*                                                                         *)
(* A discovery is its number, 0 before the handshake; a notifier is named by *)
(* the client that made it.  Subscriptions share one queue of notifiers and  *)
(* take the first, which need not be their own.                             *)
(***************************************************************************)
EXTENDS Integers, Sequences, FiniteSets

\* ToolsAssumption of Runtime, which instantiates this module, says what they are.
CONSTANTS Legacy,           \* sessions that are notified from on_initialized on
          Subscriptions,    \* subscriptions to one session
          MaxDiscovery      \* bound: connect and capability changes

Clients == Legacy \cup Subscriptions

VARIABLES
    discovery,     \* RuntimeState.discovery
    notifiers,     \* tool_list_notifiers, weak references
    publisher,     \* the reader: "idle", "collect" or "notify"
    pending,       \* notifiers that it still has to notify
    channel,       \* notifiers with a message in their channel
    queue,         \* subscription_notifiers
    pc,            \* of each client
    receiver,      \* the notifier that a client listens to
    told,          \* clients with a list_changed notification not acted on
    seen           \* the discovery of a client's latest tool list

vars == <<discovery, notifiers, publisher, pending, channel, queue, pc, receiver, told, seen>>

PCs == {"absent", "inserted", "replay", "registered", "accepted", "listening", "notifying", "gone"}

TypeOK ==
    /\ discovery \in 0..MaxDiscovery
    /\ notifiers \subseteq Clients
    /\ publisher \in {"idle", "collect", "notify"}
    /\ pending \subseteq Clients
    /\ channel \subseteq Clients
    /\ queue \in Seq(Subscriptions)
    /\ pc \in [Clients -> PCs]
    /\ receiver \in [Clients -> Clients]
    /\ told \subseteq Clients
    /\ seen \in [Clients -> 0..MaxDiscovery]

Init ==
    /\ discovery = 0
    /\ notifiers = {}
    /\ publisher = "idle"
    /\ pending = {}
    /\ channel = {}
    /\ queue = <<>>
    /\ pc = [c \in Clients |-> "absent"]
    /\ receiver = [c \in Clients |-> c]
    /\ told = {}
    /\ seen = [c \in Clients |-> 0]

Listening(c) == pc[c] \in {"listening", "notifying"}
Queued(n) == \E i \in DOMAIN queue : queue[i] = n

\* Weak::upgrade: somebody still holds the notifier.
Upgrades(n) ==
    \/ pc[n] \in {"inserted", "replay", "registered"}
    \/ Queued(n)
    \/ n \in pending
    \/ \E c \in Clients : Listening(c) /\ receiver[c] = n

-----------------------------------------------------------------------------
(* The reader task: connect, apply_capabilities, notify_tool_list_changed *)

Publish ==
    /\ publisher = "idle"
    /\ discovery < MaxDiscovery
    /\ discovery' = discovery + 1
    /\ publisher' = "collect"
    /\ UNCHANGED <<notifiers, pending, channel, queue, pc, receiver, told, seen>>

Collect ==
    /\ publisher = "collect"
    /\ notifiers' = {n \in notifiers : Upgrades(n)}
    /\ pending' = notifiers'
    /\ publisher' = "notify"
    /\ UNCHANGED <<discovery, channel, queue, pc, receiver, told, seen>>

\* (a wrong variant: the first notifier ends the loop)
NotifyOnce ==
    /\ publisher = "notify"
    /\ \E n \in pending : channel' = channel \cup {n}
    /\ pending' = {} /\ publisher' = "idle"
    /\ UNCHANGED <<discovery, notifiers, queue, pc, receiver, told, seen>>

\* One notifier; a full channel already says what there is to say.
Notify ==
    /\ publisher = "notify"
    /\ IF pending = {} THEN publisher' = "idle" /\ UNCHANGED <<pending, channel>>
       ELSE /\ \E n \in pending : pending' = pending \ {n} /\ channel' = channel \cup {n}
            /\ UNCHANGED publisher
    /\ UNCHANGED <<discovery, notifiers, queue, pc, receiver, told, seen>>

-----------------------------------------------------------------------------
(* A client registers: on_initialized, accepted_subscription_filter *)

Insert(c) ==
    /\ pc[c] = "absent"
    /\ notifiers' = {n \in notifiers : Upgrades(n)} \cup {c}
    /\ pc' = [pc EXCEPT ![c] = "inserted"]
    /\ UNCHANGED <<discovery, publisher, pending, channel, queue, receiver, told, seen>>

\* (a wrong variant: only later changes are news)
ReadDiscoveryIgnored(c) ==
    /\ pc[c] = "inserted"
    /\ pc' = [pc EXCEPT ![c] = "registered"]
    /\ UNCHANGED <<discovery, notifiers, publisher, pending, channel, queue, receiver, told, seen>>

ReadDiscovery(c) ==
    /\ pc[c] = "inserted"
    /\ pc' = [pc EXCEPT ![c] = IF discovery = 0 THEN "registered" ELSE "replay"]
    /\ UNCHANGED <<discovery, notifiers, publisher, pending, channel, queue, receiver, told, seen>>

\* An already published state is announced like a change.
Replay(c) ==
    /\ pc[c] = "replay"
    /\ channel' = channel \cup {c}
    /\ pc' = [pc EXCEPT ![c] = "registered"]
    /\ UNCHANGED <<discovery, notifiers, publisher, pending, queue, receiver, told, seen>>

\* start_legacy takes the receiver of the session's own notifier.
StartLegacy(c) ==
    /\ c \in Legacy
    /\ pc[c] = "registered"
    /\ pc' = [pc EXCEPT ![c] = "listening"]
    /\ UNCHANGED <<discovery, notifiers, publisher, pending, channel, queue, receiver, told, seen>>

PushBack(c) ==
    /\ c \in Subscriptions
    /\ pc[c] = "registered"
    /\ queue' = Append(queue, c)
    /\ pc' = [pc EXCEPT ![c] = "accepted"]
    /\ UNCHANGED <<discovery, notifiers, publisher, pending, channel, receiver, told, seen>>

\* (a wrong variant: the notifier stays in the queue)
PeekFront(c) ==
    /\ pc[c] = "accepted"
    /\ queue # <<>>
    /\ receiver' = [receiver EXCEPT ![c] = Head(queue)]
    /\ pc' = [pc EXCEPT ![c] = "listening"]
    /\ UNCHANGED <<discovery, notifiers, publisher, pending, channel, queue, told, seen>>

\* listen takes the first notifier, whoever put it there.
PopFront(c) ==
    /\ pc[c] = "accepted"
    /\ queue # <<>>
    /\ receiver' = [receiver EXCEPT ![c] = Head(queue)]
    /\ queue' = Tail(queue)
    /\ pc' = [pc EXCEPT ![c] = "listening"]
    /\ UNCHANGED <<discovery, notifiers, publisher, pending, channel, told, seen>>

-----------------------------------------------------------------------------
(* A client listens: the loop of start_legacy and of ToolListNotifier::listen *)

Recv(c) ==
    /\ pc[c] = "listening"
    /\ receiver[c] \in channel
    /\ channel' = channel \ {receiver[c]}
    /\ pc' = [pc EXCEPT ![c] = "notifying"]
    /\ UNCHANGED <<discovery, notifiers, publisher, pending, queue, receiver, told, seen>>

NotifyPeer(c) ==
    /\ pc[c] = "notifying"
    /\ told' = told \cup {c}
    /\ pc' = [pc EXCEPT ![c] = "listening"]
    /\ UNCHANGED <<discovery, notifiers, publisher, pending, channel, queue, receiver, seen>>

ListTools(c) ==
    /\ pc[c] \notin {"absent", "gone"}
    /\ told' = told \ {c}
    /\ seen' = [seen EXCEPT ![c] = discovery]
    /\ UNCHANGED <<discovery, notifiers, publisher, pending, channel, queue, pc, receiver>>

\* The client goes, at any point; a notifier in the queue stays there.
Leave(c) ==
    /\ pc[c] \notin {"absent", "gone"}
    /\ pc' = [pc EXCEPT ![c] = "gone"]
    /\ UNCHANGED <<discovery, notifiers, publisher, pending, channel, queue, receiver, told, seen>>

Reader == Publish \/ Collect \/ Notify
Task(c) == \/ ReadDiscovery(c) \/ Replay(c) \/ StartLegacy(c) \/ PushBack(c) \/ PopFront(c)
           \/ Recv(c) \/ NotifyPeer(c)
Next == \/ Reader
        \/ \E c \in Clients : Insert(c) \/ Task(c) \/ ListTools(c) \/ Leave(c)

Spec == Init /\ [][Next]_vars

\* The reader's loop over the notifiers and every client's tasks run on; a
\* client that was told lists the tools again.  Nobody has to join or change.
Fairness ==
    /\ WF_vars(Collect) /\ WF_vars(Notify)
    /\ \A c \in Clients : WF_vars(Task(c)) /\ WF_vars(c \in told /\ ListTools(c))
FairSpec == Spec /\ Fairness

-----------------------------------------------------------------------------
(* Properties *)

\* News for the holder of this notifier are in its channel or on their way.
Underway(n) == n \in channel \/ n \in pending \/ publisher = "collect"

\* A client that listens and has not seen the current tools will be told: no
\* interleaving of a registration with a publication loses the change, and no
\* message that a full channel refuses is missed (register_tool_list_notifier,
\* "Insertion precedes this read"; notify).
NoLostUpdate ==
    \A c \in Clients :
        Listening(c) /\ seen[c] # discovery =>
            c \in told \/ pc[c] = "notifying" \/ Underway(receiver[c])

\* Two subscriptions never share a receiver, and each that was accepted finds
\* one, also if others went between their acceptance and their listen
\* (accepted_subscription_filter and listen in native/src/mcp.rs: "tool-list
\* subscription state was unavailable" cannot happen).
OwnReceiver ==
    /\ \A c, d \in Clients : Listening(c) /\ Listening(d) /\ receiver[c] = receiver[d] => c = d
    /\ Cardinality({c \in Clients : pc[c] = "accepted"}) <= Len(queue)

\* Every client that has joined and stays will, after each change, have listed
\* the current tools.
EveryClientCatchesUp ==
    \A c \in Clients : pc[c] # "absent" ~> (pc[c] = "gone" \/ seen[c] = discovery)

\* The invariant that these rest on: a notifier that somebody holds is in the
\* list, so that no publication misses it; one that nobody has listened to has
\* news since the handshake; and every notifier is passed on to one client.
Unheard(n) == pc[n] = "registered" \/ Queued(n)
Pushed(n) == n \in Subscriptions /\ pc[n] \in {"accepted", "listening", "notifying", "gone"}

HeldIsListed == \A n \in Clients : Upgrades(n) => n \in notifiers
UnheardHasNews == \A n \in Clients : Unheard(n) /\ discovery # 0 => Underway(n)
QueueIsPushed ==
    /\ \A i, j \in DOMAIN queue : queue[i] = queue[j] => i = j
    /\ \A i \in DOMAIN queue : Pushed(queue[i])
Handover ==
    /\ \A c \in Legacy : receiver[c] = c /\ pc[c] # "accepted"
    /\ \A c \in Subscriptions : Listening(c) => Pushed(receiver[c])
    /\ \A c \in Clients : Listening(c) => ~Queued(receiver[c])
    /\ \A c, d \in Clients : Listening(c) /\ Listening(d) /\ receiver[c] = receiver[d] => c = d

IInv ==
    /\ TypeOK
    /\ publisher # "notify" => pending = {}
    /\ \A c \in Clients : seen[c] <= discovery
    /\ HeldIsListed
    /\ UnheardHasNews
    /\ NoLostUpdate
    /\ QueueIsPushed
    /\ Handover

=============================================================================
