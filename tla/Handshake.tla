------------------------------ MODULE Handshake ------------------------------
(***************************************************************************)
(* The dialogue of the extension and the broker: ready and ready_ack,        *)
(* capability changes, requests and responses, with every message going      *)
(* through the checks of ProtocolRules at its receiver (native_reader in     *)
(* native/src/broker.rs, BrokerRuntime in native/src/runtime.rs,             *)
(* extension/background-controller.js).  Each end closes the connection at    *)
(* the first message that it does not accept.                                *)
(***************************************************************************)
EXTENDS ProtocolRules

CONSTANTS Builds,          \* of the extension: versions and implementations
          FactSets,        \* what the extension may find out about its capabilities
          Errors,          \* that a method may end with
          Budgets,         \* milliseconds left when a request is written
          RequestIds,      \* for as many requests (bound); each is a new UUID
          MaxRevision      \* bound: capability revisions

\* What the extension finds out about a branch; this build implements snapshots only.
Facts == [implemented : BOOLEAN, desired : BOOLEAN, granted : BOOLEAN,
          supported : BOOLEAN, probe_passed : BOOLEAN]

\* The methods and the names the extension sends are within the broker's bounds,
\* and a request is written with some of its time left.
ASSUME HandshakeAssumption ==
    /\ MaxRevision \in Nat \ {0}
    /\ READ_DEADLINE_MS \in Nat \ {0} /\ Budgets \subseteq Nat \ {0}
    /\ IsFiniteSet(Methods) /\ "browser.snapshot" \in Methods
    /\ MAX_IMPLEMENTATION_ENTRIES \in Nat /\ Cardinality(Methods) <= MAX_IMPLEMENTATION_ENTRIES
    /\ \A method \in Methods : ValidBounded(method, 128) /\ method \notin BadMethods
    /\ ValidBounded("instance", 256) /\ ValidBounded("userAgent", 512)
    /\ \A name \in {"extension", "version"} \cup RequestIds : ValidBounded(name, 64)
    /\ FactSets \subseteq [Branches -> Facts]
    /\ \A known \in FactSets, branch \in Branches \ {"browserSnapshot"} : ~known[branch].implemented

VARIABLES
    build,         \* the extension's build
    facts,         \* its facts
    revision,      \* its capability revision
    extension,     \* "offline", "waiting", "ready" or "closed"
    in_flight,     \* ids of the requests it is working on
    broker,        \* "waiting", "ready" or "failed"
    connected,     \* ConnectedBrowser, an Option
    requests,      \* ids of the requests the broker has written
    to_broker, to_extension    \* messages under way

vars == <<build, facts, revision, extension, in_flight, broker, connected, requests,
          to_broker, to_extension>>

TypeOK ==
    /\ build \in Builds
    /\ facts \in FactSets
    /\ revision \in 1..MaxRevision
    /\ extension \in {"offline", "waiting", "ready", "closed"}
    /\ broker \in {"waiting", "ready", "failed"}
    /\ Cardinality(connected) <= 1
    /\ in_flight \subseteq RequestIds /\ requests \subseteq RequestIds
    /\ \A i \in DOMAIN to_broker :
           to_broker[i].type \in {"ready", "capabilities_changed", "response"}
    /\ \A i \in DOMAIN to_extension : to_extension[i].type \in {"ready_ack", "request"}

\* An extension of one of builds, which finds one of fact_sets, meets the broker.
DialogueInit(builds, fact_sets) ==
    /\ build \in builds
    /\ facts \in fact_sets
    /\ revision = 1
    /\ extension = "offline"
    /\ broker = "waiting"
    /\ connected = {}
    /\ in_flight = {} /\ requests = {}
    /\ to_broker = <<>>
    /\ to_extension = <<>>

-----------------------------------------------------------------------------
(* The extension *)

SendReady ==
    /\ extension = "offline"
    /\ extension' = "waiting"
    /\ to_broker' = Append(to_broker,
           [type |-> "ready", protocol_version |-> build.protocol_version,
            protocol_abi_revision |-> build.protocol_abi_revision,
            implementations |-> build.implementations, browser_instance_id |-> "instance",
            extension_id |-> "extension", extension_version |-> "version",
            user_agent |-> "userAgent", capability_revision |-> revision,
            capabilities |-> Reported(facts)])
    /\ UNCHANGED <<build, facts, revision, in_flight, broker, connected, requests, to_extension>>

DisconnectPort == extension' = "closed" /\ in_flight' = {}

\* A second acknowledgement is as bad as a wrong one.
HandleReadyAck ==
    /\ extension \in {"waiting", "ready"}
    /\ to_extension # <<>> /\ Head(to_extension).type = "ready_ack"
    /\ to_extension' = Tail(to_extension)
    /\ IF extension = "waiting" /\ ValidateReadyAck(build, Head(to_extension))
       THEN extension' = "ready" /\ UNCHANGED in_flight
       ELSE DisconnectPort
    /\ UNCHANGED <<build, facts, revision, broker, connected, requests, to_broker>>

PublishCapabilitiesChanged ==
    /\ extension = "ready"
    /\ revision < MaxRevision
    /\ facts' \in FactSets \ {facts}
    /\ revision' = revision + 1
    /\ to_broker' = Append(to_broker,
           [type |-> "capabilities_changed", browser_instance_id |-> "instance",
            capability_revision |-> revision', capabilities |-> Reported(facts')])
    /\ UNCHANGED <<build, extension, in_flight, broker, connected, requests, to_extension>>

\* Why the extension answers a request at once, if it does.
Refusal(message) ==
    IF ~ValidateRequest(message, build.implementations) THEN {"INVALID_REQUEST"}
    ELSE IF extension # "ready" THEN {"PROTOCOL_NOT_READY"}
    ELSE {}

HandleRequest ==
    /\ extension \in {"waiting", "ready"}
    /\ to_extension # <<>> /\ Head(to_extension).type = "request"
    /\ to_extension' = Tail(to_extension)
    /\ LET message == Head(to_extension)
       IN IF Refusal(message) # {}
          THEN /\ \E code \in Refusal(message) :
                      to_broker' = Append(to_broker,
                          ErrorResponse("instance", message.request_id, code, "notDispatched"))
               /\ UNCHANGED <<extension, in_flight>>
          ELSE /\ IF message.request_id \in in_flight THEN DisconnectPort
                  ELSE in_flight' = in_flight \cup {message.request_id} /\ UNCHANGED extension
               /\ UNCHANGED to_broker
    /\ UNCHANGED <<build, facts, revision, broker, connected, requests>>

\* (a wrong variant: a read that failed says that its outcome is unknown)
AnswerUnknown(request_id) ==
    {ErrorResponse("instance", request_id, "TIMEOUT", "unknown")}

\* A result, one that is too large, or an error of the method.
Answer(request_id) ==
    {SuccessResponse("instance", request_id, too_large) : too_large \in BOOLEAN} \cup
    {ErrorResponse("instance", request_id, PublicError(error), "completed") : error \in Errors}

\* The method has come to an end, whatever has happened in the meantime.
Respond ==
    /\ extension = "ready"
    /\ \E request_id \in in_flight :
           /\ in_flight' = in_flight \ {request_id}
           /\ \E answer \in Answer(request_id) : to_broker' = Append(to_broker, answer)
    /\ UNCHANGED <<build, facts, revision, extension, broker, connected, requests, to_extension>>

-----------------------------------------------------------------------------
(* The broker *)

\* The next message, which has passed parse_incoming.
Received(type) ==
    /\ broker # "failed"
    /\ to_broker # <<>> /\ Head(to_broker).type = type /\ ParseIncoming(Head(to_broker))
    /\ to_broker' = Tail(to_broker)

Bail ==
    /\ broker' = "failed"
    /\ UNCHANGED <<build, facts, revision, extension, in_flight, connected, requests, to_extension>>

ReadUnparsable ==
    /\ broker # "failed"
    /\ to_broker # <<>> /\ ~ParseIncoming(Head(to_broker))
    /\ to_broker' = Tail(to_broker)
    /\ Bail

ReadReady ==
    /\ Received("ready")
    /\ LET message == Head(to_broker)
       IN IF broker = "ready" \/ ~Negotiates(message.implementations) THEN Bail
          ELSE /\ broker' = "ready"
               /\ connected' = {[capability_revision |-> message.capability_revision,
                                 capabilities |-> message.capabilities,
                                 implementations |-> LocalImplementations]}
               /\ to_extension' = Append(to_extension,
                      [type |-> "ready_ack",
                       protocol_version |-> INTERNAL_PROTOCOL_VERSION,
                       protocol_abi_revision |-> PROTOCOL_ABI_REVISION,
                       implementations |-> LocalImplementations])
               /\ UNCHANGED <<build, facts, revision, extension, in_flight, requests>>

\* A state that is not newer is ignored.
Applied(message, browser) ==
    IF message.capability_revision <= browser.capability_revision THEN browser
    ELSE [browser EXCEPT !.capability_revision = message.capability_revision,
                         !.capabilities = message.capabilities]

\* apply_capabilities: against what was negotiated, not what the extension has.
ReadCapabilitiesChanged ==
    /\ Received("capabilities_changed")
    /\ LET message == Head(to_broker)
       IN IF \E browser \in connected :
                 \/ message.capability_revision <= browser.capability_revision
                 \/ ValidCapabilityImplementations(message.capabilities, browser.implementations)
          THEN /\ connected' = {Applied(message, browser) : browser \in connected}
               /\ UNCHANGED <<build, facts, revision, extension, in_flight, broker, requests,
                              to_extension>>
          ELSE Bail

ReadResponse ==
    /\ Received("response")
    /\ IF connected # {} /\ ValidForMethod(Head(to_broker))
       THEN UNCHANGED <<build, facts, revision, extension, in_flight, broker, connected, requests,
                        to_extension>>
       ELSE Bail

\* A request for a tool that the client could see, with some of its time left.
WriteRequest ==
    /\ broker = "ready"
    /\ \E request_id \in RequestIds \ requests, browser \in connected, budget \in Budgets :
           \E method \in VisibleTools(browser.capabilities, browser.implementations) :
               /\ to_extension' = Append(to_extension, Request(method, request_id, budget))
               /\ requests' = requests \cup {request_id}
    /\ UNCHANGED <<build, facts, revision, extension, in_flight, broker, connected, to_broker>>

Next ==
    \/ SendReady \/ HandleReadyAck \/ PublishCapabilitiesChanged \/ HandleRequest \/ Respond
    \/ ReadUnparsable \/ ReadReady \/ ReadCapabilitiesChanged \/ ReadResponse \/ WriteRequest

Init == DialogueInit(Builds, FactSets)
Spec == Init /\ [][Next]_vars

-----------------------------------------------------------------------------
(* Properties *)

ThisBuild == [protocol_version |-> INTERNAL_PROTOCOL_VERSION,
              protocol_abi_revision |-> PROTOCOL_ABI_REVISION,
              implementations |-> LocalImplementations]

\* Two ends of this repository never send each other anything that the other
\* end refuses: every capability state the extension can report, every answer
\* it can give and every request the broker can write passes the other's checks.
MatchedPeersStayConnected ==
    build = ThisBuild =>
        /\ broker # "failed" /\ extension # "closed"
        /\ \A i \in DOMAIN to_extension :
               to_extension[i].type = "request" =>
                   ValidateRequest(to_extension[i], build.implementations)

\* Builds that do not fit do not get past the handshake, at either end
\* (docs/architecture/failure-modes.md, "Fail the handshake visibly with no
\* downgrade"): who is ready has a peer of its own protocol that implements all
\* of the broker's entries, at the broker's revisions.
MixedBuildsNeverReady ==
    broker = "ready" \/ extension = "ready" =>
        /\ build.protocol_version = INTERNAL_PROTOCOL_VERSION
        /\ build.protocol_abi_revision = PROTOCOL_ABI_REVISION
        /\ Range(LocalImplementations) \subseteq Range(build.implementations)

\* A tool that tools/list shows is one that the capability check of its call
\* lets through, and the other way round (DiscoverySnapshot::connected, allows,
\* require_capability).
VisibleIsCallable ==
    \A browser \in connected : \A tool \in Methods :
        tool \in VisibleTools(browser.capabilities, browser.implementations) <=>
            RequireCapability(browser.capabilities, "browserSnapshot") = {}

\* All of this about this build, with the types.
PeersAgree ==
    /\ TypeOK
    /\ MatchedPeersStayConnected
    /\ VisibleIsCallable

=============================================================================
