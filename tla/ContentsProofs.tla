--------------------------- MODULE ContentsProofs ----------------------------
(***************************************************************************)
(* Theorems about what MCContents runs together, the contents of messages.   *)
(*                                                                         *)
(* Handshake, for any builds, facts and limits.  Who is ready has a peer   *)
(* that fits: the broker is ready, and acknowledges, only after a ready    *)
(* that says what the build is; the extension is ready only after that     *)
(* acknowledgement.  And two ends of this build agree: what either says of *)
(* itself passes the other's checks, and comes in the order both expect.   *)
(*                                                                         *)
(* SnapshotPaging, for any parameters and any answer of the extension's    *)
(* types.  The pages of a snapshot are exact: between them they show every *)
(* matching tab once, in its window and its group, and every page is one   *)
(* section of the matches in their order.                                  *)
(***************************************************************************)
EXTENDS Handshake, SnapshotPaging, SequenceTheorems, FiniteSetTheorems, FunctionTheorems,
        WellFoundedInduction, TLAPS

\* What MixedBuildsNeverReady asks of the build.
Fits ==
    /\ build.protocol_version = INTERNAL_PROTOCOL_VERSION
    /\ build.protocol_abi_revision = PROTOCOL_ABI_REVISION
    /\ Range(LocalImplementations) \subseteq Range(build.implementations)

\* A ready tells the truth about the build.
Truthful(message) ==
    message.type = "ready" =>
        /\ message.protocol_version = build.protocol_version
        /\ message.protocol_abi_revision = build.protocol_abi_revision
        /\ message.implementations = build.implementations

IsSequence(q) == \E S : q \in Seq(S)

IInv ==
    /\ IsSequence(to_broker) /\ \A i \in 1..Len(to_broker) : Truthful(to_broker[i])
    /\ IsSequence(to_extension)
    /\ \A i \in 1..Len(to_extension) : to_extension[i].type = "ready_ack" => Fits
    /\ broker = "ready" \/ extension = "ready" => Fits

-----------------------------------------------------------------------------
(* Sequences *)

LEMMA Appended ==
    ASSUME NEW q, IsSequence(q), NEW m
    PROVE  /\ IsSequence(Append(q, m)) /\ Len(q) \in Nat /\ Len(Append(q, m)) = Len(q) + 1
           /\ \A i \in 1..Len(Append(q, m)) : Append(q, m)[i] = m \/ (i \in 1..Len(q) /\ Append(q, m)[i] = q[i])
  <1>1. PICK S : q \in Seq(S)
    BY DEF IsSequence
  <1>2. q \in Seq(S \cup {m}) /\ m \in S \cup {m}
    BY <1>1
  <1>3. Append(q, m) \in Seq(S \cup {m})
    BY <1>2
  <1>4. Len(Append(q, m)) = Len(q) + 1 /\ Len(q) \in Nat
    BY <1>2
  <1>5. \A i \in 1..Len(q) + 1 : Append(q, m)[i] = IF i = Len(q) + 1 THEN m ELSE q[i]
    BY <1>2
  <1>6. QED BY <1>3, <1>4, <1>5 DEF IsSequence

LEMMA Rest ==
    ASSUME NEW q, IsSequence(q), q # <<>>
    PROVE  /\ IsSequence(Tail(q)) /\ Len(q) \in Nat \ {0} /\ Len(Tail(q)) = Len(q) - 1
           /\ \A i \in 1..Len(Tail(q)) : i + 1 \in 1..Len(q) /\ Tail(q)[i] = q[i + 1]
           /\ 1 \in 1..Len(q) /\ Head(q) = q[1]
  <1>1. PICK S : q \in Seq(S)
    BY DEF IsSequence
  <1>2. Tail(q) \in Seq(S) /\ Len(Tail(q)) = Len(q) - 1 /\ Len(q) \in Nat \ {0}
    BY <1>1
  <1>3. \A i \in 1..Len(q) - 1 : Tail(q)[i] = q[i + 1]
    BY <1>1
  <1>4. QED BY <1>2, <1>3 DEF IsSequence

-----------------------------------------------------------------------------
(* The steps *)

LEMMA SendReadyKeeps == ASSUME IInv, SendReady PROVE IInv'
  <1>1. PICK m : to_broker' = Append(to_broker, m) /\ Truthful(m)
    BY DEF SendReady, Truthful
  <1>2. IsSequence(to_broker') /\ \A i \in 1..Len(to_broker') : Truthful(to_broker'[i])
    BY <1>1, Appended DEF IInv
  <1>3. UNCHANGED <<build, broker, to_extension>> /\ extension' # "ready"
    BY DEF SendReady
  <1>4. QED BY <1>2, <1>3 DEF IInv, Truthful, Fits, IsSequence

LEMMA PublishKeeps ==
    ASSUME IInv, PublishCapabilitiesChanged \/ Respond
    PROVE  IInv'
  <1>1. PICK m : to_broker' = Append(to_broker, m) /\ m.type # "ready"
    <2>1. CASE PublishCapabilitiesChanged
      BY <2>1 DEF PublishCapabilitiesChanged
    <2>2. CASE Respond
      <3>1. PICK request_id \in in_flight :
                \E answer \in Answer(request_id) : to_broker' = Append(to_broker, answer)
        BY <2>2 DEF Respond
      <3>2. PICK answer \in Answer(request_id) : to_broker' = Append(to_broker, answer)
        BY <3>1
      <3>3. answer.type = "response"
        BY <3>2 DEF Answer, SuccessResponse, ErrorResponse
      <3>4. QED BY <3>2, <3>3
    <2>3. QED BY <2>1, <2>2
  <1>2. IsSequence(to_broker') /\ \A i \in 1..Len(to_broker') : Truthful(to_broker'[i])
    BY <1>1, Appended DEF IInv, Truthful
  <1>3. UNCHANGED <<build, broker, extension, to_extension>>
    BY DEF PublishCapabilitiesChanged, Respond
  <1>4. QED BY <1>2, <1>3 DEF IInv, Truthful, Fits

\* What a request may make the extension say and do.
LEMMA Handled ==
    ASSUME HandleRequest
    PROVE  /\ to_extension # <<>> /\ to_extension' = Tail(to_extension) /\ Head(to_extension).type = "request"
           /\ UNCHANGED <<build, facts, revision, broker, connected, requests>>
           /\ \/ /\ \E code : to_broker' = Append(to_broker, ErrorResponse(
                                   "instance", Head(to_extension).request_id, code, "notDispatched"))
                 /\ UNCHANGED <<extension, in_flight>>
              \/ /\ Head(to_extension).request_id \in in_flight
                 /\ extension' = "closed" /\ in_flight' = {} /\ UNCHANGED to_broker
              \/ /\ Head(to_extension).request_id \notin in_flight
                 /\ in_flight' = in_flight \cup {Head(to_extension).request_id}
                 /\ UNCHANGED <<extension, to_broker>>
  BY DEF HandleRequest, DisconnectPort

LEMMA HandleRequestKeeps == ASSUME IInv, HandleRequest PROVE IInv'
  <1>1. /\ to_extension # <<>> /\ to_extension' = Tail(to_extension) /\ UNCHANGED <<build, broker>>
        /\ extension' \in {extension, "closed"}
    BY Handled
  <1>2. IsSequence(to_broker') /\ \A i \in 1..Len(to_broker') : Truthful(to_broker'[i])
    <2>1. CASE UNCHANGED to_broker
      BY <2>1 DEF IInv
    <2>2. CASE \E code : to_broker' = Append(to_broker, ErrorResponse(
                              "instance", Head(to_extension).request_id, code, "notDispatched"))
      <3>1. PICK m : to_broker' = Append(to_broker, m) /\ m.type = "response"
        BY <2>2 DEF ErrorResponse
      <3>2. QED BY <3>1, Appended DEF IInv, Truthful
    <2>3. QED BY <2>1, <2>2, Handled
  <1>3. IsSequence(to_extension') /\ \A i \in 1..Len(to_extension') : to_extension'[i].type = "ready_ack" => Fits
    BY <1>1, Rest DEF IInv
  <1>4. QED BY <1>1, <1>2, <1>3 DEF IInv, Truthful, Fits

LEMMA AckKeeps == ASSUME IInv, HandleReadyAck PROVE IInv'
  <1>1. Fits
    BY Rest DEF IInv, HandleReadyAck
  <1>2. UNCHANGED <<build, broker, to_broker>> /\ to_extension' = Tail(to_extension) /\ to_extension # <<>>
    BY DEF HandleReadyAck
  <1>3. QED BY <1>1, <1>2, Rest DEF IInv, Fits, Truthful

\* The broker reads: the message is gone, and no new one on the way to it.
LEMMA ReadKeeps ==
    ASSUME IInv, ReadUnparsable \/ ReadReady \/ ReadCapabilitiesChanged \/ ReadResponse
    PROVE  IInv'
  <1>1. to_broker # <<>> /\ to_broker' = Tail(to_broker) /\ UNCHANGED build
    BY DEF ReadUnparsable, ReadReady, ReadCapabilitiesChanged, ReadResponse, Received, Bail
  <1>2. IsSequence(to_broker') /\ \A i \in 1..Len(to_broker') : Truthful(to_broker'[i])
    BY <1>1, Rest DEF IInv
  <1>3. CASE UNCHANGED <<extension, to_extension>> /\ broker' \in {broker, "failed"}
    BY <1>1, <1>2, <1>3 DEF IInv, Truthful, Fits
  <1>4. CASE ReadReady /\ broker' = "ready"
    <2>1. Head(to_broker).type = "ready" /\ ValidReady(Head(to_broker)) /\ Negotiates(Head(to_broker).implementations)
      BY <1>4 DEF ReadReady, Received, ParseIncoming, Bail
    <2>2. Truthful(Head(to_broker))
      BY <1>1, Rest DEF IInv
    <2>3. Fits
      BY <2>1, <2>2 DEF Fits, Truthful, ValidReady, Negotiates
    <2>4. PICK m : to_extension' = Append(to_extension, m)
      BY <1>4 DEF ReadReady, Bail
    <2>5. IsSequence(to_extension')
      BY <2>4, Appended DEF IInv
    <2>6. QED BY <1>1, <1>2, <2>3, <2>5 DEF IInv, Truthful, Fits
  <1>5. QED
    BY <1>3, <1>4 DEF ReadUnparsable, ReadReady, ReadCapabilitiesChanged, ReadResponse, Bail

\* What the broker writes.
LEMMA Written ==
    ASSUME WriteRequest
    PROVE  /\ \E request_id \in RequestIds \ requests, method \in Methods, budget \in Budgets :
                  /\ to_extension' = Append(to_extension, Request(method, request_id, budget))
                  /\ Request(method, request_id, budget).type = "request"
                  /\ Request(method, request_id, budget).request_id = request_id
                  /\ requests' = requests \cup {request_id}
           /\ UNCHANGED <<build, facts, revision, extension, in_flight, broker, connected, to_broker>>
           /\ connected # {}
  <1>1. PICK request_id \in RequestIds \ requests, browser \in connected, budget \in Budgets :
            \E method \in VisibleTools(browser.capabilities, browser.implementations) :
                /\ to_extension' = Append(to_extension, Request(method, request_id, budget))
                /\ requests' = requests \cup {request_id}
    BY DEF WriteRequest
  <1>2. PICK method \in Methods :
            /\ to_extension' = Append(to_extension, Request(method, request_id, budget))
            /\ requests' = requests \cup {request_id}
    BY <1>1 DEF VisibleTools
  <1>3. /\ Request(method, request_id, budget).type = "request"
        /\ Request(method, request_id, budget).request_id = request_id
    BY DEF Request
  <1>4. QED BY <1>1, <1>2, <1>3 DEF WriteRequest

LEMMA WriteKeeps == ASSUME IInv, WriteRequest PROVE IInv'
  <1>1. PICK m : to_extension' = Append(to_extension, m) /\ m.type = "request"
    BY Written
  <1>2. IsSequence(to_extension') /\ \A i \in 1..Len(to_extension') : to_extension'[i].type = "ready_ack" => Fits
    BY <1>1, Appended DEF IInv
  <1>3. UNCHANGED <<build, extension, broker, to_broker>>
    BY DEF WriteRequest
  <1>4. QED BY <1>2, <1>3 DEF IInv, Truthful, Fits

LEMMA Invariance == Spec => []IInv
  <1>1. Init => IInv
    <2>1. <<>> \in Seq({})
      OBVIOUS
    <2>2. QED BY <2>1 DEF Init, DialogueInit, IInv, IsSequence
  <1>2. IInv /\ [Next]_vars => IInv'
    <2>1. CASE UNCHANGED vars
      BY <2>1 DEF vars, IInv, Truthful, Fits, IsSequence
    <2>2. QED BY <2>1, SendReadyKeeps, PublishKeeps, HandleRequestKeeps, AckKeeps, ReadKeeps,
                   WriteKeeps DEF Next
  <1>3. QED BY <1>1, <1>2, PTL DEF Spec

\* Builds that do not fit do not get past the handshake, at either end, whatever
\* messages are under way (parse_incoming, native_reader, validateReadyAck).
THEOREM OnlyFittingPeersAreReady == Spec => []MixedBuildsNeverReady
  <1>1. IInv => MixedBuildsNeverReady
    BY DEF IInv, Fits, MixedBuildsNeverReady
  <1>2. QED BY <1>1, Invariance, PTL

-----------------------------------------------------------------------------
(* Two ends of this build: what makes PeersAgree inductive.  The ready is the  *)
(* first message to the broker and alone on its way, the acknowledgement the   *)
(* first to the extension, and whatever follows it passes the other's checks.  *)

Typed ==
    /\ build \in Builds /\ facts \in FactSets
    /\ revision \in 1..MaxRevision
    /\ extension \in {"offline", "waiting", "ready", "closed"}
    /\ broker \in {"waiting", "ready", "failed"}
    /\ \A i \in 1..Len(to_broker) : to_broker[i].type \in {"ready", "capabilities_changed", "response"}
    /\ \A i \in 1..Len(to_extension) : to_extension[i].type \in {"ready_ack", "request"}

Ordered ==
    /\ extension = "offline" => broker = "waiting" /\ to_broker = <<>>
    /\ connected = {} => to_extension = <<>> /\ extension \in {"offline", "waiting"}
    /\ broker = "waiting" => connected = {}
    /\ broker = "ready" => connected # {}
    /\ connected = {} \/ \E browser \in connected : connected = {browser}
    /\ \A browser \in connected :
           "implementations" \in DOMAIN browser /\ browser.implementations = LocalImplementations
    /\ \A i \in 1..Len(to_broker) :
           IF to_broker[i].type = "ready"
           THEN Len(to_broker) = 1 /\ broker = "waiting" /\ extension = "waiting"
           ELSE connected # {}
    /\ \A i \in 1..Len(to_extension) :
           to_extension[i].type = "ready_ack" => i = 1 /\ extension = "waiting"

\* What this build's broker takes from a peer with its own entries.
Welcome(message) ==
    /\ ParseIncoming(message)
    /\ message.type = "ready" => Negotiates(message.implementations)
    /\ message.type = "capabilities_changed" =>
           ValidCapabilityImplementations(message.capabilities, LocalImplementations)
    /\ message.type = "response" => ValidForMethod(message)

\* What this build's extension takes.
Accepted(message) ==
    /\ message.type = "ready_ack" => ValidateReadyAck(ThisBuild, message)
    /\ message.type = "request" =>
           message.request_id \in RequestIds /\ ValidateRequest(message, LocalImplementations)

Matched ==
    build = ThisBuild =>
        /\ broker # "failed" /\ extension # "closed"
        /\ \A i \in 1..Len(to_broker) : Welcome(to_broker[i])
        /\ \A i \in 1..Len(to_extension) : Accepted(to_extension[i])

PInv == Typed /\ Ordered /\ Matched

\* No id is used twice: what is under way is neither in flight nor sent again.
Fresh ==
    /\ requests \subseteq RequestIds /\ in_flight \subseteq requests
    /\ \A i \in 1..Len(to_extension) :
           to_extension[i].type = "request" => to_extension[i].request_id \in requests \ in_flight
    /\ \A i, j \in 1..Len(to_extension) :
           /\ to_extension[i].type = "request" /\ to_extension[j].type = "request"
           /\ to_extension[i].request_id = to_extension[j].request_id
           => i = j

LEMMA HeardIsFresh ==
    ASSUME IInv, Fresh, to_extension # <<>>, to_extension' = Tail(to_extension), UNCHANGED requests,
           in_flight' \subseteq in_flight \cup
               {id \in {Head(to_extension).request_id} : Head(to_extension).type = "request"}
    PROVE  Fresh'
  <1>1. /\ \A i \in 1..Len(to_extension') : i + 1 \in 1..Len(to_extension) /\ to_extension'[i] = to_extension[i + 1]
        /\ 1 \in 1..Len(to_extension) /\ Head(to_extension) = to_extension[1]
    BY Rest DEF IInv
  <1>2. in_flight' \subseteq requests
    BY <1>1 DEF Fresh
  <1>3. ASSUME NEW i \in 1..Len(to_extension'), to_extension'[i].type = "request"
        PROVE  to_extension'[i].request_id \in requests \ in_flight'
    <2>1. i + 1 \in 1..Len(to_extension) /\ to_extension'[i] = to_extension[i + 1] /\ i + 1 # 1
      BY <1>1
    <2>2. to_extension'[i].request_id \in requests \ in_flight
      BY <1>3, <2>1 DEF Fresh
    <2>3. to_extension[1].type = "request" => to_extension'[i].request_id # to_extension[1].request_id
      BY <1>1, <1>3, <2>1 DEF Fresh
    <2>4. QED BY <1>1, <2>2, <2>3
  <1>4. ASSUME NEW i \in 1..Len(to_extension'), NEW j \in 1..Len(to_extension'),
               to_extension'[i].type = "request", to_extension'[j].type = "request",
               to_extension'[i].request_id = to_extension'[j].request_id
        PROVE  i = j
    <2>1. i + 1 = j + 1
      BY <1>1, <1>4 DEF Fresh
    <2>2. QED BY <2>1
  <1>5. QED BY <1>2, <1>3, <1>4 DEF Fresh

LEMMA WrittenIsFresh == ASSUME IInv, Fresh, WriteRequest PROVE Fresh'
  <1>1. PICK request_id, m :
            /\ request_id \in RequestIds \ requests
            /\ to_extension' = Append(to_extension, m) /\ m.type = "request" /\ m.request_id = request_id
            /\ requests' = requests \cup {request_id} /\ UNCHANGED in_flight
    BY Written
  <1>2. /\ \A i \in 1..Len(to_extension') :
               (i = Len(to_extension) + 1 /\ to_extension'[i] = m)
               \/ (i \in 1..Len(to_extension) /\ to_extension'[i] = to_extension[i])
    <2>1. PICK S : to_extension \in Seq(S)
      BY DEF IInv, IsSequence
    <2>2. QED BY <1>1, <2>1
  <1>3. \A i \in 1..Len(to_extension) :
            to_extension[i].type = "request" => to_extension[i].request_id # request_id
    BY <1>1 DEF Fresh
  <1>4. \A i \in 1..Len(to_extension') :
            to_extension'[i].type = "request" => to_extension'[i].request_id \in requests' \ in_flight'
    BY <1>1, <1>2 DEF Fresh
  <1>5. ASSUME NEW i \in 1..Len(to_extension'), NEW j \in 1..Len(to_extension'),
               to_extension'[i].type = "request", to_extension'[j].type = "request",
               to_extension'[i].request_id = to_extension'[j].request_id
        PROVE  i = j
    <2>1. CASE i = Len(to_extension) + 1 /\ to_extension'[i] = m
      BY <1>1, <1>2, <1>3, <1>5, <2>1
    <2>2. CASE j = Len(to_extension) + 1 /\ to_extension'[j] = m
      BY <1>1, <1>2, <1>3, <1>5, <2>2
    <2>3. QED BY <1>2, <1>5, <2>1, <2>2 DEF Fresh
  <1>6. requests' \subseteq RequestIds /\ in_flight' \subseteq requests'
    BY <1>1 DEF Fresh
  <1>7. QED BY <1>4, <1>5, <1>6 DEF Fresh

\* An acknowledgement on its way to the extension.
LEMMA AcknowledgedIsFresh ==
    ASSUME IInv, Fresh, NEW m, to_extension' = Append(to_extension, m), m.type = "ready_ack",
           UNCHANGED <<requests, in_flight>>
    PROVE  Fresh'
  <1>1. \A i \in 1..Len(to_extension') :
            to_extension'[i] = m \/ (i \in 1..Len(to_extension) /\ to_extension'[i] = to_extension[i])
    BY Appended DEF IInv
  <1>2. QED BY <1>1 DEF Fresh

LEMMA FreshInvariance == Spec => []Fresh
  <1>1. Init => Fresh
    <2>1. SUFFICES ASSUME Init PROVE Fresh
      OBVIOUS
    <2>2. Len(to_extension) = 0
      BY <2>1 DEF Init, DialogueInit
    <2>3. QED BY <2>1, <2>2 DEF Init, DialogueInit, Fresh
  <1>2. IInv /\ Fresh /\ [Next]_vars => Fresh'
    <2>1. SUFFICES ASSUME IInv, Fresh, [Next]_vars PROVE Fresh'
      OBVIOUS
    <2>2. CASE UNCHANGED <<to_extension, in_flight, requests>>
      BY <2>1, <2>2 DEF Fresh
    <2>3. CASE HandleReadyAck
      <3>1. /\ to_extension # <<>> /\ to_extension' = Tail(to_extension) /\ UNCHANGED requests
            /\ in_flight' \subseteq in_flight
        BY <2>3 DEF HandleReadyAck, DisconnectPort
      <3>2. QED BY <2>1, <3>1, HeardIsFresh
    <2>4. CASE HandleRequest
      <3>1. /\ to_extension # <<>> /\ to_extension' = Tail(to_extension) /\ UNCHANGED requests
            /\ Head(to_extension).type = "request"
            /\ in_flight' \subseteq in_flight \cup {Head(to_extension).request_id}
        BY <2>4, Handled
      <3>2. QED BY <2>1, <3>1, HeardIsFresh
    <2>5. CASE Respond
      <3>1. UNCHANGED <<requests, to_extension>> /\ in_flight' \subseteq in_flight
        BY <2>5 DEF Respond
      <3>2. QED BY <2>1, <3>1 DEF Fresh
    <2>6. CASE WriteRequest
      BY <2>1, <2>6, WrittenIsFresh
    <2>7. CASE ReadReady
      <3>1. CASE Bail
        BY <2>2, <3>1 DEF Bail
      <3>2. CASE ~Bail
        <4>1. PICK m : to_extension' = Append(to_extension, m) /\ m.type = "ready_ack"
                       /\ UNCHANGED <<requests, in_flight>>
          BY <2>7, <3>2 DEF ReadReady
        <4>2. QED BY <2>1, <4>1, AcknowledgedIsFresh
      <3>3. QED BY <3>1, <3>2
    <2>8. CASE SendReady \/ PublishCapabilitiesChanged \/ ReadUnparsable
      BY <2>2, <2>8 DEF SendReady, PublishCapabilitiesChanged, ReadUnparsable, Bail
    <2>9. CASE ReadCapabilitiesChanged \/ ReadResponse
      BY <2>2, <2>9 DEF ReadCapabilitiesChanged, ReadResponse, Bail
    <2>10. CASE UNCHANGED vars
      BY <2>2, <2>10 DEF vars
    <2>11. QED BY <2>1, <2>3, <2>4, <2>5, <2>6, <2>7, <2>8, <2>9, <2>10 DEF Next
  <1>3. QED BY <1>1, <1>2, Invariance, PTL DEF Spec

(* What the two ends of this build have to say passes the other's checks. *)

LocalEntry(method) == [method |-> method, branch |-> {}, abi_revision |-> 1]

LEMMA Local ==
    /\ DOMAIN LocalImplementations = 1..Len(LocalImplementations)
    /\ Len(LocalImplementations) \in Nat
    /\ Len(LocalImplementations) = Cardinality({LocalEntry(method) : method \in Methods})
    /\ \A i \in DOMAIN LocalImplementations : \E method \in Methods : LocalImplementations[i] = LocalEntry(method)
    /\ \A method \in Methods : \E i \in DOMAIN LocalImplementations : LocalImplementations[i] = LocalEntry(method)
    /\ IsInjective(LocalImplementations)
    /\ Cardinality({LocalEntry(method) : method \in Methods}) \in 1..MAX_IMPLEMENTATION_ENTRIES
  <1> DEFINE S == {LocalEntry(method) : method \in Methods}
             n == Cardinality(S)
             f == [method \in Methods |-> LocalEntry(method)]
  <1>1. f \in Surjection(Methods, S)
    BY DEF Surjection
  <1>2. IsFiniteSet(S) /\ Cardinality(S) <= Cardinality(Methods)
    BY <1>1, FS_Surjection, HandshakeAssumption
  <1>3. n \in Nat /\ ExistsBijection(1..n, S)
    BY <1>2, FS_CardinalityType
  <1>4. Cardinality(Methods) \in Nat
    BY HandshakeAssumption, FS_CardinalityType
  <1>5. LocalEntry("browser.snapshot") \in S
    BY HandshakeAssumption
  <1>6. n # 0
    BY <1>2, <1>5, FS_EmptySet
  <1>7. n \in 1..MAX_IMPLEMENTATION_ENTRIES
    BY <1>2, <1>3, <1>4, <1>6, HandshakeAssumption
  <1>8. PICK g \in [1..n -> S] : IsInjective(g)
    BY <1>3 DEF ExistsBijection, Bijection, Injection, IsInjective
  <1>9. LocalImplementations = SetToSeq(S)
    BY DEF LocalImplementations, LocalEntry
  <1>10. LocalImplementations \in [1..n -> S] /\ IsInjective(LocalImplementations)
    BY <1>8, <1>9 DEF SetToSeq
  <1> HIDE DEF n
  <1>11. LocalImplementations \in Seq(S) /\ Len(LocalImplementations) = n
    BY <1>10, <1>3
  <1>12. LocalImplementations \in Injection(1..n, S)
    BY <1>10 DEF Injection, IsInjective
  <1>13. IsFiniteSet(1..n) /\ Cardinality(1..n) = n
    BY <1>3, FS_Interval
  <1>14. LocalImplementations \in Surjection(1..n, S)
    BY <1>2, <1>12, <1>13, FS_Injection DEF n
  <1>15. \A e \in S : \E i \in 1..n : LocalImplementations[i] = e
    BY <1>14 DEF Surjection
  <1>16. \A i \in 1..n : LocalImplementations[i] \in S
    BY <1>10
  <1>17. DOMAIN LocalImplementations = 1..n
    BY <1>10
  <1>18. S = {LocalEntry(method) : method \in Methods} /\ n = Cardinality({LocalEntry(method) : method \in Methods})
    BY DEF n
  <1> HIDE DEF S
  <1>19. QED BY <1>3, <1>7, <1>10, <1>11, <1>15, <1>16, <1>17, <1>18

LEMMA LocalIsValid ==
    /\ ValidImplementations(LocalImplementations)
    /\ Negotiates(LocalImplementations)
    /\ \A method \in Methods :
           /\ LocalEntry(method) \in Range(LocalImplementations)
           /\ \E i \in DOMAIN LocalImplementations : LocalImplementations[i].method = method
  <1> DEFINE L == LocalImplementations
  <1>1. L = LocalImplementations
    OBVIOUS
  <1> HIDE DEF L
  <1>2. \A i \in DOMAIN L : \E method \in Methods : L[i] = LocalEntry(method)
    BY <1>1, Local
  <1>3. IsInjective(EntryKeys(L))
    <2>1. SUFFICES ASSUME NEW i \in DOMAIN L, NEW j \in DOMAIN L, L[i].method = L[j].method
                   PROVE  i = j
      BY DEF IsInjective, EntryKeys
    <2>2. PICK a \in Methods : L[i] = LocalEntry(a)
      BY <1>2
    <2>3. PICK b \in Methods : L[j] = LocalEntry(b)
      BY <1>2
    <2>4. a = b
      BY <2>1, <2>2, <2>3 DEF LocalEntry
    <2>5. L[i] = L[j]
      BY <2>2, <2>3, <2>4
    <2>6. QED BY <1>1, <2>5, Local DEF IsInjective
  <1>4. \A i \in DOMAIN L :
            /\ L[i].method \in Methods /\ L[i].branch = {} /\ L[i].abi_revision = 1
    BY <1>2 DEF LocalEntry
  <1>5. \A i \in DOMAIN L :
            /\ ValidBounded(L[i].method, 128) /\ L[i].method \notin BadMethods
            /\ \A branch \in L[i].branch : ValidBounded(branch, 64)
            /\ L[i].abi_revision >= 1
    BY <1>4, HandshakeAssumption
  <1>6. Len(L) \in 1..MAX_IMPLEMENTATION_ENTRIES
    BY <1>1, Local
  <1>7. ValidImplementations(L)
    BY <1>3, <1>5, <1>6 DEF ValidImplementations
  <1>8. Negotiates(L)
    BY <1>1, <1>7 DEF Negotiates
  <1>9. ASSUME NEW method \in Methods
        PROVE  /\ LocalEntry(method) \in Range(L)
               /\ \E i \in DOMAIN L : L[i].method = method
    <2>1. PICK i \in DOMAIN L : L[i] = LocalEntry(method)
      BY <1>1, Local
    <2>2. QED BY <2>1 DEF Range, LocalEntry
  <1>10. QED BY <1>1, <1>7, <1>8, <1>9

LEMMA StatusIsSound ==
    ASSUME NEW given \in Facts, NEW available \in BOOLEAN
    PROVE  LET status == CapabilityStatus(given, available)
           IN  /\ status.reason \in Reasons
               /\ BaseEffective(status) = BaseEffective(given)
               /\ status.effective = (BaseEffective(given) /\ available)
               /\ status.effective <=> status.reason = "available"
  BY DEF CapabilityStatus, BaseEffective, Facts, Reasons

\* Only snapshots are implemented, and so only they can be effective.
LEMMA ReportedIsValid ==
    ASSUME NEW known \in FactSets
    PROVE  /\ ValidCapabilities(Reported(known))
           /\ ValidCapabilityImplementations(Reported(known), LocalImplementations)
  <1> DEFINE R == Reported(known)
             page == CapabilityStatus(known["pageTools"], TRUE)
  <1>1. \A branch \in Branches : known[branch] \in Facts /\ (known[branch].implemented => branch = "browserSnapshot")
    BY HandshakeAssumption
  <1>2. \A branch \in Branches :
            R[branch] = CapabilityStatus(known[branch], branch = "advancedEvaluation" => page.effective)
    BY DEF Reported
  <1>3. page.effective = FALSE
    <2>1. known["pageTools"] \in Facts /\ ~known["pageTools"].implemented
      BY <1>1 DEF Branches
    <2>2. ~BaseEffective(known["pageTools"])
      BY <2>1 DEF BaseEffective
    <2>3. page.effective = (BaseEffective(known["pageTools"]) /\ TRUE)
      BY <2>1, StatusIsSound
    <2>4. QED BY <2>2, <2>3
  <1> HIDE DEF page, R
  <1>4. \A branch \in Branches : R[branch] = CapabilityStatus(known[branch], branch # "advancedEvaluation")
    <2>1. ASSUME NEW branch \in Branches
          PROVE  (branch = "advancedEvaluation" => page.effective) = (branch # "advancedEvaluation")
      BY <1>3
    <2>2. QED BY <1>2, <2>1
  <1>5. ASSUME NEW branch \in Branches
        PROVE  /\ R[branch].reason \in Reasons
               /\ BaseEffective(R[branch]) = BaseEffective(known[branch])
               /\ R[branch].effective = (BaseEffective(known[branch]) /\ branch # "advancedEvaluation")
               /\ R[branch].effective <=> R[branch].reason = "available"
    <2>1. (branch # "advancedEvaluation") \in BOOLEAN
      OBVIOUS
    <2>2. known[branch] \in Facts
      BY <1>1
    <2>3. \A available \in BOOLEAN :
              LET status == CapabilityStatus(known[branch], available)
              IN  /\ status.reason \in Reasons
                  /\ BaseEffective(status) = BaseEffective(known[branch])
                  /\ status.effective = (BaseEffective(known[branch]) /\ available)
                  /\ status.effective <=> status.reason = "available"
      BY <2>2, StatusIsSound
    <2>4. R[branch] = CapabilityStatus(known[branch], branch # "advancedEvaluation")
      BY <1>4
    <2>5. QED BY <2>1, <2>3, <2>4, Zenon
  <1>6. \A branch \in Branches : BaseEffective(known[branch]) => branch = "browserSnapshot"
    BY <1>1 DEF BaseEffective
  <1>7. R["pageTools"].effective = FALSE
    BY <1>5, <1>6 DEF Branches
  <1>8. ASSUME NEW branch \in Branches
        PROVE  /\ R[branch].reason \in Reasons
               /\ R[branch].effective <=> /\ BaseEffective(R[branch])
                                          /\ branch = "advancedEvaluation" => R["pageTools"].effective
               /\ R[branch].effective <=> R[branch].reason = "available"
               /\ R[branch].effective => branch = "browserSnapshot"
    BY <1>5, <1>6, <1>7
  <1>9. ValidCapabilities(R)
    BY <1>8 DEF ValidCapabilities
  <1>10. \E i \in DOMAIN LocalImplementations : LocalImplementations[i].method = "browser.snapshot"
    BY LocalIsValid, HandshakeAssumption
  <1>11. ValidCapabilityImplementations(R, LocalImplementations)
    BY <1>8, <1>10 DEF ValidCapabilityImplementations, Branches
  <1>12. QED BY <1>9, <1>11 DEF R

LEMMA ErrorsAreWelcome ==
    ASSUME NEW request_id \in RequestIds, NEW code, NEW dispatch, dispatch # "unknown"
    PROVE  LET error == ErrorResponse("instance", request_id, code, dispatch)
           IN  Welcome(error) /\ error.type = "response"
  <1> DEFINE error == ErrorResponse("instance", request_id, code, dispatch)
  <1>1. ValidBounded("instance", 256) /\ ValidBounded(request_id, 64)
    BY HandshakeAssumption
  <1>2. ValidResponse(error) /\ ValidForMethod(error) /\ error.type = "response"
    BY <1>1 DEF ErrorResponse, ValidResponse, ValidForMethod
  <1> HIDE DEF error
  <1>3. Welcome(error)
    BY <1>2 DEF Welcome, ParseIncoming
  <1>4. QED BY <1>2, <1>3 DEF error

LEMMA AnswersAreWelcome ==
    ASSUME NEW request_id \in RequestIds, NEW answer \in Answer(request_id)
    PROVE  Welcome(answer) /\ answer.type = "response"
  <1>1. CASE \E code : answer = ErrorResponse("instance", request_id, code, "completed")
    BY <1>1, ErrorsAreWelcome
  <1>2. CASE answer = SuccessResponse("instance", request_id, FALSE)
    <2>1. ValidBounded("instance", 256) /\ ValidBounded(request_id, 64)
      BY HandshakeAssumption
    <2>2. ValidResponse(answer) /\ ValidForMethod(answer) /\ answer.type = "response"
      BY <1>2, <2>1 DEF SuccessResponse, ValidResponse, ValidForMethod
    <2>3. QED BY <2>2 DEF Welcome, ParseIncoming
  <1>3. QED BY <1>1, <1>2 DEF Answer, SuccessResponse

LEMMA RequestIsAccepted ==
    ASSUME NEW method \in Methods, NEW request_id \in RequestIds, NEW budget \in Budgets
    PROVE  Accepted(Request(method, request_id, budget))
  <1> DEFINE m == Request(method, request_id, budget)
  <1>1. m.type = "request" /\ m.request_id = request_id /\ m.request_class = "read" /\ m.method = method
    BY DEF Request
  <1>2. m.deadline_ms \in 1..READ_DEADLINE_MS
    BY HandshakeAssumption DEF Request
  <1>3. LocalEntry(method) \in Range(LocalImplementations)
    BY LocalIsValid
  <1>4. LocalEntry(method).method = method /\ LocalEntry(method).branch = {}
    BY DEF LocalEntry
  <1>5. [method |-> method, branch |-> {}] \in
            {[method |-> entry.method, branch |-> entry.branch] : entry \in Range(LocalImplementations)}
    BY <1>3, <1>4
  <1> HIDE DEF m
  <1>6. ValidateRequest(m, LocalImplementations)
    BY <1>1, <1>2, <1>5 DEF ValidateRequest
  <1>7. QED BY <1>1, <1>6 DEF Accepted, m

(* The steps.  First what they do to a queue. *)

LEMMA SaidToBroker ==
    ASSUME IInv, PInv, NEW m, to_broker' = Append(to_broker, m), connected # {},
           m.type \in {"capabilities_changed", "response"}, build = ThisBuild => Welcome(m)
    PROVE  /\ \A i \in 1..Len(to_broker') : to_broker'[i].type \in {"capabilities_changed", "response"}
           /\ build = ThisBuild /\ broker # "failed" => \A i \in 1..Len(to_broker') : Welcome(to_broker'[i])
  <1>1. \A i \in 1..Len(to_broker') : to_broker'[i] = m \/ (i \in 1..Len(to_broker) /\ to_broker'[i] = to_broker[i])
    BY Appended DEF IInv
  <1>2. \A i \in 1..Len(to_broker) : to_broker[i].type \in {"capabilities_changed", "response"}
    BY DEF PInv, Ordered, Typed
  <1>3. build = ThisBuild => \A i \in 1..Len(to_broker) : Welcome(to_broker[i])
    BY DEF PInv, Matched
  <1>4. QED BY <1>1, <1>2, <1>3

LEMMA HeardByExtension ==
    ASSUME IInv, PInv, to_extension # <<>>, to_extension' = Tail(to_extension)
    PROVE  /\ \A i \in 1..Len(to_extension') : to_extension'[i].type = "request"
           /\ build = ThisBuild => \A i \in 1..Len(to_extension') : Accepted(to_extension'[i])
           /\ build = ThisBuild => Accepted(Head(to_extension))
           /\ connected # {}
  <1>1. \A i \in 1..Len(to_extension') : i + 1 \in 1..Len(to_extension) /\ to_extension'[i] = to_extension[i + 1]
    BY Rest DEF IInv
  <1>2. 1 \in 1..Len(to_extension) /\ Head(to_extension) = to_extension[1]
    BY Rest DEF IInv
  <1>3. \A i \in 1..Len(to_extension') : i + 1 # 1
    OBVIOUS
  <1>4. \A i \in 1..Len(to_extension') : to_extension'[i].type = "request"
    BY <1>1, <1>3 DEF PInv, Ordered, Typed
  <1>5. build = ThisBuild => \A i \in 1..Len(to_extension) : Accepted(to_extension[i])
    BY DEF PInv, Matched
  <1>6. connected # {}
    BY DEF PInv, Ordered
  <1>7. QED BY <1>1, <1>2, <1>4, <1>5, <1>6

LEMMA HeardByBroker ==
    ASSUME IInv, PInv, to_broker # <<>>, to_broker' = Tail(to_broker)
    PROVE  /\ \A i \in 1..Len(to_broker') : to_broker'[i].type \in {"capabilities_changed", "response"}
           /\ build = ThisBuild => \A i \in 1..Len(to_broker') : Welcome(to_broker'[i])
           /\ build = ThisBuild => Welcome(Head(to_broker))
           /\ Head(to_broker).type = "ready" =>
                  broker = "waiting" /\ extension = "waiting" /\ to_extension = <<>> /\ to_broker' = <<>>
           /\ Head(to_broker).type # "ready" => connected # {}
           /\ connected = {} => to_broker' = <<>>
  <1>1. /\ \A i \in 1..Len(to_broker') : i + 1 \in 1..Len(to_broker) /\ to_broker'[i] = to_broker[i + 1]
        /\ Len(to_broker) \in Nat \ {0} /\ Len(to_broker') = Len(to_broker) - 1 /\ IsSequence(to_broker')
    BY Rest DEF IInv
  <1>2. 1 \in 1..Len(to_broker) /\ Head(to_broker) = to_broker[1]
    BY Rest DEF IInv
  <1>3. \A i \in 1..Len(to_broker) :
            IF to_broker[i].type = "ready"
            THEN Len(to_broker) = 1 /\ broker = "waiting" /\ extension = "waiting"
            ELSE connected # {}
    BY DEF PInv, Ordered
  <1>4. \A i \in 1..Len(to_broker') : to_broker'[i].type # "ready"
    BY <1>1, <1>3
  <1>5. \A i \in 1..Len(to_broker') : to_broker'[i].type \in {"capabilities_changed", "response"}
    BY <1>1, <1>4 DEF PInv, Typed
  <1>6. build = ThisBuild => \A i \in 1..Len(to_broker) : Welcome(to_broker[i])
    BY DEF PInv, Matched
  <1>7. Len(to_broker') = 0 => to_broker' = <<>>
    <2>1. PICK S : to_broker' \in Seq(S)
      BY <1>1 DEF IsSequence
    <2>2. QED BY <2>1
  <1>8. Head(to_broker).type = "ready" =>
            broker = "waiting" /\ extension = "waiting" /\ to_extension = <<>> /\ to_broker' = <<>>
    BY <1>1, <1>2, <1>3, <1>7 DEF PInv, Ordered
  <1>9. connected = {} => to_broker' = <<>>
    BY <1>2, <1>3, <1>8
  <1>10. QED BY <1>1, <1>2, <1>3, <1>5, <1>6, <1>8, <1>9

LEMMA SaidToExtension ==
    ASSUME IInv, PInv, NEW m, to_extension' = Append(to_extension, m),
           m.type = "request", Accepted(m)
    PROVE  /\ \A i \in 1..Len(to_extension') : to_extension'[i].type \in {"ready_ack", "request"}
           /\ \A i \in 1..Len(to_extension') :
                  to_extension'[i].type = "ready_ack" => i = 1 /\ extension = "waiting"
           /\ build = ThisBuild => \A i \in 1..Len(to_extension') : Accepted(to_extension'[i])
           /\ to_extension' # <<>>
  <1>1. /\ \A i \in 1..Len(to_extension') :
               to_extension'[i] = m \/ (i \in 1..Len(to_extension) /\ to_extension'[i] = to_extension[i])
        /\ Len(to_extension') = Len(to_extension) + 1 /\ Len(to_extension) \in Nat
    BY Appended DEF IInv
  <1>2. /\ \A i \in 1..Len(to_extension) : to_extension[i].type \in {"ready_ack", "request"}
        /\ \A i \in 1..Len(to_extension) : to_extension[i].type = "ready_ack" => i = 1 /\ extension = "waiting"
        /\ build = ThisBuild => \A i \in 1..Len(to_extension) : Accepted(to_extension[i])
    BY DEF PInv, Typed, Ordered, Matched
  <1>3. to_extension' # <<>>
    BY <1>1
  <1>4. QED BY <1>1, <1>2, <1>3

LEMMA SendReadyAgrees == ASSUME IInv, PInv, SendReady PROVE PInv'
  <1> DEFINE m == [type |-> "ready", protocol_version |-> build.protocol_version,
                   protocol_abi_revision |-> build.protocol_abi_revision,
                   implementations |-> build.implementations, browser_instance_id |-> "instance",
                   extension_id |-> "extension", extension_version |-> "version",
                   user_agent |-> "userAgent", capability_revision |-> revision,
                   capabilities |-> Reported(facts)]
  <1>1. to_broker' = Append(to_broker, m) /\ extension = "offline" /\ extension' = "waiting"
    BY DEF SendReady
  <1>2. m.type = "ready"
    OBVIOUS
  <1>3. build = ThisBuild => Welcome(m)
    <2>1. SUFFICES ASSUME build = ThisBuild PROVE Welcome(m)
      OBVIOUS
    <2>2. /\ m.implementations = LocalImplementations /\ m.capability_revision >= 1
          /\ m.protocol_version = INTERNAL_PROTOCOL_VERSION
          /\ m.protocol_abi_revision = PROTOCOL_ABI_REVISION
          /\ m.capabilities = Reported(facts) /\ facts \in FactSets
          /\ ValidBounded(m.browser_instance_id, 256) /\ ValidBounded(m.extension_id, 64)
          /\ ValidBounded(m.extension_version, 64) /\ ValidBounded(m.user_agent, 512)
      BY <2>1, HandshakeAssumption DEF ThisBuild, PInv, Typed
    <2> HIDE DEF m
    <2>3. ValidReady(m)
      BY <2>2, ReportedIsValid, LocalIsValid DEF ValidReady
    <2>4. QED BY <1>2, <2>2, <2>3, LocalIsValid DEF Welcome, ParseIncoming
  <1> HIDE DEF m
  <1>4. to_broker = <<>> /\ broker = "waiting" /\ connected = {} /\ to_extension = <<>>
    BY <1>1 DEF PInv, Ordered
  <1>5. to_broker' = <<m>>
    BY <1>1, <1>4
  <1>6. \A i \in 1..Len(to_broker') : to_broker'[i] = m
    BY <1>5
  <1>7. Len(to_broker') = 1
    BY <1>5
  <1>8. UNCHANGED <<build, facts, revision, broker, connected, to_extension>>
    BY DEF SendReady
  <1>9. Typed'
    BY <1>1, <1>2, <1>6, <1>8 DEF PInv, Typed
  <1>10. Ordered'
    BY <1>1, <1>2, <1>4, <1>6, <1>7, <1>8 DEF PInv, Ordered
  <1>11. Matched'
    BY <1>1, <1>3, <1>6, <1>8 DEF PInv, Matched
  <1>12. QED BY <1>9, <1>10, <1>11 DEF PInv

LEMMA HandleReadyAckAgrees == ASSUME IInv, PInv, HandleReadyAck PROVE PInv'
  <1>1. /\ to_extension # <<>> /\ Head(to_extension).type = "ready_ack" /\ to_extension' = Tail(to_extension)
        /\ extension' \in {"ready", "closed"}
        /\ extension = "waiting" /\ ValidateReadyAck(build, Head(to_extension)) => extension' = "ready"
        /\ UNCHANGED <<build, facts, revision, broker, connected, to_broker>>
    BY DEF HandleReadyAck, DisconnectPort
  <1>2. extension = "waiting"
    BY <1>1, Rest DEF IInv, PInv, Ordered
  <1>3. /\ \A i \in 1..Len(to_extension') : to_extension'[i].type = "request"
        /\ build = ThisBuild => \A i \in 1..Len(to_extension') : Accepted(to_extension'[i])
        /\ build = ThisBuild => Accepted(Head(to_extension))
        /\ connected # {}
    BY <1>1, HeardByExtension
  <1>4. build = ThisBuild => extension' = "ready"
    BY <1>1, <1>2, <1>3 DEF Accepted
  <1>5. Typed'
    BY <1>1, <1>3 DEF PInv, Typed
  <1>6. \A i \in 1..Len(to_broker) : to_broker[i].type # "ready"
    BY <1>3 DEF PInv, Ordered
  <1>7. Ordered'
    BY <1>1, <1>3, <1>6 DEF PInv, Ordered
  <1>8. Matched'
    BY <1>1, <1>3, <1>4 DEF PInv, Matched
  <1>9. QED BY <1>5, <1>7, <1>8 DEF PInv

LEMMA PublishAgrees == ASSUME IInv, PInv, PublishCapabilitiesChanged PROVE PInv'
  <1> DEFINE m == [type |-> "capabilities_changed", browser_instance_id |-> "instance",
                   capability_revision |-> revision', capabilities |-> Reported(facts')]
  <1>1. /\ to_broker' = Append(to_broker, m) /\ extension = "ready" /\ facts' \in FactSets
        /\ revision' \in 1..MaxRevision
        /\ UNCHANGED <<build, extension, broker, connected, to_extension>>
    BY HandshakeAssumption DEF PublishCapabilitiesChanged, PInv, Typed
  <1>2. /\ m.type = "capabilities_changed" /\ m.capability_revision >= 1 /\ m.capabilities = Reported(facts')
        /\ ValidBounded(m.browser_instance_id, 256)
    BY <1>1, HandshakeAssumption
  <1> HIDE DEF m
  <1>3. ValidCapabilities(m.capabilities) /\ ValidCapabilityImplementations(m.capabilities, LocalImplementations)
    BY <1>1, <1>2, ReportedIsValid
  <1>4. Welcome(m)
    BY <1>2, <1>3 DEF Welcome, ParseIncoming
  <1>5. connected # {}
    BY <1>1 DEF PInv, Ordered
  <1>6. /\ \A i \in 1..Len(to_broker') : to_broker'[i].type \in {"capabilities_changed", "response"}
        /\ build = ThisBuild /\ broker # "failed" => \A i \in 1..Len(to_broker') : Welcome(to_broker'[i])
    BY <1>1, <1>2, <1>4, <1>5, SaidToBroker
  <1>7. Typed'
    BY <1>1, <1>6 DEF PInv, Typed
  <1>8. Ordered'
    BY <1>1, <1>5, <1>6 DEF PInv, Ordered
  <1>9. Matched'
    BY <1>1, <1>6 DEF PInv, Matched
  <1>10. QED BY <1>7, <1>8, <1>9 DEF PInv

LEMMA HandleRequestAgrees == ASSUME IInv, PInv, Fresh, HandleRequest PROVE PInv'
  <1>1. /\ to_extension # <<>> /\ to_extension' = Tail(to_extension) /\ Head(to_extension).type = "request"
        /\ UNCHANGED <<build, facts, revision, broker, connected>>
    BY Handled
  <1>2. Head(to_extension).request_id \notin in_flight
    BY <1>1, Rest DEF IInv, Fresh
  <1>3. /\ \A i \in 1..Len(to_extension') : to_extension'[i].type = "request"
        /\ build = ThisBuild => \A i \in 1..Len(to_extension') : Accepted(to_extension'[i])
        /\ build = ThisBuild => Accepted(Head(to_extension))
        /\ connected # {}
    BY <1>1, HeardByExtension
  <1>4. UNCHANGED extension
    BY <1>2, Handled
  <1>5. /\ \A i \in 1..Len(to_broker') : to_broker'[i].type \in {"capabilities_changed", "response"}
        /\ build = ThisBuild /\ broker # "failed" => \A i \in 1..Len(to_broker') : Welcome(to_broker'[i])
    <2>1. CASE UNCHANGED to_broker
      <3>1. \A i \in 1..Len(to_broker) : to_broker[i].type \in {"capabilities_changed", "response"}
        BY <1>3 DEF PInv, Ordered, Typed
      <3>2. QED BY <2>1, <3>1 DEF PInv, Matched
    <2>2. CASE \E code : to_broker' = Append(to_broker, ErrorResponse(
                              "instance", Head(to_extension).request_id, code, "notDispatched"))
      <3> DEFINE error(code) == ErrorResponse("instance", Head(to_extension).request_id, code, "notDispatched")
      <3>1. PICK code : to_broker' = Append(to_broker, error(code))
        BY <2>2
      <3>2. error(code).type = "response"
        BY DEF ErrorResponse
      <3>3. build = ThisBuild => Welcome(error(code))
        BY <1>1, <1>3, ErrorsAreWelcome DEF Accepted
      <3>4. QED BY <1>3, <3>1, <3>2, <3>3, SaidToBroker
    <2>3. QED BY <1>2, <2>1, <2>2, Handled
  <1>6. Typed'
    BY <1>1, <1>3, <1>4, <1>5 DEF PInv, Typed
  <1>7. Ordered'
    BY <1>1, <1>3, <1>4, <1>5 DEF PInv, Ordered
  <1>8. Matched'
    BY <1>1, <1>3, <1>4, <1>5 DEF PInv, Matched
  <1>9. QED BY <1>6, <1>7, <1>8 DEF PInv

LEMMA RespondAgrees == ASSUME IInv, PInv, Fresh, Respond PROVE PInv'
  <1>1. /\ extension = "ready"
        /\ UNCHANGED <<build, facts, revision, extension, broker, connected, to_extension>>
    BY DEF Respond
  <1>2. PICK request_id \in in_flight :
            \E answer \in Answer(request_id) : to_broker' = Append(to_broker, answer)
    BY DEF Respond
  <1>3. PICK answer \in Answer(request_id) : to_broker' = Append(to_broker, answer)
    BY <1>2
  <1>4. request_id \in RequestIds /\ connected # {}
    BY <1>1 DEF Fresh, PInv, Ordered
  <1>5. Welcome(answer) /\ answer.type = "response"
    BY <1>4, AnswersAreWelcome
  <1>6. /\ \A i \in 1..Len(to_broker') : to_broker'[i].type \in {"capabilities_changed", "response"}
        /\ build = ThisBuild /\ broker # "failed" => \A i \in 1..Len(to_broker') : Welcome(to_broker'[i])
    BY <1>3, <1>4, <1>5, SaidToBroker
  <1>7. Typed'
    BY <1>1, <1>6 DEF PInv, Typed
  <1>8. Ordered'
    BY <1>1, <1>4, <1>6 DEF PInv, Ordered
  <1>9. Matched'
    BY <1>1, <1>6 DEF PInv, Matched
  <1>10. QED BY <1>7, <1>8, <1>9 DEF PInv

\* Only another build can say what the broker closes the connection at.
LEMMA BailAgrees ==
    ASSUME IInv, PInv, to_broker # <<>>, to_broker' = Tail(to_broker), Bail, build # ThisBuild
    PROVE  PInv'
  <1>1. UNCHANGED <<build, facts, revision, extension, connected, to_extension>> /\ broker' = "failed"
    BY DEF Bail
  <1>2. /\ \A i \in 1..Len(to_broker') : to_broker'[i].type \in {"capabilities_changed", "response"}
        /\ connected = {} => to_broker' = <<>>
    BY HeardByBroker
  <1>3. connected = {} => Len(to_broker') = 0
    BY <1>2
  <1>4. extension # "offline"
    BY DEF PInv, Ordered
  <1>5. Typed'
    BY <1>1, <1>2 DEF PInv, Typed
  <1>6. Ordered'
    BY <1>1, <1>2, <1>3, <1>4 DEF PInv, Ordered
  <1>7. Matched'
    BY <1>1 DEF Matched
  <1>8. QED BY <1>5, <1>6, <1>7 DEF PInv

LEMMA ReadUnparsableAgrees == ASSUME IInv, PInv, ReadUnparsable PROVE PInv'
  <1>1. to_broker # <<>> /\ to_broker' = Tail(to_broker) /\ Bail /\ ~ParseIncoming(Head(to_broker))
    BY DEF ReadUnparsable
  <1>2. build # ThisBuild
    BY <1>1, HeardByBroker DEF Welcome
  <1>3. QED BY <1>1, <1>2, BailAgrees

LEMMA ReadReadyAgrees == ASSUME IInv, PInv, ReadReady PROVE PInv'
  <1>1. /\ to_broker # <<>> /\ to_broker' = Tail(to_broker) /\ Head(to_broker).type = "ready"
    BY DEF ReadReady, Received
  <1>2. /\ broker = "waiting" /\ extension = "waiting" /\ to_extension = <<>> /\ to_broker' = <<>>
        /\ build = ThisBuild => Welcome(Head(to_broker))
    BY <1>1, HeardByBroker
  <1>3. CASE ~Negotiates(Head(to_broker).implementations)
    <2>1. Bail
      BY <1>3 DEF ReadReady
    <2>2. build # ThisBuild
      BY <1>1, <1>2, <1>3 DEF Welcome
    <2>3. QED BY <1>1, <2>1, <2>2, BailAgrees
  <1>4. CASE Negotiates(Head(to_broker).implementations)
    <2> DEFINE ack == [type |-> "ready_ack", protocol_version |-> INTERNAL_PROTOCOL_VERSION,
                       protocol_abi_revision |-> PROTOCOL_ABI_REVISION, implementations |-> LocalImplementations]
               browser == [capability_revision |-> Head(to_broker).capability_revision,
                           capabilities |-> Head(to_broker).capabilities,
                           implementations |-> LocalImplementations]
    <2>1. /\ broker' = "ready" /\ connected' = {browser} /\ to_extension' = Append(to_extension, ack)
          /\ UNCHANGED <<build, facts, revision, extension>>
      BY <1>2, <1>4 DEF ReadReady
    <2>2. "implementations" \in DOMAIN browser /\ browser.implementations = LocalImplementations
      OBVIOUS
    <2>3. ack.type = "ready_ack" /\ ValidateReadyAck(ThisBuild, ack)
      BY LocalIsValid DEF ValidateReadyAck, ThisBuild
    <2> HIDE DEF ack, browser
    <2>4. Len(to_extension') = 1 /\ to_extension'[1] = ack /\ to_extension' # <<>>
      BY <1>2, <2>1
    <2>5. Len(to_broker') = 0
      BY <1>2
    <2>6. Typed'
      BY <1>2, <2>1, <2>3, <2>4, <2>5 DEF PInv, Typed
    <2>7. Ordered'
      BY <1>2, <2>1, <2>2, <2>3, <2>4, <2>5 DEF Ordered
    <2>8. Accepted(ack)
      BY <2>3 DEF Accepted
    <2>9. Matched'
      BY <1>2, <2>1, <2>4, <2>5, <2>8 DEF Matched
    <2>10. QED BY <2>6, <2>7, <2>9 DEF PInv
  <1>5. QED BY <1>3, <1>4

LEMMA ReadLaterAgrees == ASSUME IInv, PInv, ReadCapabilitiesChanged \/ ReadResponse PROVE PInv'
  <1>1. /\ to_broker # <<>> /\ to_broker' = Tail(to_broker) /\ Head(to_broker).type # "ready"
        /\ Head(to_broker).type \in {"capabilities_changed", "response"} /\ broker # "failed"
    BY DEF ReadCapabilitiesChanged, ReadResponse, Received
  <1>2. /\ \A i \in 1..Len(to_broker') : to_broker'[i].type \in {"capabilities_changed", "response"}
        /\ build = ThisBuild => \A i \in 1..Len(to_broker') : Welcome(to_broker'[i])
        /\ build = ThisBuild => Welcome(Head(to_broker))
        /\ connected # {}
    BY <1>1, HeardByBroker
  <1>3. PICK browser \in connected : connected = {browser}
    BY <1>2 DEF PInv, Ordered
  <1>4. "implementations" \in DOMAIN browser /\ browser.implementations = LocalImplementations
    BY <1>3 DEF PInv, Ordered
  <1>5. CASE Bail
    <2>1. build # ThisBuild
      <3>1. SUFFICES ASSUME build = ThisBuild PROVE FALSE
        OBVIOUS
      <3>2. broker' = "failed" /\ Welcome(Head(to_broker))
        BY <1>2, <1>5, <3>1 DEF Bail
      <3>3. ASSUME ReadCapabilitiesChanged PROVE FALSE
        <4>1. Head(to_broker).type = "capabilities_changed"
          BY <3>3 DEF ReadCapabilitiesChanged, Received
        <4>2. ValidCapabilityImplementations(Head(to_broker).capabilities, browser.implementations)
          BY <1>4, <3>2, <4>1 DEF Welcome
        <4>3. UNCHANGED broker
          BY <1>3, <3>3, <4>2 DEF ReadCapabilitiesChanged
        <4>4. QED BY <1>1, <3>2, <4>3
      <3>4. ASSUME ReadResponse PROVE FALSE
        <4>1. Head(to_broker).type = "response"
          BY <3>4 DEF ReadResponse, Received
        <4>2. UNCHANGED broker
          BY <1>2, <3>2, <3>4, <4>1 DEF ReadResponse, Welcome
        <4>3. QED BY <1>1, <3>2, <4>2
      <3>5. QED BY <3>3, <3>4
    <2>2. QED BY <1>1, <1>5, <2>1, BailAgrees
  <1>6. CASE ~Bail
    <2>1. /\ UNCHANGED <<build, facts, revision, extension, broker, to_extension>>
          /\ \E kept : connected' = {kept} /\ "implementations" \in DOMAIN kept
                       /\ kept.implementations = LocalImplementations
      <3>1. CASE ReadResponse
        BY <1>3, <1>4, <1>6, <3>1 DEF ReadResponse
      <3>2. CASE ReadCapabilitiesChanged
        <4>1. /\ UNCHANGED <<build, facts, revision, extension, broker, to_extension>>
              /\ connected' = {Applied(Head(to_broker), b) : b \in connected}
          BY <1>6, <3>2 DEF ReadCapabilitiesChanged
        <4>2. connected' = {Applied(Head(to_broker), browser)}
          BY <1>3, <4>1
        <4>3. /\ "implementations" \in DOMAIN Applied(Head(to_broker), browser)
              /\ Applied(Head(to_broker), browser).implementations = LocalImplementations
          BY <1>4 DEF Applied
        <4>4. QED BY <4>1, <4>2, <4>3
      <3>3. QED BY <3>1, <3>2
    <2>2. Typed'
      BY <1>2, <2>1 DEF PInv, Typed
    <2>3. connected' # {} /\ (\E b \in connected' : connected' = {b})
          /\ \A b \in connected' : "implementations" \in DOMAIN b /\ b.implementations = LocalImplementations
      BY <2>1
    <2>4. broker = "ready" /\ extension # "offline"
      BY <1>1, <1>2 DEF PInv, Ordered, Typed
    <2>5. \A i \in 1..Len(to_extension) : to_extension[i].type = "ready_ack" => i = 1 /\ extension = "waiting"
      BY DEF PInv, Ordered
    <2>6. Ordered'
      BY <1>2, <2>1, <2>3, <2>4, <2>5 DEF Ordered
    <2>7. Matched'
      BY <1>2, <2>1 DEF PInv, Matched
    <2>8. QED BY <2>2, <2>6, <2>7 DEF PInv
  <1>7. QED BY <1>5, <1>6

LEMMA WriteRequestAgrees == ASSUME IInv, PInv, WriteRequest PROVE PInv'
  <1>1. PICK m : to_extension' = Append(to_extension, m) /\ m.type = "request" /\ Accepted(m)
    BY Written, RequestIsAccepted
  <1>2. /\ \A i \in 1..Len(to_extension') : to_extension'[i].type \in {"ready_ack", "request"}
        /\ \A i \in 1..Len(to_extension') :
               to_extension'[i].type = "ready_ack" => i = 1 /\ extension = "waiting"
        /\ build = ThisBuild => \A i \in 1..Len(to_extension') : Accepted(to_extension'[i])
    BY <1>1, SaidToExtension
  <1>3. UNCHANGED <<build, facts, revision, extension, broker, connected, to_broker>> /\ connected # {}
    BY Written
  <1>4. Typed'
    BY <1>2, <1>3 DEF PInv, Typed
  <1>5. Ordered'
    BY <1>2, <1>3 DEF PInv, Ordered
  <1>6. Matched'
    BY <1>2, <1>3 DEF PInv, Matched
  <1>7. QED BY <1>4, <1>5, <1>6 DEF PInv

-----------------------------------------------------------------------------
(* The theorem *)

LEMMA PeersInvariance == Spec => []PInv
  <1>1. Init => PInv
    <2>1. SUFFICES ASSUME Init PROVE PInv
      OBVIOUS
    <2>2. Len(to_broker) = 0 /\ Len(to_extension) = 0
      BY <2>1 DEF Init, DialogueInit
    <2>3. QED BY <2>1, <2>2, HandshakeAssumption DEF Init, DialogueInit, PInv, Typed, Ordered, Matched
  <1>2. IInv /\ PInv /\ Fresh /\ [Next]_vars => PInv'
    <2>1. SUFFICES ASSUME IInv, PInv, Fresh, [Next]_vars PROVE PInv'
      OBVIOUS
    <2>2. CASE UNCHANGED vars
      <3>1. UNCHANGED <<build, facts, revision, extension, broker, connected, to_broker, to_extension>>
        BY <2>2 DEF vars
      <3>2. Typed' /\ Ordered' /\ Matched'
        BY <2>1, <3>1 DEF PInv, Typed, Ordered, Matched
      <3>3. QED BY <3>2 DEF PInv
    <2>3. QED
      BY <2>1, <2>2, SendReadyAgrees, HandleReadyAckAgrees, PublishAgrees, HandleRequestAgrees,
         RespondAgrees, ReadUnparsableAgrees, ReadReadyAgrees, ReadLaterAgrees, WriteRequestAgrees DEF Next
  <1>3. QED BY <1>1, <1>2, Invariance, FreshInvariance, PTL DEF Spec

\* Two ends of this build never close their connection over what the other says,
\* and what a client is shown is what it may call: whatever facts, methods, errors
\* and budgets (parse_incoming, native_reader, validateReadyAck, validateRequest,
\* DiscoverySnapshot::connected, require_capability).
THEOREM PeersStayInAgreement == Spec => []PeersAgree
  <1>1. ASSUME IInv, PInv, Fresh PROVE PeersAgree
    <2>1. PICK S, T : to_broker \in Seq(S) /\ to_extension \in Seq(T)
      BY <1>1 DEF IInv, IsSequence
    <2>2. DOMAIN to_broker = 1..Len(to_broker) /\ DOMAIN to_extension = 1..Len(to_extension)
      BY <2>1
    <2>3. Cardinality(connected) <= 1
      <3>1. CASE connected = {}
        <4>1. Cardinality(connected) = 0
          BY <3>1, FS_EmptySet
        <4>2. QED BY <4>1
      <3>2. CASE connected # {}
        <4>1. PICK browser \in connected : connected = {browser}
          BY <1>1, <3>2 DEF PInv, Ordered
        <4>2. Cardinality(connected) = 1
          BY <4>1, FS_Singleton
        <4>3. QED BY <4>2
      <3>3. QED BY <3>1, <3>2
    <2>4. TypeOK
      BY <1>1, <2>2, <2>3 DEF TypeOK, PInv, Typed, Fresh
    <2>5. MatchedPeersStayConnected
      BY <1>1, <2>2 DEF MatchedPeersStayConnected, PInv, Matched, Accepted, ThisBuild
    <2>6. VisibleIsCallable
      <3>1. SUFFICES ASSUME NEW browser \in connected, NEW tool \in Methods
                     PROVE  tool \in VisibleTools(browser.capabilities, browser.implementations) <=>
                                RequireCapability(browser.capabilities, "browserSnapshot") = {}
        BY DEF VisibleIsCallable
      <3>2. LocalEntry(tool) \in Range(browser.implementations)
        BY <1>1, LocalIsValid DEF PInv, Ordered
      <3>3. QED BY <3>2 DEF VisibleTools, RequireCapability, LocalEntry
    <2>7. QED BY <2>4, <2>5, <2>6 DEF PeersAgree
  <1>2. QED BY <1>1, Invariance, PeersInvariance, FreshInvariance, PTL


-----------------------------------------------------------------------------
(* Induction over numbers, in the form of the least one at which it would fail. *)

LEMMA Least ==
    ASSUME NEW T, T \subseteq Nat, T # {}
    PROVE  \E n \in T : \A m \in T : n <= m
  <1> DEFINE R == OpToRel(<, Nat)
  <1>1. IsWellFoundedOn(R, Nat)
    BY NatLessThanWellFounded, Zenon
  <1>2. \A m, n \in Nat : m < n => <<m, n>> \in R
    BY DEF OpToRel
  <1> HIDE DEF R
  <1>3. PICK n \in T : \A m \in T : <<m, n>> \notin R
    BY <1>1, WFMin
  <1>4. \A m \in T : n \in Nat /\ m \in Nat /\ ~(m < n)
    BY <1>2, <1>3
  <1>5. \A m \in T : n <= m
    BY <1>4
  <1>6. QED BY <1>5

LEMMA Induction ==
    ASSUME NEW N \in Nat, NEW S, 0 \in S, \A n \in 1..N : n - 1 \in S => n \in S
    PROVE  \A n \in 0..N : n \in S
  <1> DEFINE Bad == {n \in 0..N : n \notin S}
  <1>1. ASSUME NEW m \in Bad, \A k \in Bad : m <= k PROVE FALSE
    <2>1. m \in 1..N /\ m \notin S
      OBVIOUS
    <2>2. m - 1 \in 0..N /\ m - 1 \notin Bad
      BY <1>1, <2>1
    <2>3. QED BY <2>1, <2>2
  <1>2. Bad \subseteq Nat
    OBVIOUS
  <1>3. Bad = {}
    BY <1>1, <1>2, Least
  <1>4. QED BY <1>3

-----------------------------------------------------------------------------
(* Ranks in a strict order *)

\* A strict order of the elements of S without ties.
IsOrder(S, order) ==
    /\ \A x \in S : <<x, x>> \notin order
    /\ \A x, y \in S : x # y => <<x, y>> \in order \/ <<y, x>> \in order
    /\ \A x, y, z \in S : <<x, y>> \in order /\ <<y, z>> \in order => <<x, z>> \in order

Below(S, order, x) == {y \in S : <<y, x>> \in order}

LEMMA BelowGrows ==
    ASSUME NEW S, IsFiniteSet(S), NEW order, IsOrder(S, order),
           NEW x \in S, NEW z \in S, <<x, z>> \in order
    PROVE  Cardinality(Below(S, order, x)) < Cardinality(Below(S, order, z))
  <1> DEFINE A == Below(S, order, x)
             B == Below(S, order, z)
  <1>1. A \subseteq B /\ x \in B /\ x \notin A
    BY DEF IsOrder, Below
  <1>2. IsFiniteSet(B)
    BY FS_Subset DEF Below
  <1>3. IsFiniteSet(A) /\ Cardinality(A) <= Cardinality(B) /\ (Cardinality(A) = Cardinality(B) => A = B)
    BY <1>1, <1>2, FS_Subset
  <1>4. Cardinality(A) \in Nat /\ Cardinality(B) \in Nat
    BY <1>2, <1>3, FS_CardinalityType
  <1>5. QED BY <1>1, <1>3, <1>4

LEMMA BelowIsSmaller ==
    ASSUME NEW S, IsFiniteSet(S), NEW order, IsOrder(S, order), NEW x \in S
    PROVE  Cardinality(Below(S, order, x)) \in 0..Cardinality(S) - 1
  <1> DEFINE A == Below(S, order, x)
  <1>1. A \subseteq S /\ x \notin A
    BY DEF IsOrder, Below
  <1>2. IsFiniteSet(A) /\ Cardinality(A) <= Cardinality(S) /\ (Cardinality(A) = Cardinality(S) => A = S)
    BY <1>1, FS_Subset
  <1>3. Cardinality(A) \in Nat /\ Cardinality(S) \in Nat
    BY <1>2, FS_CardinalityType
  <1>4. QED BY <1>1, <1>2, <1>3

\* s has the elements of S, each at its rank.
SortedBy(s, S, order) ==
    /\ s \in [1..Cardinality(S) -> S]
    /\ \A x \in S : \E i \in 1..Cardinality(S) : s[i] = x
    /\ \A i, j \in 1..Cardinality(S) : i < j <=> <<s[i], s[j]>> \in order
    /\ \A i, j \in 1..Cardinality(S) : s[i] = s[j] => i = j

LEMMA Sorted ==
    ASSUME NEW S, IsFiniteSet(S), NEW order, IsOrder(S, order)
    PROVE  SortedBy(InOrder(S, order), S, order)
  <1> DEFINE n == Cardinality(S)
             f == [x \in S |-> Cardinality(Below(S, order, x)) + 1]
             s == InOrder(S, order)
  <1>1. n \in Nat
    BY FS_CardinalityType
  <1>2. \A x \in S : f[x] \in 1..n
    <2>1. ASSUME NEW x \in S PROVE f[x] \in 1..n
      BY <1>1, BelowIsSmaller
    <2>2. QED BY <2>1
  <1>3. ASSUME NEW x \in S, NEW z \in S, <<x, z>> \in order PROVE f[x] < f[z]
    <2>1. Cardinality(Below(S, order, x)) < Cardinality(Below(S, order, z))
      BY <1>3, BelowGrows
    <2>2. Cardinality(Below(S, order, x)) \in 0..n - 1 /\ Cardinality(Below(S, order, z)) \in 0..n - 1
      BY BelowIsSmaller
    <2>3. QED BY <1>1, <2>1, <2>2
  <1>4. ASSUME NEW x \in S, NEW z \in S, f[x] = f[z] PROVE x = z
    <2>1. f[x] \in 1..n /\ f[z] \in 1..n
      BY <1>2
    <2> HIDE DEF f
    <2>2. ~(f[x] < f[z]) /\ ~(f[z] < f[x])
      BY <1>1, <1>4, <2>1
    <2>3. QED BY <1>3, <2>2 DEF IsOrder
  <1>5. \A i \in 1..n : \E x \in S : f[x] = i
    <2>1. f \in [S -> 1..n]
      BY <1>2
    <2> HIDE DEF f
    <2>2. f \in Injection(S, 1..n)
      BY <1>4, <2>1 DEF Injection, IsInjective
    <2>3. IsFiniteSet(1..n) /\ Cardinality(1..n) = n
      BY <1>1, FS_Interval
    <2>4. f \in Surjection(S, 1..n)
      BY <2>2, <2>3, FS_Injection
    <2>5. QED BY <2>4 DEF Surjection
  <1>6. ASSUME NEW i \in 1..n PROVE s[i] \in S /\ f[s[i]] = i
    <2>1. PICK x \in S : f[x] = i
      BY <1>5
    <2>2. Cardinality(Below(S, order, x)) \in Int
      BY BelowIsSmaller
    <2>3. Cardinality({y \in S : <<y, x>> \in order}) = i - 1
      BY <2>1, <2>2 DEF Below
    <2>4. s[i] = CHOOSE z \in S : Cardinality({y \in S : <<y, z>> \in order}) = i - 1
      BY DEF InOrder
    <2>5. s[i] \in S /\ Cardinality({y \in S : <<y, s[i]>> \in order}) = i - 1
      BY <2>3, <2>4
    <2>6. QED BY <2>5 DEF Below
  <1>7. s \in [1..n -> S]
    <2> DEFINE pick(i) == CHOOSE x \in S : Cardinality({y \in S : <<y, x>> \in order}) = i - 1
    <2>1. s = [i \in 1..n |-> pick(i)]
      BY DEF InOrder
    <2> HIDE DEF s, pick
    <2>2. QED BY <1>6, <2>1
  <1> HIDE DEF f, s
  <1>8. \A x \in S : \E i \in 1..n : s[i] = x
    <2>1. ASSUME NEW x \in S PROVE \E i \in 1..n : s[i] = x
      <3>1. f[x] \in 1..n
        BY <1>2
      <3>2. s[f[x]] \in S /\ f[s[f[x]]] = f[x]
        BY <1>6, <3>1
      <3>3. QED BY <1>4, <3>1, <3>2
    <2>2. QED BY <2>1
  <1>9. ASSUME NEW i \in 1..n, NEW j \in 1..n
        PROVE  (i < j <=> <<s[i], s[j]>> \in order) /\ (s[i] = s[j] => i = j)
    <2>1. s[i] \in S /\ s[j] \in S /\ f[s[i]] = i /\ f[s[j]] = j
      BY <1>6
    <2>2. s[i] = s[j] => i = j
      BY <2>1
    <2>3. <<s[i], s[j]>> \in order => i < j
      BY <1>3, <2>1
    <2>4. <<s[j], s[i]>> \in order => j < i
      BY <1>3, <2>1
    <2>5. i < j => s[i] # s[j] /\ <<s[j], s[i]>> \notin order
      BY <2>1, <2>4
    <2>6. i < j => <<s[i], s[j]>> \in order
      BY <2>1, <2>5 DEF IsOrder
    <2>7. QED BY <2>2, <2>3, <2>6
  <1>10. SortedBy(s, S, order)
    BY <1>7, <1>8, <1>9 DEF SortedBy
  <1>11. QED BY <1>10 DEF s

-----------------------------------------------------------------------------
(* The walk along a strip *)

WalkStart == [ok |-> TRUE, closed |-> {}, current |-> {}]

IsWalk(walk, strip, m) ==
    walk = [n \in 0..m |-> IF n = 0 THEN WalkStart ELSE Enter(walk[n - 1], strip[n])]

LEMMA WalkExists ==
    ASSUME NEW strip, Len(strip) \in Nat
    PROVE  \E walk : IsWalk(walk, strip, Len(strip)) /\ GroupsContiguous(strip) = walk[Len(strip)].ok
  <1> DEFINE N == Len(strip)
             S == {m \in 0..N : \E walk : IsWalk(walk, strip, m)}
  <1>1. 0 \in S
    <2> DEFINE w == [n \in 0..0 |-> WalkStart]
    <2>1. IsWalk(w, strip, 0)
      BY DEF IsWalk
    <2>2. QED BY <2>1
  <1>2. ASSUME NEW m \in 1..N, m - 1 \in S PROVE m \in S
    <2>1. PICK walk : IsWalk(walk, strip, m - 1)
      BY <1>2
    <2> DEFINE w == [n \in 0..m |-> IF n = m THEN Enter(walk[m - 1], strip[m]) ELSE walk[n]]
    <2>2. ASSUME NEW n \in 0..m
          PROVE  w[n] = IF n = 0 THEN WalkStart ELSE Enter(w[n - 1], strip[n])
      <3>1. CASE n = m
        BY <3>1
      <3>2. CASE n # m
        <4>1. n \in 0..m - 1 /\ w[n] = walk[n] /\ (n # 0 => n - 1 \in 0..m - 1 /\ w[n - 1] = walk[n - 1])
          BY <3>2
        <4>2. QED BY <2>1, <4>1 DEF IsWalk
      <3>3. QED BY <3>1, <3>2
    <2>3. w = [n \in 0..m |-> w[n]]
      OBVIOUS
    <2> HIDE DEF w
    <2>4. IsWalk(w, strip, m)
      BY <2>2, <2>3 DEF IsWalk
    <2>5. QED BY <2>4
  <1> HIDE DEF S
  <1>3. \A n \in 0..N : n \in S
    BY <1>1, <1>2, Induction
  <1>4. \E walk : IsWalk(walk, strip, N)
    BY <1>3 DEF S
  <1> DEFINE walked == CHOOSE walk : IsWalk(walk, strip, N)
  <1>5. IsWalk(walked, strip, N)
    BY <1>4
  <1>6. GroupsContiguous(strip) = walked[N].ok
    BY DEF GroupsContiguous, IsWalk, WalkStart
  <1>7. QED BY <1>5, <1>6

\* The groups that were left behind by the n-th tab, and that none comes again.
LeftBehind(strip, n) == UNION {strip[m].group : m \in {k \in 1..n - 1 : strip[k + 1].group # strip[k].group}}
NoneAgain(strip, n) ==
    \A l, t, r \in 1..n :
        l < t /\ t < r /\ strip[l].group # {} /\ strip[l].group = strip[r].group
            => strip[t].group = strip[l].group

LEMMA Switches ==
    ASSUME NEW strip, NEW l \in Nat, NEW t \in Nat, l < t, strip[t].group # strip[l].group
    PROVE  \E m \in l..t - 1 : strip[m].group = strip[l].group /\ strip[m + 1].group # strip[l].group
  <1> DEFINE T == {k \in l..t : strip[k].group # strip[l].group}
  <1>1. t \in T /\ T \subseteq Nat
    OBVIOUS
  <1>2. PICK n \in T : \A k \in T : n <= k
    BY <1>1, Least
  <1>3. n \in l + 1..t /\ n - 1 \in l..t - 1 /\ n - 1 \notin T
    BY <1>2
  <1>4. strip[n - 1].group = strip[l].group /\ strip[(n - 1) + 1].group # strip[l].group
    BY <1>3
  <1>5. QED BY <1>3, <1>4

\* A group that is entered again is one that was left behind.
LEMMA EnteredAgain ==
    ASSUME NEW strip, NEW n \in Nat,
           \A i \in 1..n + 1 : \A a, b \in strip[i].group : a = b,
           n = 0 \/ strip[n + 1].group # strip[n].group
    PROVE  NoneAgain(strip, n + 1) <=>
               NoneAgain(strip, n) /\ strip[n + 1].group \cap LeftBehind(strip, n + 1) = {}
  <1>1. ASSUME NoneAgain(strip, n + 1) PROVE NoneAgain(strip, n)
    BY <1>1 DEF NoneAgain
  <1>2. ASSUME NoneAgain(strip, n + 1), NEW g \in strip[n + 1].group, g \in LeftBehind(strip, n + 1) PROVE FALSE
    <2>1. PICK m \in 1..n : g \in strip[m].group /\ strip[m + 1].group # strip[m].group
      BY <1>2 DEF LeftBehind
    <2>2. strip[m].group = {g} /\ strip[n + 1].group = {g}
      BY <1>2, <2>1
    <2>3. m + 1 # n + 1
      BY <2>1, <2>2
    <2>4. m \in 1..n + 1 /\ m + 1 \in 1..n + 1 /\ n + 1 \in 1..n + 1 /\ m < m + 1 /\ m + 1 < n + 1
      BY <2>3
    <2>5. QED BY <1>2, <2>1, <2>2, <2>4 DEF NoneAgain
  <1>3. ASSUME NoneAgain(strip, n), strip[n + 1].group \cap LeftBehind(strip, n + 1) = {}
        PROVE  NoneAgain(strip, n + 1)
    <2>1. SUFFICES ASSUME NEW l \in 1..n + 1, NEW t \in 1..n + 1, NEW r \in 1..n + 1, l < t, t < r,
                          strip[l].group # {}, strip[l].group = strip[r].group, strip[t].group # strip[l].group
                   PROVE  FALSE
      BY DEF NoneAgain
    <2>2. CASE r # n + 1
      <3>1. l \in 1..n /\ t \in 1..n /\ r \in 1..n
        BY <2>1, <2>2
      <3>2. QED BY <1>3, <2>1, <3>1 DEF NoneAgain
    <2>3. CASE r = n + 1
      <3>1. PICK m \in l..t - 1 : strip[m].group = strip[l].group /\ strip[m + 1].group # strip[l].group
        BY <2>1, Switches
      <3>2. m \in 1..n
        BY <2>1, <3>1
      <3>3. strip[m].group \subseteq LeftBehind(strip, n + 1)
        BY <3>1, <3>2 DEF LeftBehind
      <3>4. QED BY <1>3, <2>1, <2>3, <3>1, <3>3
    <2>4. QED BY <2>2, <2>3
  <1>4. QED BY <1>1, <1>2, <1>3

LEMMA LeftBehindGrows ==
    ASSUME NEW strip, NEW n \in Nat \ {0}
    PROVE  LeftBehind(strip, n + 1) =
               LeftBehind(strip, n) \cup (IF strip[n + 1].group = strip[n].group THEN {} ELSE strip[n].group)
  <1>1. \A g : g \in LeftBehind(strip, n + 1) <=>
            \E m \in 1..n : strip[m + 1].group # strip[m].group /\ g \in strip[m].group
    BY DEF LeftBehind
  <1>2. \A g : g \in LeftBehind(strip, n) <=>
            \E m \in 1..n - 1 : strip[m + 1].group # strip[m].group /\ g \in strip[m].group
    BY DEF LeftBehind
  <1>3. QED BY <1>1, <1>2

LEMMA WalkFinds ==
    ASSUME NEW strip, NEW N \in Nat, NEW walk, IsWalk(walk, strip, N),
           \A i \in 1..N : \A a, b \in strip[i].group : a = b
    PROVE  walk[N].ok <=> NoneAgain(strip, N)
  <1> DEFINE Good(n) == /\ walk[n].ok \in BOOLEAN
                        /\ walk[n].ok <=> NoneAgain(strip, n)
                        /\ walk[n].closed = LeftBehind(strip, n)
                        /\ walk[n].current = IF n = 0 THEN {} ELSE strip[n].group
             S == {n \in 0..N : Good(n)}
  <1>1. 0 \in S
    <2>1. walk[0] = WalkStart
      BY DEF IsWalk
    <2>2. LeftBehind(strip, 0) = {} /\ NoneAgain(strip, 0)
      BY DEF LeftBehind, NoneAgain
    <2>3. walk[0].ok = TRUE /\ walk[0].closed = {} /\ walk[0].current = {}
      BY <2>1 DEF WalkStart
    <2>4. Good(0)
      BY <2>2, <2>3
    <2>5. QED BY <2>4
  <1>2. ASSUME NEW n \in 1..N, n - 1 \in S PROVE n \in S
    <2> DEFINE k == n - 1
    <2>1. k \in Nat /\ n = k + 1 /\ k \in 0..N /\ Good(k) /\ walk[n] = Enter(walk[k], strip[n])
      BY <1>2 DEF IsWalk
    <2>2. /\ walk[k].current = IF k = 0 THEN {} ELSE strip[k].group
          /\ walk[k].closed = LeftBehind(strip, k)
      BY <2>1
    <2>3. walk[k].ok \in BOOLEAN /\ (walk[k].ok <=> NoneAgain(strip, k))
      BY <2>1
    <2>4. k \in Nat /\ n = k + 1 /\ k \in 0..N /\ walk[n] = Enter(walk[k], strip[n])
      BY <2>1
    <2>5. ASSUME walk[n].ok \in BOOLEAN, walk[n].ok <=> NoneAgain(strip, n),
                 walk[n].closed = LeftBehind(strip, n), walk[n].current = strip[n].group
          PROVE  n \in S
      BY <2>5
    <2> HIDE DEF k, S, Good
    <2>6. CASE strip[n].group = walk[k].current
      <3>1. walk[n] = walk[k]
        BY <2>2, <2>4, <2>6 DEF Enter
      <3>2. LeftBehind(strip, n) = LeftBehind(strip, k)
        <4>1. CASE k = 0
          BY <2>2, <2>4, <4>1 DEF LeftBehind
        <4>2. CASE k # 0
          <5>1. strip[k + 1].group = strip[k].group
            BY <2>2, <2>4, <2>6, <4>2
          <5>2. LeftBehind(strip, k + 1) = LeftBehind(strip, k) \cup {}
            BY <2>4, <4>2, <5>1, LeftBehindGrows
          <5>3. QED BY <2>4, <5>2
        <4>3. QED BY <4>1, <4>2
      <3>3. NoneAgain(strip, n) <=> NoneAgain(strip, k)
        <4>1. ASSUME NoneAgain(strip, n) PROVE NoneAgain(strip, k)
          BY <2>2, <2>4, <4>1 DEF NoneAgain
        <4>2. ASSUME NoneAgain(strip, k) PROVE NoneAgain(strip, n)
          <5>1. SUFFICES ASSUME NEW l \in 1..n, NEW t \in 1..n, NEW r \in 1..n, l < t, t < r,
                                strip[l].group # {}, strip[l].group = strip[r].group
                         PROVE  strip[t].group = strip[l].group
            BY DEF NoneAgain
          <5>2. l \in 1..k /\ t \in 1..k /\ k \in 1..k
            BY <2>2, <2>4, <5>1
          <5>3. strip[r].group = strip[k].group \/ r \in 1..k
            BY <2>2, <2>4, <2>6, <5>1, <5>2
          <5>4. CASE r \in 1..k
            BY <4>2, <5>1, <5>2, <5>4 DEF NoneAgain
          <5>5. CASE strip[r].group = strip[k].group /\ t < k
            BY <4>2, <5>1, <5>2, <5>5 DEF NoneAgain
          <5>6. CASE strip[r].group = strip[k].group /\ t = k
            BY <5>1, <5>6
          <5>7. QED BY <5>2, <5>3, <5>4, <5>5, <5>6
        <4>3. QED BY <4>1, <4>2
      <3>4. walk[n].current = strip[n].group
        BY <2>6, <3>1
      <3>5. QED BY <2>2, <2>3, <2>5, <3>1, <3>2, <3>3, <3>4
    <2>7. CASE strip[n].group # walk[k].current
      <3> DEFINE closed == walk[k].closed \cup walk[k].current
      <3>1. /\ walk[n].ok = (walk[k].ok /\ strip[n].group \cap closed = {})
            /\ walk[n].closed = closed /\ walk[n].current = strip[n].group
        BY <2>2, <2>4, <2>7 DEF Enter
      <3>2. LeftBehind(strip, n) = closed
        <4>1. CASE k = 0
          <5>1. LeftBehind(strip, n) = {}
            BY <2>2, <2>4, <4>1 DEF LeftBehind
          <5>2. LeftBehind(strip, 0) = {}
            BY DEF LeftBehind
          <5>3. QED BY <2>2, <2>4, <4>1, <5>1, <5>2
        <4>2. CASE k # 0
          BY <2>2, <2>4, <2>7, <4>2, LeftBehindGrows
        <4>3. QED BY <4>1, <4>2
      <3>3. NoneAgain(strip, n) <=> NoneAgain(strip, k) /\ strip[n].group \cap LeftBehind(strip, n) = {}
        <4>1. \A i \in 1..k + 1 : \A a, b \in strip[i].group : a = b
          BY <2>2, <2>4
        <4>2. k = 0 \/ strip[k + 1].group # strip[k].group
          BY <2>2, <2>4, <2>7
        <4>3. QED BY <2>2, <2>4, <4>1, <4>2, EnteredAgain
      <3> HIDE DEF closed
      <3>4. QED BY <2>2, <2>3, <2>5, <3>1, <3>2, <3>3
    <2>8. QED BY <2>6, <2>7
  <1> HIDE DEF S
  <1>3. \A n \in 0..N : n \in S
    BY <1>1, <1>2, Induction
  <1>4. Good(N)
    BY <1>3 DEF S
  <1>5. QED BY <1>4

-----------------------------------------------------------------------------
(* Strips *)

LEMMA BaselineTypes ==
    ASSUME NEW b, WellTyped(b)
    PROVE  /\ b.windows \in Seq(Range(b.windows)) /\ b.groups \in Seq(Range(b.groups))
           /\ b.tabs \in Seq(Range(b.tabs))
           /\ \A window \in Range(b.windows) : window.id \in Int /\ window.focused \in BOOLEAN
           /\ \A tab \in Range(b.tabs) :
                  tab.index \in Int /\ tab.discarded \in BOOLEAN /\ \A x, y \in tab.group : x = y
  <1>1. \A kind \in {"windows", "groups", "tabs"} : b[kind] \in Seq(Range(b[kind]))
    BY DEF WellTyped
  <1>2. /\ b["windows"] \in Seq(Range(b["windows"])) /\ b["groups"] \in Seq(Range(b["groups"]))
        /\ b["tabs"] \in Seq(Range(b["tabs"]))
    BY <1>1
  <1>3. QED BY <1>2 DEF WellTyped

LEMMA RangeIsFinite ==
    ASSUME NEW s, s \in Seq(Range(s))
    PROVE  /\ IsFiniteSet(Range(s)) /\ Len(s) \in Nat /\ DOMAIN s = 1..Len(s)
           /\ \A x : x \in Range(s) <=> \E i \in 1..Len(s) : s[i] = x
  <1>1. Len(s) \in Nat /\ DOMAIN s = 1..Len(s) /\ s \in [1..Len(s) -> Range(s)]
    OBVIOUS
  <1>2. \A x : x \in Range(s) <=> \E i \in 1..Len(s) : s[i] = x
    BY <1>1 DEF Range
  <1>3. s \in Surjection(1..Len(s), Range(s))
    BY <1>1, <1>2 DEF Surjection
  <1>4. IsFiniteSet(1..Len(s))
    BY <1>1, FS_Interval
  <1>5. IsFiniteSet(Range(s))
    BY <1>3, <1>4, FS_Surjection
  <1>6. QED BY <1>1, <1>2, <1>5

TabsIn(b, window) == {tab \in Range(b.tabs) : tab.window = window}
Along(tabs) == {pair \in tabs \X tabs : pair[1].index < pair[2].index}

LEMMA TabsOfWindow ==
    ASSUME NEW b, WellTyped(b), DistinctIndexes(b), NEW window
    PROVE  IsFiniteSet(TabsIn(b, window)) /\ IsOrder(TabsIn(b, window), Along(TabsIn(b, window)))
  <1> DEFINE tabs == TabsIn(b, window)
  <1>1. b.tabs \in Seq(Range(b.tabs)) /\ \A tab \in Range(b.tabs) : tab.index \in Int
    BY BaselineTypes
  <1>2. tabs \subseteq Range(b.tabs) /\ \A tab \in tabs : tab.window = window
    BY DEF TabsIn
  <1>3. IsFiniteSet(tabs)
    BY <1>1, <1>2, RangeIsFinite, FS_Subset
  <1>4. \A x, y : <<x, y>> \in Along(tabs) <=> x \in tabs /\ y \in tabs /\ x.index < y.index
    BY DEF Along
  <1>5. ASSUME NEW x \in tabs, NEW y \in tabs, x.index = y.index PROVE x = y
    <2>1. DOMAIN b.tabs = 1..Len(b.tabs)
      BY <1>1, RangeIsFinite
    <2>2. PICK i \in 1..Len(b.tabs) : b.tabs[i] = x
      BY <1>1, <1>2, <1>5, RangeIsFinite
    <2>3. PICK j \in 1..Len(b.tabs) : b.tabs[j] = y
      BY <1>1, <1>2, <1>5, RangeIsFinite
    <2> DEFINE place == [k \in DOMAIN b.tabs |-> <<b.tabs[k].window, b.tabs[k].index>>]
    <2>4. place[i] = <<window, x.index>> /\ place[j] = <<window, y.index>>
      BY <1>2, <1>5, <2>1, <2>2, <2>3
    <2>5. i = j
      BY <1>5, <2>1, <2>4 DEF DistinctIndexes, IsInjective
    <2>6. QED BY <2>2, <2>3, <2>5
  <1>6. \A x \in tabs : x.index \in Int
    BY <1>1, <1>2
  <1> HIDE DEF tabs
  <1>7. IsOrder(tabs, Along(tabs))
    BY <1>4, <1>5, <1>6 DEF IsOrder
  <1>8. QED BY <1>3, <1>7 DEF tabs

\* The strip of a window has its tabs in the order of their indexes.
LEMMA StripIsSorted ==
    ASSUME NEW b, WellTyped(b), DistinctIndexes(b), NEW window
    PROVE  /\ Strip(b, window) \in [1..Len(Strip(b, window)) -> TabsIn(b, window)]
           /\ Len(Strip(b, window)) \in Nat
           /\ \A tab \in TabsIn(b, window) : \E i \in 1..Len(Strip(b, window)) : Strip(b, window)[i] = tab
           /\ \A i, j \in 1..Len(Strip(b, window)) :
                  i < j <=> Strip(b, window)[i].index < Strip(b, window)[j].index
  <1> DEFINE tabs == TabsIn(b, window)
             s == Strip(b, window)
             n == Cardinality(tabs)
  <1>1. s = InOrder(tabs, Along(tabs))
    BY DEF Strip, TabsIn, Along
  <1>2. IsFiniteSet(tabs) /\ IsOrder(tabs, Along(tabs))
    BY TabsOfWindow
  <1>3. SortedBy(s, tabs, Along(tabs)) /\ n \in Nat
    BY <1>1, <1>2, Sorted, FS_CardinalityType
  <1> HIDE DEF s, tabs, n
  <1>4. s \in [1..n -> tabs] /\ n \in Nat
    BY <1>3 DEF SortedBy, n
  <1>5. s \in Seq(tabs) /\ Len(s) = n
    BY <1>4
  <1>6. \A i, j \in 1..n : i < j <=> <<s[i], s[j]>> \in Along(tabs)
    BY <1>3 DEF SortedBy, n
  <1>7. \A i, j \in 1..n : i < j <=> s[i].index < s[j].index
    BY <1>4, <1>6 DEF Along
  <1>8. \A tab \in tabs : \E i \in 1..n : s[i] = tab
    BY <1>3 DEF SortedBy, n
  <1>9. /\ s \in [1..Len(s) -> tabs] /\ Len(s) \in Nat
        /\ \A tab \in tabs : \E i \in 1..Len(s) : s[i] = tab
        /\ \A i, j \in 1..Len(s) : i < j <=> s[i].index < s[j].index
    BY <1>4, <1>5, <1>7, <1>8
  <1>10. QED BY <1>9 DEF s, tabs

\* No tab of a window stands between two of a group that it does not belong to.
Uninterrupted(b, window) ==
    \A left, right, tab \in TabsIn(b, window) :
        left.group # {} /\ left.group = right.group /\ left.index < tab.index /\ tab.index < right.index
            => tab.group = left.group

LEMMA WalkIsExact ==
    ASSUME NEW b, WellTyped(b), DistinctIndexes(b), NEW window
    PROVE  GroupsContiguous(Strip(b, window)) <=> Uninterrupted(b, window)
  <1> DEFINE tabs == TabsIn(b, window)
             s == Strip(b, window)
             n == Len(s)
  <1>1. /\ s \in [1..n -> tabs] /\ n \in Nat
        /\ \A tab \in tabs : \E i \in 1..n : s[i] = tab
        /\ \A i, j \in 1..n : i < j <=> s[i].index < s[j].index
    BY StripIsSorted
  <1> HIDE DEF s
  <1>2. \A i \in 1..n : \A x, y \in s[i].group : x = y
    BY <1>1, BaselineTypes DEF TabsIn
  <1>3. PICK walk : IsWalk(walk, s, n) /\ GroupsContiguous(s) = walk[n].ok
    BY <1>1, WalkExists
  <1>4. walk[n].ok <=> NoneAgain(s, n)
    BY <1>1, <1>2, <1>3, WalkFinds
  <1> HIDE DEF tabs, n
  <1>5. ASSUME NoneAgain(s, n), NEW left \in tabs, NEW right \in tabs, NEW tab \in tabs,
               left.group # {}, left.group = right.group, left.index < tab.index, tab.index < right.index
        PROVE  tab.group = left.group
    <2>1. PICK l \in 1..n : s[l] = left
      BY <1>1
    <2>2. PICK r \in 1..n : s[r] = right
      BY <1>1
    <2>3. PICK t \in 1..n : s[t] = tab
      BY <1>1
    <2>4. l < t /\ t < r
      BY <1>1, <1>5, <2>1, <2>2, <2>3
    <2>5. QED BY <1>5, <2>1, <2>2, <2>3, <2>4 DEF NoneAgain
  <1>6. ASSUME Uninterrupted(b, window) PROVE NoneAgain(s, n)
    <2>1. SUFFICES ASSUME NEW l \in 1..n, NEW t \in 1..n, NEW r \in 1..n, l < t, t < r,
                          s[l].group # {}, s[l].group = s[r].group
                   PROVE  s[t].group = s[l].group
      BY DEF NoneAgain
    <2>2. s[l] \in tabs /\ s[t] \in tabs /\ s[r] \in tabs
      BY <1>1
    <2>3. s[l].index < s[t].index /\ s[t].index < s[r].index
      BY <1>1, <2>1
    <2>4. QED BY <1>6, <2>1, <2>2, <2>3 DEF Uninterrupted, tabs
  <1>7. NoneAgain(s, n) <=> Uninterrupted(b, window)
    BY <1>5, <1>6 DEF Uninterrupted, tabs
  <1>8. QED BY <1>3, <1>4, <1>7 DEF s

-----------------------------------------------------------------------------
(* Accepted baselines *)

AcceptedBaseline(b) ==
    /\ WellTyped(b)
    /\ DistinctIdentity(b)
    /\ KnownReferences(b)
    /\ DistinctIndexes(b)
    /\ ValidStrips(b)

LEMMA ConcatenatedApart ==
    ASSUME NEW K, NEW s \in Seq(K), NEW t \in Seq(K), IsInjective(s \o t)
    PROVE  IsInjective(s) /\ IsInjective(t)
  <1>1. /\ Len(s) \in Nat /\ Len(t) \in Nat /\ DOMAIN s = 1..Len(s) /\ DOMAIN t = 1..Len(t)
        /\ DOMAIN (s \o t) = 1..Len(s) + Len(t)
    OBVIOUS
  <1>2. \A i \in 1..Len(s) : i \in 1..Len(s) + Len(t) /\ (s \o t)[i] = s[i]
    BY <1>1
  <1>3. \A i \in 1..Len(t) : i + Len(s) \in 1..Len(s) + Len(t) /\ (s \o t)[i + Len(s)] = t[i]
    BY <1>1
  <1>4. \A i, j \in 1..Len(s) + Len(t) : (s \o t)[i] = (s \o t)[j] => i = j
    BY <1>1 DEF IsInjective
  <1>5. IsInjective(s)
    BY <1>1, <1>2, <1>4 DEF IsInjective
  <1>6. ASSUME NEW i \in 1..Len(t), NEW j \in 1..Len(t), t[i] = t[j] PROVE i = j
    <2>1. i + Len(s) = j + Len(s)
      BY <1>3, <1>4, <1>6
    <2>2. QED BY <1>1, <2>1
  <1>7. IsInjective(t)
    BY <1>1, <1>6 DEF IsInjective
  <1>8. QED BY <1>5, <1>7

LEMMA KeysAreASequence ==
    ASSUME NEW s, s \in Seq(Range(s)), NEW K, \A x \in Range(s) : x.key \in K
    PROVE  Keys(s) \in Seq(K) /\ DOMAIN Keys(s) = 1..Len(s)
  <1>1. DOMAIN s = 1..Len(s) /\ Len(s) \in Nat /\ \A i \in 1..Len(s) : s[i] \in Range(s)
    BY RangeIsFinite
  <1>2. Keys(s) = [i \in 1..Len(s) |-> s[i].key]
    BY <1>1 DEF Keys
  <1>3. \A i \in 1..Len(s) : s[i].key \in K
    BY <1>1
  <1>4. QED BY <1>1, <1>2, <1>3

LEMMA OneOfEachKey ==
    ASSUME NEW s, s \in Seq(Range(s)), IsInjective(Keys(s)), NEW x \in Range(s), NEW y \in Range(s), x.key = y.key
    PROVE  x = y
  <1>1. DOMAIN s = 1..Len(s)
    BY RangeIsFinite
  <1>2. PICK i \in 1..Len(s) : s[i] = x
    BY RangeIsFinite
  <1>3. PICK j \in 1..Len(s) : s[j] = y
    BY RangeIsFinite
  <1>4. QED BY <1>1, <1>2, <1>3 DEF Keys, IsInjective

\* An object is the only one of its kind with its key, a window with its id as well.
LEMMA KeysName ==
    ASSUME NEW b, WellTyped(b), DistinctIdentity(b)
    PROVE  /\ \A x, y \in Range(b.windows) : x.key = y.key \/ x.id = y.id => x = y
           /\ \A x, y \in Range(b.groups) : x.key = y.key => x = y
           /\ \A x, y \in Range(b.tabs) : x.key = y.key => x = y
  <1> DEFINE K == {x.key : x \in Range(b.windows) \cup Range(b.groups) \cup Range(b.tabs)}
             W == Keys(b.windows)
             G == Keys(b.groups)
             T == Keys(b.tabs)
  <1>1. b.windows \in Seq(Range(b.windows)) /\ b.groups \in Seq(Range(b.groups)) /\ b.tabs \in Seq(Range(b.tabs))
    BY BaselineTypes
  <1>2. /\ \A x \in Range(b.windows) : x.key \in K
        /\ \A x \in Range(b.groups) : x.key \in K
        /\ \A x \in Range(b.tabs) : x.key \in K
    OBVIOUS
  <1>3. IsInjective((W \o G) \o T)
    BY DEF DistinctIdentity
  <1> HIDE DEF K
  <1>4. W \in Seq(K) /\ G \in Seq(K) /\ T \in Seq(K)
    BY <1>1, <1>2, KeysAreASequence
  <1> HIDE DEF W, G, T
  <1>5. W \o G \in Seq(K)
    BY <1>4
  <1>6. IsInjective(W \o G) /\ IsInjective(T)
    BY <1>3, <1>4, <1>5, ConcatenatedApart
  <1>7. IsInjective(W) /\ IsInjective(G)
    BY <1>4, <1>6, ConcatenatedApart
  <1>8. IsInjective(Ids(b.windows))
    <2>1. IsInjective(Ids(b["windows"]))
      BY DEF DistinctIdentity
    <2>2. QED BY <2>1
  <1>9. ASSUME NEW x \in Range(b.windows), NEW y \in Range(b.windows), x.id = y.id PROVE x = y
    <2>1. DOMAIN b.windows = 1..Len(b.windows)
      BY <1>1, RangeIsFinite
    <2>2. PICK i \in 1..Len(b.windows) : b.windows[i] = x
      BY <1>1, RangeIsFinite
    <2>3. PICK j \in 1..Len(b.windows) : b.windows[j] = y
      BY <1>1, RangeIsFinite
    <2>4. QED BY <1>8, <1>9, <2>1, <2>2, <2>3 DEF Ids, IsInjective
  <1>10. QED BY <1>1, <1>6, <1>7, <1>9, OneOfEachKey DEF W, G, T

LEMMA Named ==
    ASSUME NEW b, WellTyped(b), DistinctIdentity(b)
    PROVE  /\ \A window \in Range(b.windows) : WindowOf(b, window.key) = window
           /\ \A tab \in Range(b.tabs) : TabOf(b, tab.key) = tab
  <1>1. ASSUME NEW window \in Range(b.windows) PROVE WindowOf(b, window.key) = window
    <2>1. \A y \in Range(b.windows) : y.key = window.key => y = window
      BY KeysName
    <2>2. QED BY <2>1 DEF WindowOf, ChooseUnique
  <1>2. ASSUME NEW tab \in Range(b.tabs) PROVE TabOf(b, tab.key) = tab
    <2>1. \A y \in Range(b.tabs) : y.key = tab.key => y = tab
      BY KeysName
    <2>2. QED BY <2>1 DEF TabOf, ChooseUnique
  <1>3. QED BY <1>1, <1>2

\* The window of a tab, and the one of a tab in a group.
LEMMA WindowsOfTabs ==
    ASSUME NEW b, AcceptedBaseline(b), NEW tab \in Range(b.tabs)
    PROVE  /\ WindowOf(b, tab.window) \in Range(b.windows)
           /\ WindowOf(b, tab.window).key = tab.window
           /\ tab.window \in Range(Keys(b.windows))
           /\ \A key \in tab.group : key \in Range(Keys(b.groups))
           /\ \A other \in Range(b.tabs) : tab.group # {} /\ other.group = tab.group => other.window = tab.window
  <1>1. WellTyped(b) /\ DistinctIdentity(b) /\ KnownReferences(b)
    BY DEF AcceptedBaseline
  <1>2. /\ tab.window \in Range(Keys(b.windows))
        /\ \A key \in tab.group : \E group \in Range(b.groups) : group.key = key /\ group.window = tab.window
    BY <1>1 DEF KnownReferences
  <1>3. \E window \in Range(b.windows) : window.key = tab.window
    BY <1>2 DEF Range, Keys
  <1>4. \A key \in tab.group : key \in Range(Keys(b.groups))
    BY <1>2 DEF Range, Keys
  <1>5. ASSUME NEW other \in Range(b.tabs), tab.group # {}, other.group = tab.group
        PROVE  other.window = tab.window
    <2>1. PICK key : key \in tab.group /\ key \in other.group
      BY <1>5
    <2>2. PICK group \in Range(b.groups) : group.key = key /\ group.window = tab.window
      BY <1>2, <2>1
    <2>3. PICK same \in Range(b.groups) : same.key = key /\ same.window = other.window
      BY <1>1, <2>1 DEF KnownReferences
    <2>4. QED BY <1>1, <2>2, <2>3, KeysName
  <1>6. QED BY <1>1, <1>2, <1>3, <1>4, <1>5, Named


-----------------------------------------------------------------------------
(* The order of the matches *)

Ahead(b, M) == {pair \in M \X M : Before(b, pair[1], pair[2])}

\* Where a tab stands among the others: in a window that is focused or not and has
\* an id of its own, at an index.
LEMMA BeforeIs ==
    ASSUME NEW b, AcceptedBaseline(b), NEW x \in Range(b.tabs), NEW y \in Range(b.tabs)
    PROVE  /\ WindowOf(b, x.window).id \in Int /\ WindowOf(b, x.window).focused \in BOOLEAN /\ x.index \in Int
           /\ WindowOf(b, x.window).id = WindowOf(b, y.window).id => x.window = y.window
           /\ x.window = y.window /\ x.index = y.index => x = y
           /\ Before(b, x, y) <=>
                  \/ WindowOf(b, x.window).focused /\ ~WindowOf(b, y.window).focused
                  \/ /\ WindowOf(b, x.window).focused = WindowOf(b, y.window).focused
                     /\ WindowOf(b, x.window).id < WindowOf(b, y.window).id
                  \/ /\ WindowOf(b, x.window).focused = WindowOf(b, y.window).focused
                     /\ WindowOf(b, x.window).id = WindowOf(b, y.window).id
                     /\ x.index < y.index
  <1>1. WellTyped(b) /\ DistinctIdentity(b) /\ DistinctIndexes(b)
    BY DEF AcceptedBaseline
  <1>2. WindowOf(b, x.window) \in Range(b.windows) /\ WindowOf(b, x.window).key = x.window
    BY WindowsOfTabs
  <1>3. WindowOf(b, y.window) \in Range(b.windows) /\ WindowOf(b, y.window).key = y.window
    BY WindowsOfTabs
  <1>4. WindowOf(b, x.window).id \in Int /\ WindowOf(b, x.window).focused \in BOOLEAN /\ x.index \in Int
    BY <1>1, <1>2, BaselineTypes
  <1>5. WindowOf(b, x.window).id = WindowOf(b, y.window).id => x.window = y.window
    BY <1>1, <1>2, <1>3, KeysName
  <1>6. ASSUME x.window = y.window, x.index = y.index PROVE x = y
    <2> DEFINE tabs == TabsIn(b, x.window)
    <2>1. IsOrder(tabs, Along(tabs)) /\ x \in tabs /\ y \in tabs
      BY <1>1, <1>6, TabsOfWindow DEF TabsIn
    <2>2. <<x, y>> \notin Along(tabs) /\ <<y, x>> \notin Along(tabs)
      BY <1>4, <1>6 DEF Along
    <2> HIDE DEF tabs
    <2>3. QED BY <2>1, <2>2 DEF IsOrder
  <1>7. QED BY <1>4, <1>5, <1>6 DEF Before

LEMMA MatchOrder ==
    ASSUME NEW b, AcceptedBaseline(b), NEW M, M \subseteq Range(b.tabs)
    PROVE  IsFiniteSet(M) /\ IsOrder(M, Ahead(b, M))
  <1>1. IsFiniteSet(Range(b.tabs))
    <2>1. WellTyped(b)
      BY DEF AcceptedBaseline
    <2>2. b.tabs \in Seq(Range(b.tabs))
      BY <2>1, BaselineTypes
    <2>3. QED BY <2>2, RangeIsFinite
  <1>2. IsFiniteSet(M)
    BY <1>1, FS_Subset
  <1>3. \A x, y : <<x, y>> \in Ahead(b, M) <=> x \in M /\ y \in M /\ Before(b, x, y)
    BY DEF Ahead
  <1>4. ASSUME NEW x \in M PROVE ~Before(b, x, x)
    <2>1. x \in Range(b.tabs)
      OBVIOUS
    <2>2. QED BY <2>1, BeforeIs
  <1>5. ASSUME NEW x \in M, NEW y \in M, x # y PROVE Before(b, x, y) \/ Before(b, y, x)
    <2>1. x \in Range(b.tabs) /\ y \in Range(b.tabs)
      OBVIOUS
    <2> DEFINE l == WindowOf(b, x.window)
               r == WindowOf(b, y.window)
    <2>2. /\ l.id \in Int /\ l.focused \in BOOLEAN /\ x.index \in Int
          /\ l.id = r.id => x.window = y.window
          /\ x.window = y.window /\ x.index = y.index => x = y
          /\ Before(b, x, y) <=> \/ l.focused /\ ~r.focused
                                 \/ l.focused = r.focused /\ l.id < r.id
                                 \/ l.focused = r.focused /\ l.id = r.id /\ x.index < y.index
      BY <2>1, BeforeIs
    <2>3. /\ r.id \in Int /\ r.focused \in BOOLEAN /\ y.index \in Int
          /\ Before(b, y, x) <=> \/ r.focused /\ ~l.focused
                                 \/ r.focused = l.focused /\ r.id < l.id
                                 \/ r.focused = l.focused /\ r.id = l.id /\ y.index < x.index
      BY <2>1, BeforeIs
    <2> HIDE DEF l, r
    <2>4. QED BY <1>5, <2>2, <2>3
  <1>6. ASSUME NEW x \in M, NEW y \in M, NEW z \in M, Before(b, x, y), Before(b, y, z) PROVE Before(b, x, z)
    <2>1. x \in Range(b.tabs) /\ y \in Range(b.tabs) /\ z \in Range(b.tabs)
      OBVIOUS
    <2> DEFINE l == WindowOf(b, x.window)
               m == WindowOf(b, y.window)
               r == WindowOf(b, z.window)
    <2>2. /\ l.id \in Int /\ l.focused \in BOOLEAN /\ x.index \in Int
          /\ Before(b, x, y) <=> \/ l.focused /\ ~m.focused
                                 \/ l.focused = m.focused /\ l.id < m.id
                                 \/ l.focused = m.focused /\ l.id = m.id /\ x.index < y.index
      BY <2>1, BeforeIs
    <2>3. /\ m.id \in Int /\ m.focused \in BOOLEAN /\ y.index \in Int
          /\ Before(b, y, z) <=> \/ m.focused /\ ~r.focused
                                 \/ m.focused = r.focused /\ m.id < r.id
                                 \/ m.focused = r.focused /\ m.id = r.id /\ y.index < z.index
      BY <2>1, BeforeIs
    <2>4. /\ r.id \in Int /\ r.focused \in BOOLEAN /\ z.index \in Int
      BY <2>1, BeforeIs
    <2>5. Before(b, x, z) <=> \/ l.focused /\ ~r.focused
                              \/ l.focused = r.focused /\ l.id < r.id
                              \/ l.focused = r.focused /\ l.id = r.id /\ x.index < z.index
      BY <2>1, BeforeIs
    <2> HIDE DEF l, m, r
    <2>6. QED BY <1>6, <2>2, <2>3, <2>4, <2>5
  <1>7. QED BY <1>2, <1>3, <1>4, <1>5, <1>6 DEF IsOrder

\* Windows and groups are kept together.
LEMMA KeptTogether ==
    ASSUME NEW b, AcceptedBaseline(b), NEW x \in Range(b.tabs), NEW y \in Range(b.tabs), NEW z \in Range(b.tabs),
           Before(b, x, y), Before(b, y, z)
    PROVE  /\ x.window = z.window => y.window = x.window
           /\ x.group # {} /\ x.group = z.group => y.group = x.group
  <1> DEFINE l == WindowOf(b, x.window)
             m == WindowOf(b, y.window)
             r == WindowOf(b, z.window)
  <1>1. /\ l.id \in Int /\ l.focused \in BOOLEAN /\ x.index \in Int
        /\ l.id = m.id => x.window = y.window
        /\ Before(b, x, y) <=> \/ l.focused /\ ~m.focused
                               \/ l.focused = m.focused /\ l.id < m.id
                               \/ l.focused = m.focused /\ l.id = m.id /\ x.index < y.index
    BY BeforeIs
  <1>2. /\ m.id \in Int /\ m.focused \in BOOLEAN /\ y.index \in Int
        /\ Before(b, y, z) <=> \/ m.focused /\ ~r.focused
                               \/ m.focused = r.focused /\ m.id < r.id
                               \/ m.focused = r.focused /\ m.id = r.id /\ y.index < z.index
    BY BeforeIs
  <1>3. x.window = z.window => l = r
    OBVIOUS
  <1> HIDE DEF l, m, r
  <1>4. ASSUME x.window = z.window
        PROVE  y.window = x.window /\ x.index < y.index /\ y.index < z.index
    <2>1. l = r
      BY <1>3, <1>4
    <2>2. l.id = m.id /\ x.index < y.index /\ y.index < z.index
      BY <1>1, <1>2, <2>1
    <2>3. QED BY <1>1, <2>2
  <1>5. ASSUME x.group # {}, x.group = z.group PROVE y.group = x.group
    <2>1. x.window = z.window
      BY <1>5, WindowsOfTabs
    <2>2. x.window \in Range(Keys(b.windows))
      BY WindowsOfTabs
    <2>3. GroupsContiguous(Strip(b, x.window))
      BY <2>2 DEF AcceptedBaseline, ValidStrips
    <2>4. WellTyped(b) /\ DistinctIndexes(b)
      BY DEF AcceptedBaseline
    <2>5. Uninterrupted(b, x.window)
      BY <2>3, <2>4, WalkIsExact
    <2>6. x \in TabsIn(b, x.window) /\ y \in TabsIn(b, x.window) /\ z \in TabsIn(b, x.window)
      BY <1>4, <2>1 DEF TabsIn
    <2>7. QED BY <1>4, <1>5, <2>1, <2>5, <2>6 DEF Uninterrupted
  <1>6. QED BY <1>4, <1>5

-----------------------------------------------------------------------------
(* Windows that grow by a tab *)

\* The places of rendered windows, as Items, ItemAt, Spots and TabRefAt name those of a page.
Places(W) == UNION {{w} \X DOMAIN W[w].items : w \in DOMAIN W}
At(W, place) == W[place[1]].items[place[2]]
SpotsIn(W) == UNION {{place} \X DOMAIN At(W, place).tabs : place \in Places(W)}
RefAt(W, spot) == At(W, spot[1]).tabs[spot[2]].ref

ItemType(G, T) == [group : G, partial : BOOLEAN, tabs : Seq(T)]
WindowType(R, G, T) == [ref : R, focused : BOOLEAN, partial : BOOLEAN, items : Seq(ItemType(G, T))]

LEMMA PlacesAre ==
    ASSUME NEW W
    PROVE  /\ \A w, i : <<w, i>> \in Places(W) <=> w \in DOMAIN W /\ i \in DOMAIN W[w].items
           /\ \A place \in Places(W) : place = <<place[1], place[2]>>
           /\ \A place, k : <<place, k>> \in SpotsIn(W) <=> place \in Places(W) /\ k \in DOMAIN At(W, place).tabs
           /\ \A spot \in SpotsIn(W) : spot = <<spot[1], spot[2]>>
  BY DEF Places, SpotsIn

\* The place to which a tab with this window and this group would be added.
ToLast(W, window) == W # <<>> /\ Last(W).ref = window.ref
ToLastItem(items, group) == group # {} /\ items # <<>> /\ Last(items).group = group

Grown(W, window, group, partial, shown) ==
    LET opened == Opened(W, window)
    IN [opened EXCEPT ![Len(opened)].items = Joined(@, group, partial, shown)]

\* J is items with a tab more, the k-th of the i-th item.
ItemAdded(items, J, group, partial, shown, i, k) ==
    /\ i = Len(J) /\ DOMAIN J = 1..i
    /\ DOMAIN items = IF ToLastItem(items, group) THEN 1..i ELSE 1..i - 1
    /\ \A j \in 1..i - 1 : J[j] = items[j]
    /\ J[i].group = group
    /\ J[i].partial = (IF ToLastItem(items, group) THEN items[i].partial ELSE partial)
    /\ DOMAIN J[i].tabs = 1..k /\ J[i].tabs[k] = shown
    /\ ToLastItem(items, group) =>
           /\ items[i].group = group /\ DOMAIN items[i].tabs = 1..k - 1
           /\ \A j \in 1..k - 1 : J[i].tabs[j] = items[i].tabs[j]
    /\ ~ToLastItem(items, group) => k = 1

LEMMA ItemsGrow ==
    ASSUME NEW G, NEW T, NEW items \in Seq(ItemType(G, T)), NEW group \in G, NEW partial \in BOOLEAN, NEW shown \in T,
           NEW J, J = Joined(items, group, partial, shown)
    PROVE  \E i \in 1..Len(J), k \in Nat \ {0} : ItemAdded(items, J, group, partial, shown, i, k) /\ J \in Seq(ItemType(G, T))
  <1>1. Len(items) \in Nat /\ DOMAIN items = 1..Len(items) /\ \A j \in 1..Len(items) : items[j] \in ItemType(G, T)
    OBVIOUS
  <1>2. CASE ToLastItem(items, group)
    <2> DEFINE i == Len(items)
               old == items[i]
               tabs == Append(old.tabs, shown)
               k == Len(tabs)
    <2>1. i \in 1..i /\ i \in Nat /\ old.group = group
      <3>1. items # <<>> /\ Last(items).group = group
        BY <1>2 DEF ToLastItem
      <3>2. QED BY <1>1, <3>1 DEF Last
    <2>2. old \in ItemType(G, T) /\ old.tabs \in Seq(T)
      BY <1>1, <2>1 DEF ItemType
    <2>3. tabs \in Seq(T) /\ k = Len(old.tabs) + 1 /\ Len(old.tabs) \in Nat /\ DOMAIN tabs = 1..k
      BY <2>2
    <2>4. tabs[k] = shown /\ DOMAIN old.tabs = 1..k - 1 /\ \A j \in 1..k - 1 : tabs[j] = old.tabs[j]
      BY <2>2
    <2>5. k \in Nat \ {0}
      BY <2>3
    <2> HIDE DEF tabs, k
    <2>6. J = [items EXCEPT ![i] = [items[i] EXCEPT !.tabs = tabs]]
      BY <1>2 DEF Joined, ToLastItem, tabs
    <2>7. [old EXCEPT !.tabs = tabs] \in ItemType(G, T) /\ [old EXCEPT !.tabs = tabs].tabs = tabs
          /\ [old EXCEPT !.tabs = tabs].group = group /\ [old EXCEPT !.tabs = tabs].partial = old.partial
      BY <2>1, <2>2, <2>3 DEF ItemType
    <2>8. J \in Seq(ItemType(G, T)) /\ Len(J) = i /\ DOMAIN J = 1..i
      BY <2>1, <2>6, <2>7
    <2>9. \A j \in 1..i - 1 : J[j] = items[j]
      BY <1>1, <2>6
    <2>10. J[i].tabs = tabs /\ J[i].group = group /\ J[i].partial = old.partial
      BY <1>1, <2>1, <2>6, <2>7
    <2>11. QED BY <1>1, <1>2, <2>1, <2>3, <2>4, <2>5, <2>8, <2>9, <2>10 DEF ItemAdded
  <1>3. CASE ~ToLastItem(items, group)
    <2> DEFINE i == Len(items) + 1
               new == [group |-> group, partial |-> partial, tabs |-> <<shown>>]
    <2>1. J = Append(items, new)
      BY <1>3 DEF Joined, ToLastItem
    <2>2. new \in ItemType(G, T)
      BY DEF ItemType
    <2>3. new.group = group /\ new.partial = partial /\ DOMAIN new.tabs = 1..1 /\ new.tabs[1] = shown
      OBVIOUS
    <2> HIDE DEF new
    <2>4. J \in Seq(ItemType(G, T)) /\ Len(J) = i /\ DOMAIN J = 1..i /\ J[i] = new
      BY <1>1, <2>1, <2>2
    <2>5. \A j \in 1..i - 1 : J[j] = items[j]
      BY <1>1, <2>1, <2>2
    <2>6. i \in 1..Len(J) /\ DOMAIN items = 1..i - 1 /\ 1 \in Nat \ {0}
      BY <1>1, <2>4
    <2>7. QED BY <1>3, <2>3, <2>4, <2>5, <2>6 DEF ItemAdded
  <1>4. QED BY <1>2, <1>3

LEMMA WindowsGrow ==
    ASSUME NEW R, NEW G, NEW T, NEW W \in Seq(WindowType(R, G, T)),
           NEW window \in WindowType(R, G, T), window.items = <<>>,
           NEW group \in G, NEW partial \in BOOLEAN, NEW shown \in T,
           NEW V, V = Grown(W, window, group, partial, shown)
    PROVE  \E w \in 1..Len(V), old \in Seq(ItemType(G, T)) :
             /\ V \in Seq(WindowType(R, G, T)) /\ w = Len(V) /\ DOMAIN V = 1..w
             /\ DOMAIN W = IF ToLast(W, window) THEN 1..w ELSE 1..w - 1
             /\ \A v \in 1..w - 1 : V[v] = W[v]
             /\ V[w].items = Joined(old, group, partial, shown)
             /\ V[w].ref = window.ref
             /\ ToLast(W, window) => /\ V[w].partial = W[w].partial /\ W[w].ref = window.ref
                                     /\ old = W[w].items /\ Last(W) = W[w]
             /\ ~ToLast(W, window) => V[w].partial = window.partial /\ old = <<>>
  <1> DEFINE Win == WindowType(R, G, T)
             opened == Opened(W, window)
  <1>1. Len(W) \in Nat /\ DOMAIN W = 1..Len(W) /\ \A v \in 1..Len(W) : W[v] \in Win
    OBVIOUS
  <1>2. \A x \in Win : x.items \in Seq(ItemType(G, T))
    BY DEF WindowType
  <1>3. ASSUME NEW old \in Seq(ItemType(G, T)) PROVE Joined(old, group, partial, shown) \in Seq(ItemType(G, T))
    BY ItemsGrow
  <1>4. ASSUME NEW x \in Win, NEW items \in Seq(ItemType(G, T))
        PROVE  /\ [x EXCEPT !.items = items] \in Win /\ [x EXCEPT !.items = items].items = items
               /\ [x EXCEPT !.items = items].ref = x.ref /\ [x EXCEPT !.items = items].partial = x.partial
    BY DEF WindowType
  <1>5. V = [opened EXCEPT ![Len(opened)].items = Joined(opened[Len(opened)].items, group, partial, shown)]
    BY DEF Grown
  <1>6. CASE ToLast(W, window)
    <2> DEFINE w == Len(W)
               items == Joined(W[w].items, group, partial, shown)
    <2>1. W # <<>> /\ Last(W).ref = window.ref /\ opened = W
      BY <1>6 DEF ToLast, Opened
    <2>2. w \in 1..w /\ w \in Nat /\ Last(W) = W[w] /\ W[w] \in Win /\ W[w].items \in Seq(ItemType(G, T))
      BY <1>1, <1>2, <2>1 DEF Last
    <2>3. items \in Seq(ItemType(G, T))
      BY <1>3, <2>2
    <2>4. V = [W EXCEPT ![w] = [W[w] EXCEPT !.items = items]]
      BY <1>5, <2>1
    <2> HIDE DEF items
    <2> DEFINE new == [W[w] EXCEPT !.items = items]
    <2>5. new \in Win /\ new.items = items /\ new.ref = W[w].ref /\ new.partial = W[w].partial
      BY <1>4, <2>2, <2>3
    <2>6. V = [W EXCEPT ![w] = new]
      BY <2>4
    <2> HIDE DEF new, Win
    <2>7. V \in Seq(Win) /\ Len(V) = w /\ DOMAIN V = 1..w /\ V[w] = new /\ \A v \in 1..w - 1 : V[v] = W[v]
      BY <1>1, <2>2, <2>5, <2>6
    <2>8. V[w].items = Joined(W[w].items, group, partial, shown)
      BY <2>5, <2>7 DEF items
    <2>9. QED BY <1>1, <1>6, <2>1, <2>2, <2>5, <2>7, <2>8 DEF Win
  <1>7. CASE ~ToLast(W, window)
    <2> DEFINE w == Len(W) + 1
               items == Joined(<<>>, group, partial, shown)
               new == [window EXCEPT !.items = items]
    <2>1. opened = Append(W, window)
      BY <1>7 DEF ToLast, Opened
    <2>2. items \in Seq(ItemType(G, T)) /\ <<>> \in Seq(ItemType(G, T))
      <3> DEFINE none == <<>>
      <3>1. none \in Seq(ItemType(G, T))
        OBVIOUS
      <3> HIDE DEF none
      <3>2. Joined(none, group, partial, shown) \in Seq(ItemType(G, T))
        BY <1>3, <3>1
      <3>3. QED BY <3>1, <3>2 DEF none
    <2>3. opened \in Seq(Win) /\ Len(opened) = w /\ opened[w] = window /\ \A v \in 1..w - 1 : opened[v] = W[v]
      BY <1>1, <2>1
    <2>4. V = [opened EXCEPT ![w] = [opened[w] EXCEPT !.items = items]]
      BY <1>5, <2>3
    <2> HIDE DEF items, opened
    <2>5. new \in Win /\ new.items = items /\ new.ref = window.ref /\ new.partial = window.partial
      BY <1>4, <2>2
    <2>6. V = [opened EXCEPT ![w] = new]
      BY <2>3, <2>4
    <2> HIDE DEF new, Win
    <2>7. w \in Nat /\ w \in 1..w
      BY <1>1
    <2>8. V \in Seq(Win) /\ Len(V) = w /\ DOMAIN V = 1..w /\ V[w] = new /\ \A v \in 1..w - 1 : V[v] = W[v]
      BY <1>1, <2>3, <2>5, <2>6
    <2>9. V[w].items = Joined(<<>>, group, partial, shown)
      BY <2>5, <2>8 DEF items
    <2>10. DOMAIN W = 1..w - 1
      BY <1>1
    <2>11. QED BY <1>7, <2>2, <2>5, <2>7, <2>8, <2>9, <2>10 DEF Win
  <1>8. QED BY <1>6, <1>7

\* V has the windows, items and tabs of W and one tab more, in its own window and group.
AddsAt(W, V, window, group, partial, shown, w, i, k) ==
    /\ w = Len(V) /\ i = Len(V[w].items)
    /\ DOMAIN V = DOMAIN W \cup {w}
    /\ \A v \in DOMAIN W : V[v].ref = W[v].ref /\ V[v].partial = W[v].partial
    /\ V[w].ref = window.ref
    /\ w \notin DOMAIN W => V[w].partial = window.partial /\ ~ToLast(W, window)
    /\ Places(V) = Places(W) \cup {<<w, i>>}
    /\ \A place \in Places(W) :
           At(V, place).group = At(W, place).group /\ At(V, place).partial = At(W, place).partial
    /\ At(V, <<w, i>>).group = group
    /\ <<w, i>> \notin Places(W) =>
           /\ At(V, <<w, i>>).partial = partial
           /\ ~ToLast(W, window) \/ ~ToLastItem(Last(W).items, group)
    /\ SpotsIn(V) = SpotsIn(W) \cup {<<<<w, i>>, k>>} /\ <<<<w, i>>, k>> \notin SpotsIn(W)
    /\ \A spot \in SpotsIn(W) : RefAt(V, spot) = RefAt(W, spot)
    /\ RefAt(V, <<<<w, i>>, k>>) = shown.ref
    /\ \A spot \in SpotsIn(V) : ~Precedes(<<<<w, i>>, k>>, spot)

Adds(W, V, window, group, partial, shown) ==
    \E w \in 1..Len(V), i \in Nat \ {0}, k \in Nat \ {0} : AddsAt(W, V, window, group, partial, shown, w, i, k)

LEMMA TreeGrows ==
    ASSUME NEW R, NEW G, NEW T, NEW W \in Seq(WindowType(R, G, T)),
           NEW window \in WindowType(R, G, T), window.items = <<>>,
           NEW group \in G, NEW partial \in BOOLEAN, NEW shown \in T,
           NEW V, V = Grown(W, window, group, partial, shown)
    PROVE  V \in Seq(WindowType(R, G, T)) /\ Adds(W, V, window, group, partial, shown)
  <1>1. PICK w \in 1..Len(V), old \in Seq(ItemType(G, T)) :
             /\ V \in Seq(WindowType(R, G, T)) /\ w = Len(V) /\ DOMAIN V = 1..w
             /\ DOMAIN W = IF ToLast(W, window) THEN 1..w ELSE 1..w - 1
             /\ \A v \in 1..w - 1 : V[v] = W[v]
             /\ V[w].items = Joined(old, group, partial, shown)
             /\ V[w].ref = window.ref
             /\ ToLast(W, window) => /\ V[w].partial = W[w].partial /\ W[w].ref = window.ref
                                     /\ old = W[w].items /\ Last(W) = W[w]
             /\ ~ToLast(W, window) => V[w].partial = window.partial /\ old = <<>>
    BY WindowsGrow
  <1> DEFINE J == V[w].items
             joins == ToLastItem(old, group)
  <1>0. PICK i \in 1..Len(J), k \in Nat \ {0} : ItemAdded(old, J, group, partial, shown, i, k) /\ J \in Seq(ItemType(G, T))
    BY <1>1, ItemsGrow
  <1>2.      /\ J \in Seq(ItemType(G, T)) /\ i = Len(J) /\ DOMAIN J = 1..i
             /\ DOMAIN old = IF joins THEN 1..i ELSE 1..i - 1
             /\ \A j \in 1..i - 1 : J[j] = old[j]
             /\ J[i].group = group
             /\ J[i].partial = (IF joins THEN old[i].partial ELSE partial)
             /\ DOMAIN J[i].tabs = 1..k /\ J[i].tabs[k] = shown
             /\ joins =>
                    /\ old[i].group = group /\ DOMAIN old[i].tabs = 1..k - 1
                    /\ \A j \in 1..k - 1 : J[i].tabs[j] = old[i].tabs[j]
             /\ ~joins => k = 1
    BY <1>0 DEF ItemAdded
  <1>3. w \in Nat \ {0} /\ i \in Nat \ {0}
    <2>1. Len(V) \in Nat /\ Len(J) \in Nat
      BY <1>1, <1>2
    <2>2. QED BY <2>1
  <1>4. joins => ToLast(W, window)
    BY <1>1 DEF ToLastItem
  <1> DEFINE place == <<w, i>>
             new == <<place, k>>
  <1>5. /\ DOMAIN V = DOMAIN W \cup {w}
        /\ \A v \in DOMAIN W : V[v].ref = W[v].ref /\ V[v].partial = W[v].partial
        /\ w \notin DOMAIN W => V[w].partial = window.partial /\ ~ToLast(W, window)
    <2>1. CASE ToLast(W, window)
      <3>1. DOMAIN W = 1..w
        BY <1>1, <2>1
      <3>2. ASSUME NEW v \in 1..w PROVE V[v].ref = W[v].ref /\ V[v].partial = W[v].partial
        <4>1. v = w \/ v \in 1..w - 1
          BY <1>3
        <4>2. QED BY <1>1, <2>1, <4>1
      <3>3. QED BY <1>1, <1>3, <3>1, <3>2
    <2>2. CASE ~ToLast(W, window)
      <3>1. DOMAIN W = 1..w - 1
        BY <1>1, <2>2
      <3>2. QED BY <1>1, <1>3, <2>2, <3>1
    <2>3. QED BY <2>1, <2>2
  <1>6. ASSUME NEW v, NEW j
        PROVE  <<v, j>> \in Places(V) <=> (<<v, j>> \in Places(W) \/ <<v, j>> = place)
    <2>1. <<v, j>> \in Places(V) <=> v \in 1..w /\ j \in DOMAIN V[v].items
      BY <1>1, PlacesAre
    <2>2. <<v, j>> \in Places(W) <=> v \in DOMAIN W /\ j \in DOMAIN W[v].items
      BY PlacesAre
    <2>3. CASE v \in 1..w - 1
      <3>1. v \in DOMAIN W /\ V[v] = W[v] /\ v # w /\ v \in 1..w
        BY <1>1, <1>3, <2>3
      <3>2. QED BY <2>1, <2>2, <3>1
    <2>4. CASE v = w
      <3>1. <<v, j>> \in Places(V) <=> j \in 1..i
        BY <1>2, <1>3, <2>1, <2>4
      <3>2. <<v, j>> \in Places(W) <=> j \in DOMAIN old
        <4>1. CASE ToLast(W, window)
          BY <1>1, <1>3, <2>2, <2>4, <4>1
        <4>2. CASE ~ToLast(W, window)
          <5>1. w \notin DOMAIN W /\ DOMAIN old = {}
            BY <1>1, <1>3, <4>2
          <5>2. QED BY <2>2, <2>4, <5>1
        <4>3. QED BY <4>1, <4>2
      <3>3. 1..i = (1..i - 1) \cup {i}
        BY <1>3
      <3>4. QED BY <1>2, <2>4, <3>1, <3>2, <3>3
    <2>5. CASE v \notin 1..w
      <3>1. v \notin DOMAIN W
        BY <1>1, <1>3, <2>5
      <3>2. QED BY <1>3, <2>1, <2>2, <2>5, <3>1
    <2>6. v \in 1..w - 1 \/ v = w \/ v \notin 1..w
      BY <1>3
    <2>7. QED BY <2>3, <2>4, <2>5, <2>6
  <1>7. Places(V) = Places(W) \cup {place}
    <2>1. \A x \in Places(V) \cup Places(W) \cup {place} : \E v, j : x = <<v, j>>
      BY PlacesAre
    <2>2. QED BY <1>6, <2>1
  <1>8. ASSUME NEW x \in Places(W), x # place PROVE At(V, x) = At(W, x)
    <2>1. PICK v, j : x = <<v, j>>
      BY PlacesAre
    <2>2. v \in DOMAIN W /\ j \in DOMAIN W[v].items
      BY <2>1, PlacesAre
    <2>3. CASE v \in 1..w - 1
      BY <1>1, <2>1, <2>3 DEF At
    <2>4. CASE v = w
      <3>1. ToLast(W, window)
        BY <1>1, <1>3, <2>2, <2>4
      <3>2. W[v].items = old
        BY <1>1, <2>4, <3>1
      <3>3. j \in 1..i /\ j # i
        BY <1>2, <1>3, <1>8, <2>1, <2>2, <2>4, <3>2
      <3>4. j \in 1..i - 1
        BY <1>3, <3>3
      <3>5. V[v].items[j] = W[v].items[j]
        BY <1>2, <2>4, <3>2, <3>4
      <3>6. QED BY <2>1, <3>5 DEF At
    <2>5. QED BY <1>1, <1>3, <2>2, <2>3, <2>4
  <1>9. At(V, place) = J[i]
    BY DEF At
  <1>10. place \in Places(W) <=> joins
    <2>1. CASE joins
      <3>1. w \in DOMAIN W /\ i \in DOMAIN W[w].items
        BY <1>1, <1>2, <1>3, <1>4, <2>1
      <3>2. QED BY <2>1, <3>1, PlacesAre
    <2>2. CASE ~joins /\ ToLast(W, window)
      <3>1. W[w].items = old /\ i \notin DOMAIN old
        BY <1>1, <1>2, <1>3, <2>2
      <3>2. QED BY <2>2, <3>1, PlacesAre
    <2>3. CASE ~ToLast(W, window)
      <3>1. w \notin DOMAIN W
        BY <1>1, <1>3, <2>3
      <3>2. QED BY <1>4, <2>3, <3>1, PlacesAre
    <2>4. QED BY <2>1, <2>2, <2>3
  <1>11. joins => At(W, place) = old[i]
    BY <1>1, <1>4 DEF At
  <1>12. \A x \in Places(W) : At(V, x).group = At(W, x).group /\ At(V, x).partial = At(W, x).partial
    BY <1>2, <1>8, <1>9, <1>10, <1>11
  <1>13. place \notin Places(W) =>
             /\ At(V, place).partial = partial
             /\ ~ToLast(W, window) \/ ~ToLastItem(Last(W).items, group)
    BY <1>1, <1>2, <1>9, <1>10
  <1>14. ASSUME NEW x, NEW n
         PROVE  /\ <<x, n>> \in SpotsIn(V) <=> (<<x, n>> \in SpotsIn(W) \/ <<x, n>> = new)
                /\ <<x, n>> \in SpotsIn(W) => RefAt(V, <<x, n>>) = RefAt(W, <<x, n>>) /\ <<x, n>> # new
    <2>1. /\ <<x, n>> \in SpotsIn(V) <=> x \in Places(V) /\ n \in DOMAIN At(V, x).tabs
          /\ <<x, n>> \in SpotsIn(W) <=> x \in Places(W) /\ n \in DOMAIN At(W, x).tabs
      BY PlacesAre
    <2>2. CASE x # place
      <3>1. x \in Places(V) <=> x \in Places(W)
        BY <1>7, <2>2
      <3>2. x \in Places(W) => At(V, x) = At(W, x)
        BY <1>8, <2>2
      <3>3. QED BY <2>1, <2>2, <3>1, <3>2 DEF RefAt
    <2>3. CASE x = place
      <3>1. <<x, n>> \in SpotsIn(V) <=> n \in 1..k
        BY <1>2, <1>7, <1>9, <2>1, <2>3
      <3>2. <<x, n>> = new <=> n = k
        BY <2>3
      <3>3. CASE joins
        <4>1. <<x, n>> \in SpotsIn(W) <=> n \in 1..k - 1
          BY <1>2, <1>10, <1>11, <2>1, <2>3, <3>3
        <4>2. n \in 1..k - 1 => At(V, x).tabs[n] = At(W, x).tabs[n]
          BY <1>2, <1>9, <1>11, <2>3, <3>3
        <4>3. n \in 1..k <=> n \in 1..k - 1 \/ n = k
          OBVIOUS
        <4>4. n \in 1..k - 1 => n # k
          OBVIOUS
        <4>5. n \in 1..k - 1 => RefAt(V, <<x, n>>) = RefAt(W, <<x, n>>)
          BY <4>2 DEF RefAt
        <4> HIDE DEF place, new
        <4>6. QED BY <3>1, <3>2, <4>1, <4>3, <4>4, <4>5
      <3>4. CASE ~joins
        <4>1. <<x, n>> \notin SpotsIn(W) /\ (n \in 1..k <=> n = k)
          BY <1>2, <1>10, <2>1, <2>3, <3>4
        <4> HIDE DEF place, new
        <4>2. QED BY <3>1, <3>2, <4>1
      <3>5. QED BY <3>3, <3>4
    <2>4. QED BY <2>2, <2>3
  <1>15. \A x \in SpotsIn(V) \cup SpotsIn(W) \cup {new} : \E y, n : x = <<y, n>>
    BY PlacesAre
  <1>16. SpotsIn(V) = SpotsIn(W) \cup {new} /\ new \notin SpotsIn(W)
    BY <1>14, <1>15
  <1>17. \A spot \in SpotsIn(W) : RefAt(V, spot) = RefAt(W, spot)
    BY <1>14, <1>15
  <1>18. RefAt(V, new) = shown.ref
    BY <1>2, <1>9 DEF RefAt
  <1>19. At(V, place).group = group
    BY <1>2, <1>9
  <1>20. V[w].ref = window.ref /\ w = Len(V) /\ i = Len(V[w].items) /\ V \in Seq(WindowType(R, G, T))
    BY <1>1, <1>2
  <1>21. ASSUME NEW spot \in SpotsIn(V) PROVE ~Precedes(new, spot)
    <2>1. spot = <<spot[1], spot[2]>>
      BY PlacesAre
    <2>2. spot[1] \in Places(V) /\ spot[2] \in DOMAIN At(V, spot[1]).tabs
      BY <2>1, PlacesAre
    <2>3. PICK v, j : spot[1] = <<v, j>>
      BY <2>2, PlacesAre
    <2>4. v \in 1..w /\ j \in DOMAIN V[v].items
      BY <1>1, <2>2, <2>3, PlacesAre
    <2>5. v = w => j \in 1..i
      BY <1>2, <2>4
    <2>6. v = w /\ j = i => spot[2] \in 1..k
      BY <1>2, <1>9, <2>2, <2>3
    <2>7. spot[1][1] = v /\ spot[1][2] = j
      BY <2>3
    <2>8. ~(w < v) /\ ~(w = v /\ i < j) /\ ~(w = v /\ i = j /\ k < spot[2])
      BY <1>3, <2>4, <2>5, <2>6
    <2>9. place = spot[1] => w = v /\ i = j
      BY <2>3
    <2>10. new[1] = place /\ new[2] = k /\ place[1] = w /\ place[2] = i
      OBVIOUS
    <2> HIDE DEF place, new
    <2>11. QED BY <2>7, <2>8, <2>9, <2>10 DEF Precedes
  <1> HIDE DEF J
  <1>22. AddsAt(W, V, window, group, partial, shown, w, i, k)
    BY <1>3, <1>5, <1>7, <1>12, <1>13, <1>16, <1>17, <1>18, <1>19, <1>20, <1>21 DEF AddsAt
  <1>23. QED BY <1>3, <1>20, <1>22 DEF Adds

-----------------------------------------------------------------------------
(* References *)

Refs(b) == [windows |-> Issue("win", b.windows), groups |-> Issue("grp", b.groups), tabs |-> Issue("tab", b.tabs)]

WRef(S, tab) == S.references.windows[tab.window]
GRef(S, tab) == {S.references.groups[key] : key \in tab.group}
TRef(S, tab) == S.references.tabs[tab.key]

\* A snapshot of an accepted baseline, under the references that it issues.
Proper(S) == AcceptedBaseline(S.baseline) /\ S.references = Refs(S.baseline)

LEMMA Issued ==
    ASSUME NEW objects, NEW prefix, NEW key, key \in Range(Keys(objects))
    PROVE  Issue(prefix, objects)[key] = [prefix |-> prefix, of |-> key]
  BY DEF Issue

LEMMA RefsApart ==
    ASSUME NEW S, Proper(S), NEW x \in Range(S.baseline.tabs), NEW y \in Range(S.baseline.tabs)
    PROVE  /\ WRef(S, x) = WRef(S, y) <=> x.window = y.window
           /\ GRef(S, x) = GRef(S, y) <=> x.group = y.group
           /\ GRef(S, x) = {} <=> x.group = {}
           /\ TRef(S, x) = TRef(S, y) <=> x = y
  <1> DEFINE b == S.baseline
             Win(key) == [prefix |-> "win", of |-> key]
             Grp(key) == [prefix |-> "grp", of |-> key]
             Tab(key) == [prefix |-> "tab", of |-> key]
  <1>1. AcceptedBaseline(b) /\ S.references.windows = Issue("win", b.windows)
        /\ S.references.groups = Issue("grp", b.groups) /\ S.references.tabs = Issue("tab", b.tabs)
    BY DEF Proper, Refs
  <1>2. ASSUME NEW tab \in Range(b.tabs)
        PROVE  WRef(S, tab) = Win(tab.window) /\ GRef(S, tab) = {Grp(key) : key \in tab.group}
               /\ TRef(S, tab) = Tab(tab.key)
    <2>1. tab.window \in Range(Keys(b.windows)) /\ \A key \in tab.group : key \in Range(Keys(b.groups))
      BY <1>1, WindowsOfTabs
    <2>2. tab.key \in Range(Keys(b.tabs))
      <3>1. PICK i \in DOMAIN b.tabs : b.tabs[i] = tab
        BY DEF Range
      <3>2. QED BY <3>1 DEF Range, Keys
    <2>3. WRef(S, tab) = Win(tab.window) /\ TRef(S, tab) = Tab(tab.key)
      BY <1>1, <2>1, <2>2, Issued DEF WRef, TRef
    <2>4. \A key \in tab.group : S.references.groups[key] = Grp(key)
      BY <1>1, <2>1, Issued
    <2> HIDE DEF Grp
    <2>5. GRef(S, tab) = {Grp(key) : key \in tab.group}
      BY <2>4 DEF GRef
    <2>6. QED BY <2>3, <2>5
  <1>3. \A k, l : (Win(k) = Win(l) => k = l) /\ (Grp(k) = Grp(l) => k = l) /\ (Tab(k) = Tab(l) => k = l)
    <2>1. \A k : Win(k).of = k /\ Grp(k).of = k /\ Tab(k).of = k
      OBVIOUS
    <2>2. QED BY <2>1
  <1>4. x.key = y.key => x = y
    BY <1>1, KeysName DEF AcceptedBaseline
  <1> HIDE DEF Win, Grp, Tab
  <1>5. ASSUME GRef(S, x) = GRef(S, y) PROVE x.group = y.group
    <2>1. \A key : key \in x.group <=> Grp(key) \in GRef(S, x)
      BY <1>2, <1>3
    <2>2. \A key : key \in y.group <=> Grp(key) \in GRef(S, y)
      BY <1>2, <1>3
    <2>3. QED BY <1>5, <2>1, <2>2
  <1>6. GRef(S, x) = {} <=> x.group = {}
    BY <1>2
  <1>7. x.group = y.group => GRef(S, x) = GRef(S, y)
    BY DEF GRef
  <1>8. QED BY <1>2, <1>3, <1>4, <1>5, <1>6, <1>7

-----------------------------------------------------------------------------
(* Pages *)

\* The tabs of a page, in the order of the matches.
Row(S, page, t) ==
    /\ Len(page) \in Nat
    /\ t \in [1..Len(page) -> Range(S.baseline.tabs)]
    /\ \A n \in 1..Len(page) : TabOf(S.baseline, page[n]) = t[n]
    /\ \A i, j \in 1..Len(page) : i < j => Before(S.baseline, t[i], t[j])

LEMMA RowApart ==
    ASSUME NEW S, Proper(S), NEW page, NEW t, Row(S, page, t)
    PROVE  \A i, j \in 1..Len(page) : t[i] = t[j] => i = j
  <1>1. SUFFICES ASSUME NEW i \in 1..Len(page), NEW j \in 1..Len(page), t[i] = t[j], i < j PROVE FALSE
    <2>1. Len(page) \in Nat
      BY DEF Row
    <2>2. QED BY <2>1
  <1>2. t[i] \in Range(S.baseline.tabs) /\ Before(S.baseline, t[i], t[i])
    BY <1>1 DEF Row
  <1>3. AcceptedBaseline(S.baseline)
    BY DEF Proper
  <1> DEFINE l == WindowOf(S.baseline, t[i].window)
  <1>4. /\ l.id \in Int /\ t[i].index \in Int
        /\ Before(S.baseline, t[i], t[i]) <=>
               \/ l.focused /\ ~l.focused
               \/ l.focused = l.focused /\ l.id < l.id
               \/ l.focused = l.focused /\ l.id = l.id /\ t[i].index < t[i].index
    BY <1>2, <1>3, BeforeIs
  <1> HIDE DEF l
  <1>5. QED BY <1>2, <1>4

\* If the window or the group of a tab has come before, it came last.
LEMMA CameLast ==
    ASSUME NEW S, Proper(S), NEW page, NEW t, Row(S, page, t), NEW n \in 2..Len(page), NEW m \in 1..n - 1
    PROVE  /\ t[m].window = t[n].window => t[n - 1].window = t[n].window
           /\ t[n].group # {} /\ t[m].group = t[n].group =>
                  t[n - 1].group = t[n].group /\ t[n - 1].window = t[n].window
  <1>1. Len(page) \in Nat /\ n - 1 \in 1..Len(page) /\ m \in 1..Len(page) /\ n \in 1..Len(page)
    BY DEF Row
  <1>2. /\ t[m] \in Range(S.baseline.tabs) /\ t[n] \in Range(S.baseline.tabs)
        /\ t[n - 1] \in Range(S.baseline.tabs) /\ AcceptedBaseline(S.baseline)
    BY <1>1 DEF Row, Proper
  <1>3. CASE m = n - 1
    BY <1>2, <1>3, WindowsOfTabs
  <1>4. CASE m # n - 1
    <2>1. m < n - 1 /\ n - 1 < n
      BY <1>1, <1>4
    <2>2. Before(S.baseline, t[m], t[n - 1]) /\ Before(S.baseline, t[n - 1], t[n])
      BY <1>1, <2>1 DEF Row
    <2>3. /\ t[m].window = t[n].window => t[n - 1].window = t[m].window
          /\ t[m].group # {} /\ t[m].group = t[n].group => t[n - 1].group = t[m].group
      BY <1>2, <2>2, KeptTogether
    <2>4. t[n].group # {} /\ t[m].group = t[n].group => t[m].window = t[n].window
      BY <1>2, WindowsOfTabs
    <2>5. QED BY <2>3, <2>4
  <1>5. QED BY <1>3, <1>4

Shapes(S) ==
    Seq(WindowType({S.references.windows[key] : key \in Range(Keys(S.baseline.windows))},
                   {GRef(S, tab) : tab \in Range(S.baseline.tabs)},
                   {ProjectTab(tab, S.detail, S.references) : tab \in Range(S.baseline.tabs)}))

\* W shows the first n tabs of a row, each once, in its own window and group.
WindowsKnown(S, page, t, W, n) ==
    \A w \in DOMAIN W : \E m \in 1..n :
        W[w].ref = WRef(S, t[m]) /\ W[w].partial = LacksSome(S, page, "window", t[m].window)
ItemsKnown(S, page, t, W, n) ==
    \A place \in Places(W) : \E m \in 1..n :
        /\ At(W, place).group = GRef(S, t[m])
        /\ At(W, place).partial = (GRef(S, t[m]) # {} /\ LacksSome(S, page, "group", t[m].group))
TabsKnown(S, page, t, W, n) ==
    \A spot \in SpotsIn(W) : \E m \in 1..n :
        /\ RefAt(W, spot) = TRef(S, t[m])
        /\ At(W, spot[1]).group = GRef(S, t[m])
        /\ W[spot[1][1]].ref = WRef(S, t[m])
AllShown(S, page, t, W, n) == \A m \in 1..n : \E spot \in SpotsIn(W) : RefAt(W, spot) = TRef(S, t[m])
InTurn(S, t, W, n) ==
    \A spot, other \in SpotsIn(W) : Precedes(spot, other) =>
        \E m, o \in 1..n : m < o /\ RefAt(W, spot) = TRef(S, t[m]) /\ RefAt(W, other) = TRef(S, t[o])
OncePerPage(W) ==
    /\ \A v, w \in DOMAIN W : W[v].ref = W[w].ref => v = w
    /\ \A place, other \in Places(W) :
           At(W, place).group # {} /\ At(W, other).group = At(W, place).group => place = other
    /\ \A spot, other \in SpotsIn(W) : RefAt(W, spot) = RefAt(W, other) => spot = other
LastShown(S, t, W, n) ==
    /\ W # <<>> /\ Last(W).ref = WRef(S, t[n])
    /\ Last(W).items # <<>> /\ Last(Last(W).items).group = GRef(S, t[n])

Shows(S, page, t, W, n) ==
    /\ W \in Shapes(S)
    /\ WindowsKnown(S, page, t, W, n)
    /\ ItemsKnown(S, page, t, W, n)
    /\ TabsKnown(S, page, t, W, n)
    /\ AllShown(S, page, t, W, n)
    /\ InTurn(S, t, W, n)
    /\ OncePerPage(W)
    /\ n > 0 => LastShown(S, t, W, n)

LEMMA AddTabGrows ==
    ASSUME NEW S, Proper(S), NEW page, NEW W \in Shapes(S), NEW tab \in Range(S.baseline.tabs),
           NEW V, V = AddTab(S, page, W, tab)
    PROVE  /\ V \in Shapes(S)
           /\ Adds(W, V, OpenWindow(S, page, tab.window), GRef(S, tab),
                   GRef(S, tab) # {} /\ LacksSome(S, page, "group", tab.group),
                   ProjectTab(tab, S.detail, S.references))
           /\ OpenWindow(S, page, tab.window).ref = WRef(S, tab)
           /\ OpenWindow(S, page, tab.window).partial = LacksSome(S, page, "window", tab.window)
           /\ ProjectTab(tab, S.detail, S.references).ref = TRef(S, tab)
  <1> DEFINE R == {S.references.windows[key] : key \in Range(Keys(S.baseline.windows))}
             G == {GRef(S, x) : x \in Range(S.baseline.tabs)}
             T == {ProjectTab(x, S.detail, S.references) : x \in Range(S.baseline.tabs)}
             window == OpenWindow(S, page, tab.window)
             group == GRef(S, tab)
             partial == group # {} /\ LacksSome(S, page, "group", tab.group)
             shown == ProjectTab(tab, S.detail, S.references)
  <1>1. V = Grown(W, window, group, partial, shown)
    BY DEF AddTab, Grown, GRef
  <1>2. group \in G /\ shown \in T
    OBVIOUS
  <1>3. partial \in BOOLEAN
    OBVIOUS
  <1>4. /\ window.items = <<>> /\ window.ref = WRef(S, tab)
        /\ window.partial = LacksSome(S, page, "window", tab.window) /\ shown.ref = TRef(S, tab)
    BY DEF OpenWindow, ProjectTab, WRef, TRef
  <1>5. window \in WindowType(R, G, T)
    <2>1. /\ WindowOf(S.baseline, tab.window) \in Range(S.baseline.windows)
          /\ tab.window \in Range(Keys(S.baseline.windows)) /\ WellTyped(S.baseline)
      BY WindowsOfTabs DEF Proper, AcceptedBaseline
    <2>2. WindowOf(S.baseline, tab.window).focused \in BOOLEAN /\ S.references.windows[tab.window] \in R
      BY <2>1, BaselineTypes
    <2>3. LacksSome(S, page, "window", tab.window) \in BOOLEAN
      BY DEF LacksSome
    <2>4. <<>> \in Seq(ItemType(G, T))
      OBVIOUS
    <2> HIDE DEF R, G, T
    <2>5. QED BY <2>2, <2>3, <2>4 DEF OpenWindow, WindowType
  <1> HIDE DEF window, group, partial, shown, R, G, T
  <1>6. W \in Seq(WindowType(R, G, T))
    BY DEF Shapes, R, G, T
  <1>7. V \in Seq(WindowType(R, G, T)) /\ Adds(W, V, window, group, partial, shown)
    BY <1>1, <1>2, <1>3, <1>4, <1>5, <1>6, TreeGrows
  <1>8. V \in Shapes(S)
    BY <1>7 DEF Shapes, R, G, T
  <1>9. QED BY <1>4, <1>7, <1>8 DEF window, group, partial, shown

LEMMA ShowsNext ==
    ASSUME NEW S, Proper(S), NEW page, NEW t, Row(S, page, t), NEW n \in 1..Len(page),
           NEW W, Shows(S, page, t, W, n - 1), NEW V, V = AddTab(S, page, W, t[n])
    PROVE  Shows(S, page, t, V, n)
  <1> DEFINE tab == t[n]
             window == OpenWindow(S, page, tab.window)
             group == GRef(S, tab)
             partial == group # {} /\ LacksSome(S, page, "group", tab.group)
             shown == ProjectTab(tab, S.detail, S.references)
  <1>1. tab \in Range(S.baseline.tabs) /\ Len(page) \in Nat
    BY DEF Row
  <1>2. W \in Shapes(S)
    BY DEF Shows
  <1>3. /\ V \in Shapes(S) /\ Adds(W, V, window, group, partial, shown)
        /\ window.ref = WRef(S, tab) /\ window.partial = LacksSome(S, page, "window", tab.window)
        /\ shown.ref = TRef(S, tab)
    BY <1>1, <1>2, AddTabGrows
  <1> HIDE DEF window, shown, partial
  <1>4. PICK w \in 1..Len(V), i \in Nat \ {0}, k \in Nat \ {0} : AddsAt(W, V, window, group, partial, shown, w, i, k)
    BY <1>3 DEF Adds
  <1> DEFINE place == <<w, i>>
             new == <<place, k>>
  <1>5. /\ w = Len(V) /\ i = Len(V[w].items)
        /\ DOMAIN V = DOMAIN W \cup {w}
        /\ \A v \in DOMAIN W : V[v].ref = W[v].ref /\ V[v].partial = W[v].partial
        /\ V[w].ref = WRef(S, tab)
        /\ w \notin DOMAIN W => V[w].partial = LacksSome(S, page, "window", tab.window) /\ ~ToLast(W, window)
    BY <1>3, <1>4 DEF AddsAt
  <1>6. /\ Places(V) = Places(W) \cup {place}
        /\ \A x \in Places(W) : At(V, x).group = At(W, x).group /\ At(V, x).partial = At(W, x).partial
        /\ At(V, place).group = group
        /\ place \notin Places(W) =>
               /\ At(V, place).partial = partial
               /\ ~ToLast(W, window) \/ ~ToLastItem(Last(W).items, group)
    BY <1>4 DEF AddsAt
  <1>7. /\ SpotsIn(V) = SpotsIn(W) \cup {new} /\ new \notin SpotsIn(W)
        /\ \A spot \in SpotsIn(W) : RefAt(V, spot) = RefAt(W, spot)
        /\ RefAt(V, new) = TRef(S, tab)
        /\ \A spot \in SpotsIn(V) : ~Precedes(new, spot)
    BY <1>3, <1>4 DEF AddsAt
  <1>8. \A m \in 1..n - 1 : m \in 1..n
    OBVIOUS
  <1>9. n \in 1..n
    OBVIOUS
  <1>10. WindowsKnown(S, page, t, V, n)
    <2>1. ASSUME NEW v \in DOMAIN V
          PROVE  \E m \in 1..n : V[v].ref = WRef(S, t[m]) /\ V[v].partial = LacksSome(S, page, "window", t[m].window)
      <3>1. CASE v \in DOMAIN W
        <4>1. PICK m \in 1..n - 1 : W[v].ref = WRef(S, t[m]) /\ W[v].partial = LacksSome(S, page, "window", t[m].window)
          BY <3>1 DEF Shows, WindowsKnown
        <4>2. QED BY <1>5, <1>8, <3>1, <4>1
      <3>2. CASE v \notin DOMAIN W
        BY <1>5, <1>9, <3>2
      <3>3. QED BY <3>1, <3>2
    <2>2. QED BY <2>1 DEF WindowsKnown
  <1>11. ItemsKnown(S, page, t, V, n)
    <2>1. ASSUME NEW x \in Places(V)
          PROVE  \E m \in 1..n :
                     /\ At(V, x).group = GRef(S, t[m])
                     /\ At(V, x).partial = (GRef(S, t[m]) # {} /\ LacksSome(S, page, "group", t[m].group))
      <3>1. CASE x \in Places(W)
        <4>1. PICK m \in 1..n - 1 : /\ At(W, x).group = GRef(S, t[m])
                                    /\ At(W, x).partial = (GRef(S, t[m]) # {} /\ LacksSome(S, page, "group", t[m].group))
          BY <3>1 DEF Shows, ItemsKnown
        <4>2. QED BY <1>6, <1>8, <3>1, <4>1
      <3>2. CASE x \notin Places(W)
        BY <1>6, <1>9, <3>2 DEF partial
      <3>3. QED BY <3>1, <3>2
    <2>2. QED BY <2>1 DEF ItemsKnown
  <1>12. TabsKnown(S, page, t, V, n)
    <2>1. ASSUME NEW spot \in SpotsIn(V)
          PROVE  \E m \in 1..n : /\ RefAt(V, spot) = TRef(S, t[m]) /\ At(V, spot[1]).group = GRef(S, t[m])
                                 /\ V[spot[1][1]].ref = WRef(S, t[m])
      <3>1. CASE spot \in SpotsIn(W)
        <4>1. PICK m \in 1..n - 1 : /\ RefAt(W, spot) = TRef(S, t[m]) /\ At(W, spot[1]).group = GRef(S, t[m])
                                    /\ W[spot[1][1]].ref = WRef(S, t[m])
          BY <3>1 DEF Shows, TabsKnown
        <4>2. spot[1] \in Places(W) /\ spot[1][1] \in DOMAIN W
          <5>1. spot = <<spot[1], spot[2]>>
            BY <3>1, PlacesAre
          <5>2. spot[1] \in Places(W)
            BY <3>1, <5>1, PlacesAre
          <5>3. spot[1] = <<spot[1][1], spot[1][2]>>
            BY <5>2, PlacesAre
          <5>4. QED BY <5>2, <5>3, PlacesAre
        <4>3. QED BY <1>5, <1>6, <1>7, <1>8, <3>1, <4>1, <4>2
      <3>2. CASE spot = new
        <4>1. spot[1] = place /\ spot[1][1] = w
          BY <3>2
        <4>2. QED BY <1>5, <1>6, <1>7, <1>9, <3>2, <4>1
      <3>3. QED BY <1>7, <3>1, <3>2
    <2>2. QED BY <2>1 DEF TabsKnown
  <1>13. AllShown(S, page, t, V, n)
    <2>1. ASSUME NEW m \in 1..n PROVE \E spot \in SpotsIn(V) : RefAt(V, spot) = TRef(S, t[m])
      <3>1. CASE m = n
        BY <1>7, <3>1
      <3>2. CASE m # n
        <4>1. m \in 1..n - 1
          BY <3>2
        <4>2. PICK spot \in SpotsIn(W) : RefAt(W, spot) = TRef(S, t[m])
          BY <4>1 DEF Shows, AllShown
        <4>3. QED BY <1>7, <4>2
      <3>3. QED BY <3>1, <3>2
    <2>2. QED BY <2>1 DEF AllShown
  <1>14. ASSUME NEW m \in 1..n - 1
         PROVE  /\ t[m] \in Range(S.baseline.tabs) /\ t[n - 1] \in Range(S.baseline.tabs) /\ n > 1 /\ m # n
                /\ m \in 1..Len(page) /\ n \in 2..Len(page)
                /\ LastShown(S, t, W, n - 1)
    <2>1. n > 1 /\ m \in 1..Len(page) /\ n - 1 \in 1..Len(page) /\ n \in 2..Len(page) /\ n - 1 > 0 /\ m # n
      BY <1>1
    <2>2. QED BY <2>1 DEF Row, Shows
  \* A window, a group or a tab that is opened here has not been shown before.
  <1>15. ASSUME NEW v \in DOMAIN W, w \notin DOMAIN W PROVE W[v].ref # V[w].ref
    <2>1. SUFFICES ASSUME W[v].ref = WRef(S, tab) PROVE FALSE
      BY <1>5
    <2>2. PICK m \in 1..n - 1 : W[v].ref = WRef(S, t[m])
      BY DEF Shows, WindowsKnown
    <2>3. t[m].window = tab.window
      <3>1. t[m] \in Range(S.baseline.tabs)
        BY <1>14
      <3>2. WRef(S, t[m]) = WRef(S, tab) <=> t[m].window = tab.window
        BY <1>1, <3>1, RefsApart
      <3>3. QED BY <2>1, <2>2, <3>2
    <2>4. t[n - 1].window = tab.window
      BY <1>14, <2>3, CameLast
    <2>5. WRef(S, t[n - 1]) = WRef(S, tab)
      BY <2>4 DEF WRef
    <2>6. ToLast(W, window)
      BY <1>3, <1>14, <2>5 DEF LastShown, ToLast
    <2>7. QED BY <1>5, <1>15, <2>6
  <1>16. ASSUME NEW x \in Places(W), place \notin Places(W), group # {} PROVE At(W, x).group # group
    <2>1. SUFFICES ASSUME At(W, x).group = group PROVE FALSE
      OBVIOUS
    <2>2. PICK m \in 1..n - 1 : At(W, x).group = GRef(S, t[m])
      BY DEF Shows, ItemsKnown
    <2>3. t[m].group = tab.group /\ tab.group # {}
      <3>1. t[m] \in Range(S.baseline.tabs)
        BY <1>14
      <3>2. (GRef(S, t[m]) = GRef(S, tab) <=> t[m].group = tab.group) /\ (GRef(S, tab) = {} <=> tab.group = {})
        BY <1>1, <3>1, RefsApart
      <3>3. QED BY <1>16, <2>1, <2>2, <3>2
    <2>4. t[n - 1].group = tab.group /\ t[n - 1].window = tab.window
      BY <1>14, <2>3, CameLast
    <2>5. WRef(S, t[n - 1]) = WRef(S, tab) /\ GRef(S, t[n - 1]) = group
      BY <2>4 DEF WRef, GRef
    <2>6. ToLast(W, window) /\ ToLastItem(Last(W).items, group)
      BY <1>3, <1>14, <1>16, <2>5 DEF LastShown, ToLast, ToLastItem
    <2>7. QED BY <1>6, <1>16, <2>6
  <1>17. ASSUME NEW spot \in SpotsIn(W) PROVE RefAt(W, spot) # TRef(S, tab)
    <2>1. PICK m \in 1..n - 1 : RefAt(W, spot) = TRef(S, t[m])
      BY DEF Shows, TabsKnown
    <2>2. t[m] # t[n]
      BY <1>14, RowApart
    <2>3. QED BY <1>1, <1>14, <2>1, <2>2, RefsApart
  <1>18. OncePerPage(V)
    <2>1. /\ \A v, u \in DOMAIN W : W[v].ref = W[u].ref => v = u
          /\ \A x, y \in Places(W) : At(W, x).group # {} /\ At(W, y).group = At(W, x).group => x = y
          /\ \A x, y \in SpotsIn(W) : RefAt(W, x) = RefAt(W, y) => x = y
      BY DEF Shows, OncePerPage
    <2>2. ASSUME NEW v \in DOMAIN V, NEW u \in DOMAIN V, V[v].ref = V[u].ref PROVE v = u
      BY <1>5, <1>15, <2>1, <2>2
    <2> HIDE DEF place, new
    <2>3. ASSUME NEW x \in Places(V), NEW y \in Places(V), At(V, x).group # {}, At(V, y).group = At(V, x).group
          PROVE  x = y
      BY <1>6, <1>16, <2>1, <2>3
    <2>4. ASSUME NEW x \in SpotsIn(V), NEW y \in SpotsIn(V), RefAt(V, x) = RefAt(V, y) PROVE x = y
      BY <1>7, <1>17, <2>1, <2>4
    <2>5. QED BY <2>2, <2>3, <2>4 DEF OncePerPage
  <1>19. LastShown(S, t, V, n)
    <2>1. Len(V) \in Nat /\ Len(V) # 0 /\ V # <<>> /\ Last(V) = V[w]
      <3>1. Len(V) \in Nat /\ V \in Seq(WindowType({S.references.windows[key] : key \in Range(Keys(S.baseline.windows))},
                   {GRef(S, x) : x \in Range(S.baseline.tabs)},
                   {ProjectTab(x, S.detail, S.references) : x \in Range(S.baseline.tabs)}))
        BY <1>3 DEF Shapes
      <3>2. QED BY <1>5, <3>1 DEF Last
    <2>2. V[w].items # <<>> /\ Last(V[w].items) = At(V, place)
      <3>1. V[w].items # <<>>
        BY <1>5
      <3>2. QED BY <1>5, <3>1 DEF Last, At
    <2>3. QED BY <1>5, <1>6, <2>1, <2>2 DEF LastShown
  <1>20. InTurn(S, t, V, n)
    <2> HIDE DEF new
    <2>1. ASSUME NEW spot \in SpotsIn(V), NEW other \in SpotsIn(V), Precedes(spot, other)
          PROVE  \E m, o \in 1..n : m < o /\ RefAt(V, spot) = TRef(S, t[m]) /\ RefAt(V, other) = TRef(S, t[o])
      <3>1. spot \in SpotsIn(W)
        BY <1>7, <2>1
      <3>2. CASE other \in SpotsIn(W)
        <4>1. PICK m \in 1..n - 1, o \in 1..n - 1 :
                  m < o /\ RefAt(W, spot) = TRef(S, t[m]) /\ RefAt(W, other) = TRef(S, t[o])
          BY <2>1, <3>1, <3>2 DEF Shows, InTurn
        <4>2. QED BY <1>7, <1>8, <3>1, <3>2, <4>1
      <3>3. CASE other = new
        <4>1. PICK m \in 1..n - 1 : RefAt(W, spot) = TRef(S, t[m])
          BY <3>1 DEF Shows, TabsKnown
        <4>2. m < n /\ m \in 1..n
          OBVIOUS
        <4>3. RefAt(V, spot) = TRef(S, t[m]) /\ RefAt(V, other) = TRef(S, t[n])
          BY <1>7, <3>1, <3>3, <4>1
        <4>4. QED BY <1>9, <4>2, <4>3
      <3>4. QED BY <1>7, <3>2, <3>3
    <2>2. QED BY <2>1 DEF InTurn
  <1>21. QED BY <1>3, <1>10, <1>11, <1>12, <1>13, <1>18, <1>19, <1>20 DEF Shows

\* What a page shows.
IsRendering(windows, S, page, m) ==
    windows = [n \in 0..m |-> IF n = 0 THEN <<>>
                              ELSE AddTab(S, page, windows[n - 1], TabOf(S.baseline, page[n]))]

LEMMA RenderingExists ==
    ASSUME NEW S, NEW page, Len(page) \in Nat
    PROVE  \E windows : IsRendering(windows, S, page, Len(page)) /\ RenderedWindows(S, page) = windows[Len(page)]
  <1> DEFINE N == Len(page)
             Done == {m \in 0..N : \E windows : IsRendering(windows, S, page, m)}
             Step(last, n) == AddTab(S, page, last, TabOf(S.baseline, page[n]))
  <1>1. 0 \in Done
    <2> DEFINE v == [n \in 0..0 |-> <<>>]
    <2>1. IsRendering(v, S, page, 0)
      BY DEF IsRendering
    <2>2. QED BY <2>1
  <1>2. ASSUME NEW m \in 1..N, m - 1 \in Done PROVE m \in Done
    <2>1. PICK windows : IsRendering(windows, S, page, m - 1)
      BY <1>2
    <2>2. \A n \in 0..m - 1 : windows[n] = IF n = 0 THEN <<>> ELSE Step(windows[n - 1], n)
      BY <2>1 DEF IsRendering
    <2> HIDE DEF Step
    <2> DEFINE v == [n \in 0..m |-> IF n = m THEN Step(windows[m - 1], m) ELSE windows[n]]
    <2>3. ASSUME NEW n \in 0..m PROVE v[n] = IF n = 0 THEN <<>> ELSE Step(v[n - 1], n)
      <3>1. CASE n = m
        BY <3>1
      <3>2. CASE n # m
        <4>1. n \in 0..m - 1 /\ v[n] = windows[n] /\ (n # 0 => n - 1 \in 0..m - 1 /\ v[n - 1] = windows[n - 1])
          BY <3>2
        <4>2. QED BY <2>2, <4>1
      <3>3. QED BY <3>1, <3>2
    <2>4. v = [n \in 0..m |-> v[n]]
      OBVIOUS
    <2> HIDE DEF v
    <2>5. v = [n \in 0..m |-> IF n = 0 THEN <<>> ELSE Step(v[n - 1], n)]
      BY <2>3, <2>4
    <2>6. IsRendering(v, S, page, m)
      BY <2>5 DEF IsRendering, Step
    <2>7. QED BY <2>6
  <1> HIDE DEF Done, Step
  <1>3. \A n \in 0..N : n \in Done
    BY <1>1, <1>2, Induction
  <1>4. \E windows : IsRendering(windows, S, page, N)
    BY <1>3 DEF Done
  <1> DEFINE rendered == CHOOSE windows : IsRendering(windows, S, page, N)
  <1>5. IsRendering(rendered, S, page, N)
    BY <1>4
  <1>6. RenderedWindows(S, page) = rendered[N]
    BY DEF RenderedWindows, IsRendering
  <1>7. QED BY <1>5, <1>6

LEMMA PageShows ==
    ASSUME NEW S, Proper(S), NEW page, NEW t, Row(S, page, t)
    PROVE  Shows(S, page, t, RenderedWindows(S, page), Len(page))
  <1> DEFINE N == Len(page)
  <1>1. N \in Nat /\ \A n \in 1..N : TabOf(S.baseline, page[n]) = t[n]
    BY DEF Row
  <1>2. PICK windows : IsRendering(windows, S, page, N) /\ RenderedWindows(S, page) = windows[N]
    BY <1>1, RenderingExists
  <1> DEFINE Done == {n \in 0..N : Shows(S, page, t, windows[n], n)}
  <1>3. 0 \in Done
    <2>1. windows[0] = <<>>
      BY <1>1, <1>2 DEF IsRendering
    <2>2. Places(<<>>) = {} /\ SpotsIn(<<>>) = {}
      BY DEF Places, SpotsIn
    <2>3. <<>> \in Shapes(S)
      BY DEF Shapes
    <2>4. Shows(S, page, t, <<>>, 0)
      BY <2>2, <2>3 DEF Shows, WindowsKnown, ItemsKnown, TabsKnown, AllShown, InTurn, OncePerPage
    <2>5. QED BY <1>1, <2>1, <2>4
  <1>4. ASSUME NEW n \in 1..N, n - 1 \in Done PROVE n \in Done
    <2>1. windows[n] = AddTab(S, page, windows[n - 1], TabOf(S.baseline, page[n]))
      BY <1>1, <1>2 DEF IsRendering
    <2>2. windows[n] = AddTab(S, page, windows[n - 1], t[n])
      BY <1>1, <2>1
    <2>3. Shows(S, page, t, windows[n], n)
      BY <1>4, <2>2, ShowsNext
    <2>4. QED BY <2>3
  <1> HIDE DEF Done
  <1>5. \A n \in 0..N : n \in Done
    BY <1>1, <1>3, <1>4, Induction
  <1>6. Shows(S, page, t, windows[N], N)
    BY <1>1, <1>5 DEF Done
  <1>7. QED BY <1>2, <1>6

-----------------------------------------------------------------------------
(* The matches of a snapshot and the part of them that is on a page *)

\* S pages through the tabs M, which s has in order.
Line(S, M, s) ==
    /\ Proper(S)
    /\ M \subseteq Range(S.baseline.tabs)
    /\ IsFiniteSet(M)
    /\ SortedBy(s, M, Ahead(S.baseline, M))
    /\ S.matched_tab_keys = [i \in 1..Cardinality(M) |-> s[i].key]

LineFacts(S, M, s) ==
    /\ Cardinality(M) \in Nat /\ Len(S.matched_tab_keys) = Cardinality(M)
    /\ DOMAIN S.matched_tab_keys = 1..Cardinality(M)
    /\ S.matched_tab_keys \in Seq({tab.key : tab \in M})
    /\ \A i \in 1..Cardinality(M) : /\ s[i] \in M /\ s[i] \in Range(S.baseline.tabs)
                                    /\ S.matched_tab_keys[i] = s[i].key
                                    /\ TabOf(S.baseline, s[i].key) = s[i]
    /\ \A tab \in M : \E i \in 1..Cardinality(M) : s[i] = tab
    /\ \A i, j \in 1..Cardinality(M) : i < j => Before(S.baseline, s[i], s[j])
    /\ \A i, j \in 1..Cardinality(M) : s[i] = s[j] => i = j

LEMMA LineIs ==
    ASSUME NEW S, NEW M, NEW s, Line(S, M, s)
    PROVE  LineFacts(S, M, s)
  <1> DEFINE L == Cardinality(M)
             keys == S.matched_tab_keys
  <1>1. L \in Nat
    BY FS_CardinalityType DEF Line
  <1>2. /\ s \in [1..L -> M] /\ \A tab \in M : \E i \in 1..L : s[i] = tab
        /\ \A i, j \in 1..L : i < j <=> <<s[i], s[j]>> \in Ahead(S.baseline, M)
        /\ \A i, j \in 1..L : s[i] = s[j] => i = j
    BY DEF Line, SortedBy
  <1>3. \A i, j \in 1..L : i < j => Before(S.baseline, s[i], s[j])
    BY <1>2 DEF Ahead
  <1>4. WellTyped(S.baseline) /\ DistinctIdentity(S.baseline) /\ M \subseteq Range(S.baseline.tabs)
    BY DEF Line, Proper, AcceptedBaseline
  <1>5. \A i \in 1..L : s[i] \in M /\ s[i] \in Range(S.baseline.tabs) /\ TabOf(S.baseline, s[i].key) = s[i]
    BY <1>2, <1>4, Named
  <1>6. keys = [i \in 1..L |-> s[i].key]
    BY DEF Line
  <1> HIDE DEF L, keys
  <1>7. keys \in Seq({tab.key : tab \in M}) /\ Len(keys) = L /\ DOMAIN keys = 1..L
    BY <1>1, <1>5, <1>6
  <1>8. QED BY <1>1, <1>2, <1>3, <1>5, <1>6, <1>7 DEF LineFacts, L, keys

LEMMA MatchedLine ==
    ASSUME NEW b, AcceptedBaseline(b), NEW arguments, NEW S, S = StoredSnapshot(b, Refs(b), arguments),
           NEW M, M = {tab \in Range(b.tabs) : Matches(tab, Refs(b), arguments)}
    PROVE  \E s : Line(S, M, s)
  <1> DEFINE s == InOrder(M, Ahead(b, M))
  <1>1. /\ S.baseline = b /\ S.references = Refs(b)
        /\ S.matched_tab_keys = MatchedTabs(b, Refs(b), arguments)
    BY DEF StoredSnapshot
  <1>2. IsFiniteSet(M) /\ IsOrder(M, Ahead(b, M))
    BY MatchOrder
  <1>3. SortedBy(s, M, Ahead(b, M))
    BY <1>2, Sorted
  <1>4. MatchedTabs(b, Refs(b), arguments) = Keys(s)
    BY DEF MatchedTabs, Ahead
  <1> HIDE DEF s
  <1>5. DOMAIN s = 1..Cardinality(M)
    BY <1>3 DEF SortedBy
  <1>6. Keys(s) = [i \in 1..Cardinality(M) |-> s[i].key]
    BY <1>5 DEF Keys
  <1>7. Line(S, M, s)
    BY <1>1, <1>2, <1>3, <1>4, <1>6 DEF Line, Proper
  <1>8. QED BY <1>7

LEMMA MinIs ==
    ASSUME NEW x \in Int, NEW y \in Int
    PROVE  Min({x, y}) = IF x <= y THEN x ELSE y
  <1>1. Min({x, y}) = CHOOSE z \in {x, y} : \A other \in {x, y} : z <= other
    BY DEF Min
  <1>2. CASE x <= y
    BY <1>1, <1>2
  <1>3. CASE ~(x <= y)
    BY <1>1, <1>3
  <1>4. QED BY <1>2, <1>3

\* The matches that a page shows, as numbers.
Section(S, offset) == offset + 1..PageEnd(S, offset)

SectionFacts(S, M, s, offset) ==
    /\ PageEnd(S, offset) = IF offset + S.limit <= Cardinality(M) THEN offset + S.limit ELSE Cardinality(M)
    /\ PageEnd(S, offset) \in offset..Cardinality(M)
    /\ Section(S, offset) \subseteq 1..Cardinality(M)
    /\ Len(PageKeys(S, offset)) = PageEnd(S, offset) - offset
    /\ DOMAIN PageKeys(S, offset) = 1..PageEnd(S, offset) - offset
    /\ \A n \in 1..PageEnd(S, offset) - offset : PageKeys(S, offset)[n] = s[offset + n].key
    /\ Row(S, PageKeys(S, offset), [n \in 1..PageEnd(S, offset) - offset |-> s[offset + n]])

LEMMA SectionIs ==
    ASSUME NEW S, NEW M, NEW s, Line(S, M, s), S.limit \in Nat, NEW offset \in 0..Cardinality(M)
    PROVE  SectionFacts(S, M, s, offset)
  <1> DEFINE L == Cardinality(M)
             keys == S.matched_tab_keys
             end == PageEnd(S, offset)
             page == PageKeys(S, offset)
             N == end - offset
             t == [n \in 1..N |-> s[offset + n]]
  <1>line. LineFacts(S, M, s)
    BY LineIs
  <1>1. /\ L \in Nat /\ Len(keys) = L /\ keys \in Seq({tab.key : tab \in M})
        /\ \A i \in 1..L : s[i] \in Range(S.baseline.tabs) /\ keys[i] = s[i].key /\ TabOf(S.baseline, s[i].key) = s[i]
        /\ \A i, j \in 1..L : i < j => Before(S.baseline, s[i], s[j])
    BY <1>line DEF LineFacts
  <1>2. page = SubSeq(keys, offset + 1, end)
    BY DEF PageKeys
  <1>3. end = IF offset + S.limit <= L THEN offset + S.limit ELSE L
    <2>1. end = Min({offset + S.limit, L})
      BY <1>1 DEF PageEnd
    <2> HIDE DEF L, end
    <2>2. offset \in Int /\ L \in Int /\ offset + S.limit \in Int
      BY <1>1
    <2>3. QED BY <2>1, <2>2, MinIs
  <1>4. Section(S, offset) = offset + 1..end
    BY DEF Section
  <1> HIDE DEF L, keys, end, page
  <1>5. offset \in 0..L
    BY DEF L
  <1>6. end \in offset..L /\ N \in Nat /\ offset + 1..end \subseteq 1..L
    BY <1>1, <1>3, <1>5
  <1>7. Len(page) = N /\ DOMAIN page = 1..N /\ \A n \in 1..N : page[n] = keys[offset + n]
    BY <1>1, <1>2, <1>5, <1>6
  <1>8. \A n \in 1..N : offset + n \in 1..L
    BY <1>1, <1>5, <1>6
  <1>9. \A n \in 1..N : page[n] = s[offset + n].key
    BY <1>1, <1>7, <1>8
  <1> HIDE DEF N
  <1>10. t \in [1..N -> Range(S.baseline.tabs)]
    BY <1>1, <1>8
  <1>11. ASSUME NEW i \in 1..N, NEW j \in 1..N, i < j PROVE Before(S.baseline, t[i], t[j])
    <2>1. offset + i \in 1..L /\ offset + j \in 1..L /\ offset + i < offset + j
      BY <1>5, <1>6, <1>8, <1>11
    <2>2. QED BY <1>1, <2>1
  <1>12. \A n \in 1..N : TabOf(S.baseline, page[n]) = t[n]
    BY <1>1, <1>8, <1>9
  <1> HIDE DEF t
  <1>13. Row(S, page, t)
    BY <1>6, <1>7, <1>10, <1>11, <1>12 DEF Row
  <1>14. QED BY <1>3, <1>4, <1>6, <1>7, <1>9, <1>13 DEF SectionFacts, L, end, page, N, t

\* A page lacks a tab of a window or of a group if and only if one of the matches that
\* belongs there is not in its section.
LEMMA LacksIsExact ==
    ASSUME NEW S, NEW M, NEW s, Line(S, M, s), S.limit \in Nat, NEW offset \in 0..Cardinality(M),
           NEW field, NEW key
    PROVE  LacksSome(S, PageKeys(S, offset), field, key) <=>
               \E i \in 1..Cardinality(M) : i \notin Section(S, offset) /\ s[i][field] = key
  <1> DEFINE L == Cardinality(M)
             keys == S.matched_tab_keys
             page == PageKeys(S, offset)
             here == Section(S, offset)
             OfKey(k) == TabOf(S.baseline, k)[field] = key
             A == {k \in Range(page) : OfKey(k)}
             B == {k \in Range(keys) : OfKey(k)}
  <1>line. LineFacts(S, M, s)
    BY LineIs
  <1>section. SectionFacts(S, M, s, offset)
    BY SectionIs
  <1>1. /\ L \in Nat /\ Len(keys) = L /\ DOMAIN keys = 1..L
        /\ \A i \in 1..L : keys[i] = s[i].key /\ TabOf(S.baseline, s[i].key) = s[i]
        /\ \A i, j \in 1..L : s[i] = s[j] => i = j
    BY <1>line DEF LineFacts
  <1>2. /\ PageEnd(S, offset) \in offset..L /\ DOMAIN page = 1..PageEnd(S, offset) - offset
        /\ \A n \in 1..PageEnd(S, offset) - offset : page[n] = s[offset + n].key
    BY <1>section DEF SectionFacts
  <1>3. LacksSome(S, page, field, key) <=> Cardinality(A) < Cardinality(B)
    BY DEF LacksSome, Quantify
  <1> HIDE DEF L, keys, page
  <1>4. \A k : k \in Range(keys) <=> \E i \in 1..L : s[i].key = k
    BY <1>1 DEF Range
  <1>5. \A k : k \in Range(page) <=> \E i \in here : s[i].key = k
    <2>1. here = offset + 1..PageEnd(S, offset) /\ offset \in Int
      BY DEF Section
    <2>2. ASSUME NEW k, k \in Range(page) PROVE \E i \in here : s[i].key = k
      <3>1. PICK n \in 1..PageEnd(S, offset) - offset : page[n] = k
        BY <1>2, <2>2 DEF Range
      <3>2. offset + n \in here /\ s[offset + n].key = k
        BY <1>1, <1>2, <2>1, <3>1
      <3>3. QED BY <3>2
    <2>3. ASSUME NEW i \in here PROVE s[i].key \in Range(page)
      <3>1. i - offset \in 1..PageEnd(S, offset) - offset /\ offset + (i - offset) = i
        BY <1>1, <1>2, <2>1
      <3>2. i - offset \in DOMAIN page /\ page[i - offset] = s[i].key
        BY <1>2, <3>1
      <3>3. QED BY <3>2 DEF Range
    <2>4. QED BY <2>2, <2>3
  <1>6. here \subseteq 1..L
    BY <1>section DEF L, SectionFacts
  <1>7. \A i \in 1..L : OfKey(s[i].key) <=> s[i][field] = key
    BY <1>1
  <1>8. \A i, j \in 1..L : s[i].key = s[j].key => i = j
    BY <1>1
  <1> HIDE DEF here, OfKey
  <1>9. A \subseteq B
    BY <1>4, <1>5, <1>6
  <1>10. IsFiniteSet(B)
    <2>1. IsFiniteSet(1..L)
      BY <1>1, FS_Interval
    <2> DEFINE f == [i \in 1..L |-> s[i].key]
    <2>2. f \in Surjection(1..L, Range(keys))
      BY <1>4 DEF Surjection
    <2>3. IsFiniteSet(Range(keys))
      BY <2>1, <2>2, FS_Surjection
    <2>4. QED BY <2>3, FS_Subset
  <1>11. IsFiniteSet(A) /\ Cardinality(A) <= Cardinality(B) /\ (Cardinality(A) = Cardinality(B) => A = B)
    BY <1>9, <1>10, FS_Subset
  <1>12. Cardinality(A) \in Nat /\ Cardinality(B) \in Nat
    BY <1>10, <1>11, FS_CardinalityType
  <1>13. Cardinality(A) < Cardinality(B) <=> A # B
    BY <1>11, <1>12
  <1>14. A # B <=> \E i \in 1..L : i \notin here /\ s[i][field] = key
    <2>1. ASSUME A # B PROVE \E i \in 1..L : i \notin here /\ s[i][field] = key
      <3>1. PICK k : k \in B /\ k \notin A
        BY <1>9, <2>1
      <3>2. PICK i \in 1..L : s[i].key = k
        BY <1>4, <3>1
      <3>3. QED BY <1>5, <1>7, <3>1, <3>2
    <2>2. ASSUME NEW i \in 1..L, i \notin here, s[i][field] = key PROVE A # B
      <3>1. s[i].key \in B
        BY <1>4, <1>7, <2>2
      <3>2. s[i].key \notin A
        BY <1>5, <1>6, <1>8, <2>2
      <3>3. QED BY <3>1, <3>2
    <2>3. QED BY <2>1, <2>2
  <1>15. QED BY <1>3, <1>13, <1>14 DEF L, page, here

\* A page shows the tabs of its section, each once and in its place, and marks what
\* it shows in part.
PageFacts(S, M, s, offset, P) ==
    /\ \A spot \in Spots(P) : \E i \in Section(S, offset) :
           /\ TabRefAt(P, spot) = TRef(S, s[i])
           /\ ItemAt(P, spot[1]).group = GRef(S, s[i])
           /\ P.windows[spot[1][1]].ref = WRef(S, s[i])
           /\ spot[1] \in Items(P) /\ spot[1][1] \in DOMAIN P.windows
    /\ \A i \in Section(S, offset) : \E spot \in Spots(P) : TabRefAt(P, spot) = TRef(S, s[i])
    /\ \A spot, other \in Spots(P) : TabRefAt(P, spot) = TabRefAt(P, other) => spot = other
    /\ \A spot, other \in Spots(P) : Precedes(spot, other) =>
           \E i, j \in Section(S, offset) :
               i < j /\ TabRefAt(P, spot) = TRef(S, s[i]) /\ TabRefAt(P, other) = TRef(S, s[j])
    /\ \A v, w \in DOMAIN P.windows : P.windows[v].ref = P.windows[w].ref => v = w
    /\ \A place, other \in Items(P) :
           ItemAt(P, place).group # {} /\ ItemAt(P, other).group = ItemAt(P, place).group => place = other
    /\ \A w \in DOMAIN P.windows : \E i \in Section(S, offset) :
           /\ P.windows[w].ref = WRef(S, s[i])
           /\ P.windows[w].partial = LacksSome(S, PageKeys(S, offset), "window", s[i].window)
    /\ \A place \in Items(P) : \E i \in Section(S, offset) :
           /\ ItemAt(P, place).group = GRef(S, s[i])
           /\ ItemAt(P, place).partial =
                  (GRef(S, s[i]) # {} /\ LacksSome(S, PageKeys(S, offset), "group", s[i].group))
    /\ P.windows \in Shapes(S)
    /\ P.next_cursor = {PageEnd(S, offset)} \cap S.cursors

LEMMA PlacesOfPage ==
    ASSUME NEW P
    PROVE  /\ Items(P) = Places(P.windows) /\ Spots(P) = SpotsIn(P.windows)
           /\ \A place : ItemAt(P, place) = At(P.windows, place)
           /\ \A spot : TabRefAt(P, spot) = RefAt(P.windows, spot)
  BY DEF Items, Places, Spots, SpotsIn, ItemAt, At, TabRefAt, RefAt

LEMMA PageIs ==
    ASSUME NEW S, NEW M, NEW s, Line(S, M, s), S.limit \in Nat, NEW offset \in 0..Cardinality(M),
           NEW P, P = RenderPage(S, offset)
    PROVE  PageFacts(S, M, s, offset, P)
  <1> DEFINE page == PageKeys(S, offset)
             N == PageEnd(S, offset) - offset
             t == [n \in 1..N |-> s[offset + n]]
             W == P.windows
             here == Section(S, offset)
  <1>section. SectionFacts(S, M, s, offset)
    BY SectionIs
  <1>1. Row(S, page, t) /\ Len(page) = N /\ PageEnd(S, offset) \in offset..Cardinality(M)
    BY <1>section DEF SectionFacts
  <1>2. N \in Nat /\ offset \in Nat
    <2>1. Cardinality(M) \in Nat
      BY FS_CardinalityType DEF Line
    <2>2. QED BY <1>1, <2>1
  <1>3. Proper(S)
    BY DEF Line
  <1>4. W = RenderedWindows(S, page) /\ P.next_cursor = {PageEnd(S, offset)} \cap S.cursors
    BY DEF RenderPage
  <1>5. Shows(S, page, t, W, N)
    BY <1>1, <1>3, <1>4, PageShows
  <1>6. \A m \in 1..N : offset + m \in here /\ t[m] = s[offset + m]
    <2>1. here = offset + 1..PageEnd(S, offset)
      BY DEF Section
    <2>2. \A m \in 1..N : offset + m \in here
      BY <1>1, <1>2, <2>1
    <2>3. QED BY <2>2
  <1>6a. \A m, o \in 1..N : m < o => offset + m < offset + o
    BY <1>2
  <1>7. \A i \in here : \E m \in 1..N : t[m] = s[i]
    <2>1. ASSUME NEW i \in here PROVE i - offset \in 1..N /\ offset + (i - offset) = i
      <3>1. here = offset + 1..PageEnd(S, offset)
        BY DEF Section
      <3>2. QED BY <1>1, <1>2, <3>1
    <2>2. ASSUME NEW i \in here PROVE t[i - offset] = s[i]
      BY <2>1
    <2>3. QED BY <2>1, <2>2
  <1>8. /\ Items(P) = Places(W) /\ Spots(P) = SpotsIn(W)
        /\ \A place : ItemAt(P, place) = At(W, place)
        /\ \A spot : TabRefAt(P, spot) = RefAt(W, spot)
    BY PlacesOfPage
  <1> HIDE DEF page, N, t, W, here
  <1>9. ASSUME NEW spot \in SpotsIn(W)
        PROVE  \E i \in here :
                   /\ RefAt(W, spot) = TRef(S, s[i]) /\ At(W, spot[1]).group = GRef(S, s[i])
                   /\ W[spot[1][1]].ref = WRef(S, s[i])
                   /\ spot[1] \in Places(W) /\ spot[1][1] \in DOMAIN W
    <2>1. PICK m \in 1..N : /\ RefAt(W, spot) = TRef(S, t[m]) /\ At(W, spot[1]).group = GRef(S, t[m])
                            /\ W[spot[1][1]].ref = WRef(S, t[m])
      BY <1>5 DEF Shows, TabsKnown
    <2>2. spot = <<spot[1], spot[2]>>
      BY PlacesAre
    <2>3. spot[1] \in Places(W)
      BY <2>2, PlacesAre
    <2>4. spot[1] = <<spot[1][1], spot[1][2]>>
      BY <2>3, PlacesAre
    <2>5. spot[1][1] \in DOMAIN W
      BY <2>3, <2>4, PlacesAre
    <2>6. QED BY <1>6, <2>1, <2>3, <2>5
  <1>10. ASSUME NEW i \in here PROVE \E spot \in SpotsIn(W) : RefAt(W, spot) = TRef(S, s[i])
    <2>1. PICK m \in 1..N : t[m] = s[i]
      BY <1>7
    <2>2. PICK spot \in SpotsIn(W) : RefAt(W, spot) = TRef(S, t[m])
      BY <1>5 DEF Shows, AllShown
    <2>3. QED BY <2>1, <2>2
  <1>11. ASSUME NEW w \in DOMAIN W
         PROVE  \E i \in here : W[w].ref = WRef(S, s[i]) /\ W[w].partial = LacksSome(S, page, "window", s[i].window)
    <2>1. PICK m \in 1..N : W[w].ref = WRef(S, t[m]) /\ W[w].partial = LacksSome(S, page, "window", t[m].window)
      BY <1>5 DEF Shows, WindowsKnown
    <2>2. QED BY <1>6, <2>1
  <1>12. ASSUME NEW place \in Places(W)
         PROVE  \E i \in here :
                    /\ At(W, place).group = GRef(S, s[i])
                    /\ At(W, place).partial = (GRef(S, s[i]) # {} /\ LacksSome(S, page, "group", s[i].group))
    <2>1. PICK m \in 1..N : /\ At(W, place).group = GRef(S, t[m])
                            /\ At(W, place).partial = (GRef(S, t[m]) # {} /\ LacksSome(S, page, "group", t[m].group))
      BY <1>5 DEF Shows, ItemsKnown
    <2>2. QED BY <1>6, <2>1
  <1>13. OncePerPage(W)
    BY <1>5 DEF Shows
  <1>14. /\ \A v, w \in DOMAIN W : W[v].ref = W[w].ref => v = w
         /\ \A place, other \in Items(P) :
                ItemAt(P, place).group # {} /\ ItemAt(P, other).group = ItemAt(P, place).group => place = other
         /\ \A spot, other \in Spots(P) : TabRefAt(P, spot) = TabRefAt(P, other) => spot = other
    BY <1>8, <1>13 DEF OncePerPage
  <1>15. /\ \A spot \in Spots(P) : \E i \in here :
                /\ TabRefAt(P, spot) = TRef(S, s[i]) /\ ItemAt(P, spot[1]).group = GRef(S, s[i])
                /\ W[spot[1][1]].ref = WRef(S, s[i])
                /\ spot[1] \in Items(P) /\ spot[1][1] \in DOMAIN W
         /\ \A i \in here : \E spot \in Spots(P) : TabRefAt(P, spot) = TRef(S, s[i])
    BY <1>8, <1>9, <1>10
  <1>16. \A place \in Items(P) : \E i \in here :
             /\ ItemAt(P, place).group = GRef(S, s[i])
             /\ ItemAt(P, place).partial = (GRef(S, s[i]) # {} /\ LacksSome(S, page, "group", s[i].group))
    BY <1>8, <1>12
  <1>17. \A spot, other \in Spots(P) : Precedes(spot, other) =>
             \E i, j \in here :
                 i < j /\ TabRefAt(P, spot) = TRef(S, s[i]) /\ TabRefAt(P, other) = TRef(S, s[j])
    <2>1. ASSUME NEW spot \in SpotsIn(W), NEW other \in SpotsIn(W), Precedes(spot, other)
          PROVE  \E i, j \in here : i < j /\ RefAt(W, spot) = TRef(S, s[i]) /\ RefAt(W, other) = TRef(S, s[j])
      <3>1. PICK m \in 1..N, o \in 1..N :
                m < o /\ RefAt(W, spot) = TRef(S, t[m]) /\ RefAt(W, other) = TRef(S, t[o])
        BY <1>5, <2>1 DEF Shows, InTurn
      <3>2. QED BY <1>6, <1>6a, <3>1
    <2>2. QED BY <1>8, <2>1
  <1>18. W \in Shapes(S)
    BY <1>5 DEF Shows
  <1>19. QED BY <1>4, <1>11, <1>14, <1>15, <1>16, <1>17, <1>18 DEF PageFacts, page, W, here

-----------------------------------------------------------------------------
(* Cursors *)

\* The multiples of a limit that lie below L are those of 1, 2, up to (L - 1) \div limit.
LEMMA MultiplesBelow ==
    ASSUME NEW L \in Nat \ {0}, NEW limit \in Nat \ {0}, NEW n \in Nat
    PROVE  n * limit <= L - 1 <=> n <= (L - 1) \div limit
  <1> DEFINE q == (L - 1) \div limit
             r == (L - 1) % limit
  <1>1. q \in Nat /\ r \in 0..limit - 1 /\ L - 1 = limit * q + r
    OBVIOUS
  <1> HIDE DEF q, r
  <1>2. ASSUME n <= q PROVE n * limit <= L - 1
    <2>1. PICK d \in Nat : q = n + d
      <3>1. q - n \in Nat /\ q = n + (q - n)
        BY <1>1, <1>2
      <3>2. QED BY <3>1
    <2>2. limit * q = n * limit + d * limit
      BY <2>1
    <2>3. d * limit \in Nat /\ n * limit \in Nat
      BY <2>1
    <2>4. QED BY <1>1, <2>2, <2>3
  <1>3. ASSUME ~(n <= q) PROVE n * limit > L - 1
    <2>1. PICK d \in Nat : n = q + 1 + d
      <3>1. n - q - 1 \in Nat /\ n = q + 1 + (n - q - 1)
        BY <1>1, <1>3
      <3>2. QED BY <3>1
    <2>2. n * limit = limit * q + limit + d * limit
      BY <1>1, <2>1
    <2>3. d * limit \in Nat /\ n * limit \in Nat /\ limit * q \in Nat
      BY <1>1, <2>1
    <2>4. QED BY <1>1, <2>2, <2>3
  <1>4. n * limit \in Nat
    OBVIOUS
  <1>5. QED BY <1>1, <1>2, <1>3, <1>4 DEF q

LEMMA CursorsAre ==
    ASSUME NEW matched, NEW L \in Nat, Len(matched) = L, matched = <<>> <=> L = 0, NEW limit \in Nat \ {0}
    PROVE  /\ CursorCount(matched, limit) = Cardinality(PrepareCursors(matched, limit))
           /\ \A n \in Nat \ {0} : n * limit \in PrepareCursors(matched, limit) <=> n * limit < L
           /\ PrepareCursors(matched, limit) \subseteq 0..L - 1
  <1> DEFINE C == PrepareCursors(matched, limit)
  <1>1. C = {n * limit : n \in 1..L} \cap 0..L - 1
    BY DEF PrepareCursors
  <1>2. ASSUME NEW n \in Nat \ {0} PROVE n * limit \in C <=> n * limit < L
    <2>1. n * limit \in Nat /\ n <= n * limit
      <3>1. n * limit = n + n * (limit - 1) /\ n * (limit - 1) \in Nat
        OBVIOUS
      <3>2. QED BY <3>1
    <2>2. ASSUME n * limit < L PROVE n * limit \in C
      <3>1. n \in 1..L /\ n * limit \in 0..L - 1
        BY <2>1, <2>2
      <3>2. QED BY <1>1, <3>1
    <2>3. ASSUME n * limit \in C PROVE n * limit < L
      BY <1>1, <2>3
    <2>4. QED BY <2>2, <2>3
  <1>3. CASE L = 0
    <2>1. C = {} /\ CursorCount(matched, limit) = 0
      BY <1>1, <1>3 DEF CursorCount
    <2>2. QED BY <1>1, <1>2, <2>1, FS_EmptySet
  <1>4. CASE L # 0
    <2> DEFINE q == (L - 1) \div limit
               f == [n \in 1..q |-> n * limit]
    <2>1. q \in Nat /\ CursorCount(matched, limit) = q
      BY <1>4 DEF CursorCount
    <2>2. \A n \in Nat : n * limit <= L - 1 <=> n <= q
      BY <1>4, MultiplesBelow
    <2> HIDE DEF q, C
    <2>3. \A n \in 1..q : n * limit \in C
      <3>1. ASSUME NEW n \in 1..q PROVE n * limit \in C
        <4>1. n \in Nat \ {0} /\ n <= q /\ n * limit \in Nat
          BY <2>1
        <4>2. n * limit < L
          BY <2>2, <4>1
        <4>3. QED BY <1>2, <4>1, <4>2
      <3>2. QED BY <3>1
    <2>4. \A c \in C : \E n \in 1..q : c = n * limit
      <3>1. ASSUME NEW c \in C PROVE \E n \in 1..q : c = n * limit
        <4>1. PICK n \in 1..L : c = n * limit /\ c <= L - 1
          BY <1>1
        <4>2. n \in Nat /\ n <= q
          BY <2>2, <4>1
        <4>3. QED BY <2>1, <4>1, <4>2
      <3>2. QED BY <3>1
    <2>5. \A n, m \in 1..q : n * limit = m * limit => n = m
      <3>1. ASSUME NEW n \in Nat, NEW m \in Nat, n < m PROVE n * limit # m * limit
        <4>1. m * limit = n * limit + (m - n) * limit /\ (m - n) * limit > 0 /\ n * limit \in Nat
          <5>1. PICK d \in Nat \ {0} : m = n + d
            <6>1. m - n \in Nat \ {0} /\ m = n + (m - n)
              BY <3>1
            <6>2. QED BY <6>1
          <5>2. d * limit = limit + (d - 1) * limit /\ (d - 1) * limit \in Nat
            OBVIOUS
          <5>3. m * limit = n * limit + d * limit /\ m - n = d
            BY <5>1
          <5>4. QED BY <5>2, <5>3
        <4>2. QED BY <4>1
      <3>2. \A n, m \in 1..q : n \in Nat /\ m \in Nat /\ (n = m \/ n < m \/ m < n)
        BY <2>1
      <3>3. QED BY <3>1, <3>2
    <2>6. f \in Bijection(1..q, C)
      <3>1. \A n \in 1..q : f[n] = n * limit
        OBVIOUS
      <3>2. f \in [1..q -> C]
        BY <2>3
      <3> HIDE DEF f
      <3>3. QED BY <2>4, <2>5, <3>1, <3>2 DEF Bijection, Injection, Surjection, IsInjective
    <2>7. IsFiniteSet(1..q) /\ Cardinality(1..q) = q
      BY <2>1, FS_Interval
    <2>8. ExistsBijection(1..q, C)
      BY <2>6 DEF ExistsBijection
    <2>9. Cardinality(C) = q
      BY <2>7, <2>8, FS_Bijection
    <2>10. QED BY <1>1, <1>2, <2>1, <2>9 DEF C
  <1>5. QED BY <1>3, <1>4

-----------------------------------------------------------------------------
(* What the client has seen *)

\* The offset of the p-th page.
Offset(S, p) == (p - 1) * S.limit

LEMMA OffsetsGrow ==
    ASSUME NEW limit \in Nat \ {0}, NEW p \in Nat \ {0}, NEW q \in Nat \ {0}, p < q
    PROVE  (p - 1) * limit + limit <= (q - 1) * limit /\ (p - 1) * limit \in Nat /\ (q - 1) * limit \in Nat
  <1>1. PICK d \in Nat : q = p + 1 + d
    <2>1. q - p - 1 \in Nat /\ q = p + 1 + (q - p - 1)
      OBVIOUS
    <2>2. QED BY <2>1
  <1>2. d * limit \in Nat /\ p * limit \in Nat /\ (p - 1) * limit \in Nat
    OBVIOUS
  <1>3. (q - 1) * limit = p * limit + d * limit /\ (p - 1) * limit + limit = p * limit
    BY <1>1
  <1>4. QED BY <1>2, <1>3

\* The pages that the client has seen are the first ones of S, which pages through M.
Paged(S, M, s) ==
    /\ Line(S, M, s)
    /\ S.limit \in Nat \ {0}
    /\ S.cursors = PrepareCursors(S.matched_tab_keys, S.limit)
    /\ Len(pages) \in Nat \ {0} /\ DOMAIN pages = 1..Len(pages)
    /\ \A p \in 1..Len(pages) :
           /\ Offset(S, p) \in 0..Cardinality(M)
           /\ p # 1 => Offset(S, p) < Cardinality(M)
           /\ pages[p] = RenderPage(S, Offset(S, p))

LEMMA PagedFacts ==
    ASSUME NEW S, NEW M, NEW s, Paged(S, M, s), NEW p \in 1..Len(pages)
    PROVE  /\ PageFacts(S, M, s, Offset(S, p), pages[p])
           /\ SectionFacts(S, M, s, Offset(S, p))
  <1>1. /\ Line(S, M, s) /\ S.limit \in Nat /\ Offset(S, p) \in 0..Cardinality(M)
        /\ pages[p] = RenderPage(S, Offset(S, p))
    BY DEF Paged
  <1>2. QED BY <1>1, PageIs, SectionIs

\* Earlier pages have earlier matches.
LEMMA SectionsInOrder ==
    ASSUME NEW S, NEW M, NEW s, Paged(S, M, s), NEW p \in 1..Len(pages), NEW q \in 1..Len(pages), p < q,
           NEW i \in Section(S, Offset(S, p)), NEW j \in Section(S, Offset(S, q))
    PROVE  i < j
  <1>1. S.limit \in Nat \ {0} /\ Len(pages) \in Nat /\ Cardinality(M) \in Nat
    BY FS_CardinalityType DEF Paged, Line
  <1>2. Offset(S, p) + S.limit <= Offset(S, q) /\ Offset(S, p) \in Nat /\ Offset(S, q) \in Nat
    <2>1. p \in Nat \ {0} /\ q \in Nat \ {0}
      BY <1>1
    <2>2. /\ (p - 1) * S.limit + S.limit <= (q - 1) * S.limit
          /\ (p - 1) * S.limit \in Nat /\ (q - 1) * S.limit \in Nat
      BY <1>1, <2>1, OffsetsGrow
    <2>3. QED BY <2>2 DEF Offset
  <1>3. SectionFacts(S, M, s, Offset(S, p))
    BY PagedFacts
  <1>4. /\ PageEnd(S, Offset(S, p)) \in Offset(S, p)..Cardinality(M)
        /\ PageEnd(S, Offset(S, p)) = IF Offset(S, p) + S.limit <= Cardinality(M)
                                      THEN Offset(S, p) + S.limit ELSE Cardinality(M)
    BY <1>3 DEF SectionFacts
  <1>5. PageEnd(S, Offset(S, p)) <= Offset(S, q) /\ PageEnd(S, Offset(S, p)) \in Int
    BY <1>1, <1>2, <1>4
  <1>6. i \in Int /\ i <= PageEnd(S, Offset(S, p))
    BY <1>2, <1>5 DEF Section
  <1>7. j \in Int /\ j >= Offset(S, q) + 1
    BY <1>2 DEF Section
  <1>8. QED BY <1>2, <1>5, <1>6, <1>7

LEMMA SectionsApart ==
    ASSUME NEW S, NEW M, NEW s, Paged(S, M, s), NEW p \in 1..Len(pages), NEW q \in 1..Len(pages),
           NEW i \in Section(S, Offset(S, p)), i \in Section(S, Offset(S, q))
    PROVE  p = q
  <1>1. ~(p < q) /\ ~(q < p)
    <2>1. i < i => FALSE
      <3>1. SectionFacts(S, M, s, Offset(S, p))
        BY PagedFacts
      <3>2. i \in 1..Cardinality(M) /\ Cardinality(M) \in Nat
        BY <3>1, FS_CardinalityType DEF SectionFacts, Paged, Line
      <3>3. QED BY <3>2
    <2>2. QED BY <2>1, SectionsInOrder
  <1>2. p \in Int /\ q \in Int
    BY DEF Paged
  <1>3. QED BY <1>1, <1>2

\* The pages that cursors lead to cover the matches up to the end of the last.
LEMMA SectionsCover ==
    ASSUME NEW S, NEW M, NEW s, Paged(S, M, s), NEW i \in 1..Cardinality(M), i <= Len(pages) * S.limit
    PROVE  \E p \in 1..Len(pages) : i \in Section(S, Offset(S, p))
  <1> DEFINE K == Len(pages)
             limit == S.limit
             q == (i - 1) \div limit
  <1>1. limit \in Nat \ {0} /\ K \in Nat \ {0} /\ Cardinality(M) \in Nat
    BY FS_CardinalityType DEF Paged, Line
  <1>2. i \in Nat \ {0}
    BY <1>1
  <1>3. q \in Nat
    BY <1>1, <1>2
  <1>4. \A n \in Nat : n * limit <= i - 1 <=> n <= q
    BY <1>1, <1>2, MultiplesBelow
  <1> HIDE DEF q, limit, K
  <1>5. q * limit <= i - 1 /\ ~((q + 1) * limit <= i - 1) /\ q < K
    <2>1. q + 1 \in Nat /\ ~(q + 1 <= q) /\ q <= q
      BY <1>3
    <2>2. q * limit <= i - 1 /\ ~((q + 1) * limit <= i - 1)
      BY <1>3, <1>4, <2>1
    <2>3. K * limit \in Nat
      BY <1>1
    <2>4. ~(K * limit <= i - 1)
      BY <1>2, <2>3 DEF K, limit
    <2>5. ~(K <= q)
      BY <1>1, <1>4, <2>4
    <2>6. QED BY <1>1, <1>3, <2>2, <2>5
  <1> DEFINE p == q + 1
  <1>6. p \in 1..K
    BY <1>1, <1>3, <1>5
  <1>7. Offset(S, p) = q * limit
    BY <1>3 DEF Offset, limit
  <1>8. q * limit \in Nat /\ (q + 1) * limit = q * limit + limit
    BY <1>1, <1>3
  <1>9. SectionFacts(S, M, s, Offset(S, p))
    BY <1>6, PagedFacts DEF K
  <1>10. PageEnd(S, Offset(S, p)) = IF q * limit + limit <= Cardinality(M) THEN q * limit + limit ELSE Cardinality(M)
    BY <1>7, <1>9 DEF SectionFacts, limit
  <1>11. i <= PageEnd(S, Offset(S, p)) /\ PageEnd(S, Offset(S, p)) \in Int
    BY <1>1, <1>2, <1>5, <1>8, <1>10
  <1>12. i \in Section(S, Offset(S, p))
    BY <1>2, <1>5, <1>7, <1>8, <1>11 DEF Section
  <1>13. QED BY <1>6, <1>12 DEF K

\* The last page has a cursor unless its end is the end of the matches.
LEMMA LastCursor ==
    ASSUME NEW S, NEW M, NEW s, Paged(S, M, s)
    PROVE  /\ Last(pages) = pages[Len(pages)]
           /\ Last(pages).next_cursor = IF Len(pages) * S.limit < Cardinality(M) THEN {Len(pages) * S.limit} ELSE {}
           /\ \A p \in 1..Len(pages) : \A i \in Section(S, Offset(S, p)) : i <= Len(pages) * S.limit /\ i \in 1..Cardinality(M)
  <1> DEFINE K == Len(pages)
             L == Cardinality(M)
             limit == S.limit
             matched == S.matched_tab_keys
  <1>1. limit \in Nat \ {0} /\ K \in Nat \ {0} /\ L \in Nat /\ Line(S, M, s)
    BY FS_CardinalityType DEF Paged, Line
  <1>2. Last(pages) = pages[K]
    BY DEF Last
  <1>3. K \in 1..K /\ \A p \in 1..K : p \in Nat \ {0}
    BY <1>1
  <1>4. ASSUME NEW p \in 1..K
        PROVE  /\ Offset(S, p) + limit = p * limit /\ Offset(S, p) \in Nat /\ p * limit \in Nat
               /\ PageEnd(S, Offset(S, p)) = IF p * limit <= L THEN p * limit ELSE L
    <2>1. Offset(S, p) = (p - 1) * limit
      BY DEF Offset
    <2>2. (p - 1) * limit + limit = p * limit /\ (p - 1) * limit \in Nat /\ p * limit \in Nat
      BY <1>1, <1>3
    <2>3. SectionFacts(S, M, s, Offset(S, p))
      BY PagedFacts
    <2>4. PageEnd(S, Offset(S, p)) = IF Offset(S, p) + limit <= L THEN Offset(S, p) + limit ELSE L
      BY <2>3 DEF SectionFacts
    <2>5. QED BY <2>1, <2>2, <2>4
  <1>5. /\ \A n \in Nat \ {0} : n * limit \in S.cursors <=> n * limit < L
        /\ S.cursors \subseteq 0..L - 1
    <2>line. LineFacts(S, M, s)
      BY <1>1, LineIs
    <2>1. Len(matched) = L /\ matched \in Seq({tab.key : tab \in M})
      BY <2>line DEF LineFacts
    <2>2. matched = <<>> <=> L = 0
      BY <2>1
    <2>3. S.cursors = PrepareCursors(matched, limit)
      BY DEF Paged
    <2> HIDE DEF L, limit, matched
    <2>4. QED BY <1>1, <2>1, <2>2, <2>3, CursorsAre
  <1>6. pages[K].next_cursor = {PageEnd(S, Offset(S, K))} \cap S.cursors
    BY <1>3, PagedFacts DEF PageFacts
  <1> HIDE DEF K, L, limit
  <1>7. pages[K].next_cursor = IF K * limit < L THEN {K * limit} ELSE {}
    <2>1. K * limit \in Nat /\ PageEnd(S, Offset(S, K)) = IF K * limit <= L THEN K * limit ELSE L
      BY <1>3, <1>4
    <2>2. CASE K * limit < L
      <3>1. PageEnd(S, Offset(S, K)) = K * limit /\ K * limit \in S.cursors
        BY <1>1, <1>5, <2>1, <2>2
      <3>2. QED BY <1>6, <2>2, <3>1
    <2>3. CASE ~(K * limit < L)
      <3>1. PageEnd(S, Offset(S, K)) = L /\ L \notin S.cursors
        BY <1>1, <1>5, <2>1, <2>3
      <3>2. QED BY <1>6, <2>3, <3>1
    <2>4. QED BY <2>2, <2>3
  <1>8. ASSUME NEW p \in 1..K, NEW i \in Section(S, Offset(S, p)) PROVE i <= K * limit /\ i \in 1..L
    <2>1. p * limit <= K * limit
      <3>1. CASE p = K
        BY <1>1, <3>1
      <3>2. CASE p # K
        <4>1. p < K
          BY <1>1, <3>2
        <4>2. (p - 1) * limit + limit <= (K - 1) * limit
          BY <1>1, <1>3, <4>1, OffsetsGrow
        <4>3. (p - 1) * limit + limit = p * limit /\ (K - 1) * limit + limit = K * limit
              /\ p * limit \in Nat /\ K * limit \in Nat /\ (K - 1) * limit \in Nat
          BY <1>1, <1>3
        <4>4. QED BY <1>1, <4>2, <4>3
      <3>3. QED BY <3>1, <3>2
    <2>2. Section(S, Offset(S, p)) = Offset(S, p) + 1..PageEnd(S, Offset(S, p))
      BY DEF Section
    <2>3. i \in Int /\ i <= PageEnd(S, Offset(S, p)) /\ i >= 1
      BY <1>1, <1>4, <2>2
    <2>4. K * limit \in Nat
      BY <1>1
    <2>5. QED BY <1>1, <1>4, <2>1, <2>3, <2>4
  <1>9. QED BY <1>2, <1>7, <1>8 DEF K, L, limit

\* The references of the candidate are those of its baseline.
LEMMA CandidateRefs ==
    /\ References = Refs(baseline)
    /\ Candidate.references = References /\ Candidate.baseline = baseline
    /\ Candidate.limit = Limit(params)
    /\ Candidate.cursors = PrepareCursors(Candidate.matched_tab_keys, Candidate.limit)
    /\ Candidate.matched_tab_keys = MatchedTabs(baseline, References, params)
    /\ \A tab : /\ WRef(Candidate, tab) = References.windows[tab.window]
                /\ GRef(Candidate, tab) = {References.groups[key] : key \in tab.group}
                /\ TRef(Candidate, tab) = References.tabs[tab.key]
  <1>1. References = Refs(baseline)
    BY DEF References, Refs
  <1>2. Candidate = StoredSnapshot(baseline, References, params)
    BY DEF Candidate
  <1>3. /\ Candidate.references = References /\ Candidate.baseline = baseline
        /\ Candidate.limit = Limit(params)
        /\ Candidate.matched_tab_keys = MatchedTabs(baseline, References, params)
        /\ Candidate.cursors = PrepareCursors(MatchedTabs(baseline, References, params), Limit(params))
    BY <1>2 DEF StoredSnapshot
  <1> HIDE DEF Candidate, References
  <1>4. QED BY <1>1, <1>3 DEF WRef, GRef, TRef

\* Where the client has seen tabs, and which.
LEMMA ShownSpots ==
    ASSUME NEW S, NEW M, NEW s, Paged(S, M, s)
    PROVE  /\ \A spot \in Shown : \E i \in Section(S, Offset(S, spot[1])) :
                  /\ spot[1] \in 1..Len(pages) /\ spot = <<spot[1], spot[2]>> /\ spot[2] \in Spots(pages[spot[1]])
                  /\ ShownRef(spot) = TRef(S, s[i])
                  /\ ItemAt(pages[spot[1]], spot[2][1]).group = GRef(S, s[i])
                  /\ pages[spot[1]].windows[spot[2][1][1]].ref = WRef(S, s[i])
                  /\ spot[2][1] \in Items(pages[spot[1]]) /\ spot[2][1][1] \in DOMAIN pages[spot[1]].windows
                  /\ s[i] \in M /\ i \in 1..Cardinality(M)
           /\ \A p \in 1..Len(pages) : \A i \in Section(S, Offset(S, p)) :
                  \E spot \in Shown : spot[1] = p /\ ShownRef(spot) = TRef(S, s[i])
  <1>1. DOMAIN pages = 1..Len(pages) /\ Line(S, M, s)
    BY DEF Paged
  <1>2. \A p, x : <<p, x>> \in Shown <=> p \in 1..Len(pages) /\ x \in Spots(pages[p])
    BY <1>1 DEF Shown
  <1>3. \A spot \in Shown : spot = <<spot[1], spot[2]>>
    BY DEF Shown
  <1>line. LineFacts(S, M, s)
    BY <1>1, LineIs
  <1>4. \A i \in 1..Cardinality(M) : s[i] \in M
    BY <1>line DEF LineFacts
  <1>5. ASSUME NEW spot \in Shown
        PROVE  \E i \in Section(S, Offset(S, spot[1])) :
                  /\ spot[1] \in 1..Len(pages) /\ spot = <<spot[1], spot[2]>> /\ spot[2] \in Spots(pages[spot[1]])
                  /\ ShownRef(spot) = TRef(S, s[i])
                  /\ ItemAt(pages[spot[1]], spot[2][1]).group = GRef(S, s[i])
                  /\ pages[spot[1]].windows[spot[2][1][1]].ref = WRef(S, s[i])
                  /\ spot[2][1] \in Items(pages[spot[1]]) /\ spot[2][1][1] \in DOMAIN pages[spot[1]].windows
                  /\ s[i] \in M /\ i \in 1..Cardinality(M)
    <2> DEFINE p == spot[1]
               x == spot[2]
               P == pages[p]
    <2>1. p \in 1..Len(pages) /\ x \in Spots(P) /\ spot = <<p, x>>
      BY <1>2, <1>3
    <2>2. ShownRef(spot) = TabRefAt(P, x)
      BY DEF ShownRef
    <2> HIDE DEF p, x, P
    <2>3. PageFacts(S, M, s, Offset(S, p), P)
      BY <2>1, PagedFacts DEF P
    <2>4. PICK i \in Section(S, Offset(S, p)) :
              /\ TabRefAt(P, x) = TRef(S, s[i]) /\ ItemAt(P, x[1]).group = GRef(S, s[i])
              /\ P.windows[x[1][1]].ref = WRef(S, s[i]) /\ x[1] \in Items(P) /\ x[1][1] \in DOMAIN P.windows
      BY <2>1, <2>3 DEF PageFacts
    <2>5. i \in 1..Cardinality(M)
      BY <2>1, LastCursor
    <2>6. QED BY <1>4, <2>1, <2>2, <2>4, <2>5 DEF p, x, P
  <1>6. ASSUME NEW p \in 1..Len(pages), NEW i \in Section(S, Offset(S, p))
        PROVE  \E spot \in Shown : spot[1] = p /\ ShownRef(spot) = TRef(S, s[i])
    <2>1. PageFacts(S, M, s, Offset(S, p), pages[p])
      BY PagedFacts
    <2>2. PICK x \in Spots(pages[p]) : TabRefAt(pages[p], x) = TRef(S, s[i])
      BY <2>1 DEF PageFacts
    <2>3. <<p, x>> \in Shown /\ <<p, x>>[1] = p /\ <<p, x>>[2] = x
      BY <1>2
    <2>4. ShownRef(<<p, x>>) = TRef(S, s[i])
      BY <2>2 DEF ShownRef
    <2>5. QED BY <2>3, <2>4
  <1>7. QED BY <1>5, <1>6

LEMMA LineApart ==
    ASSUME NEW S, NEW M, NEW s, Line(S, M, s), NEW i \in 1..Cardinality(M), NEW j \in 1..Cardinality(M)
    PROVE  /\ TRef(S, s[i]) = TRef(S, s[j]) <=> i = j
           /\ WRef(S, s[i]) = WRef(S, s[j]) <=> s[i].window = s[j].window
           /\ GRef(S, s[i]) = GRef(S, s[j]) <=> s[i].group = s[j].group
           /\ GRef(S, s[i]) = {} <=> s[i].group = {}
  <1>line. LineFacts(S, M, s)
    BY LineIs
  <1>1. s[i] \in Range(S.baseline.tabs) /\ s[j] \in Range(S.baseline.tabs) /\ (s[i] = s[j] <=> i = j)
    BY <1>line DEF LineFacts
  <1>2. Proper(S)
    BY DEF Line
  <1>3. /\ TRef(S, s[i]) = TRef(S, s[j]) <=> s[i] = s[j]
        /\ WRef(S, s[i]) = WRef(S, s[j]) <=> s[i].window = s[j].window
        /\ GRef(S, s[i]) = GRef(S, s[j]) <=> s[i].group = s[j].group
        /\ GRef(S, s[i]) = {} <=> s[i].group = {}
    BY <1>1, <1>2, RefsApart
  <1>4. QED BY <1>1, <1>3

LEMMA ShownOnce ==
    ASSUME NEW S, NEW M, NEW s, Paged(S, M, s)
    PROVE  \A spot, other \in Shown : ShownRef(spot) = ShownRef(other) => spot = other
  <1>1. SUFFICES ASSUME NEW spot \in Shown, NEW other \in Shown, ShownRef(spot) = ShownRef(other)
                 PROVE  spot = other
    OBVIOUS
  <1>2. PICK i \in Section(S, Offset(S, spot[1])) :
            /\ spot[1] \in 1..Len(pages) /\ spot = <<spot[1], spot[2]>> /\ spot[2] \in Spots(pages[spot[1]])
            /\ ShownRef(spot) = TRef(S, s[i]) /\ i \in 1..Cardinality(M)
    BY ShownSpots
  <1>3. PICK j \in Section(S, Offset(S, other[1])) :
            /\ other[1] \in 1..Len(pages) /\ other = <<other[1], other[2]>> /\ other[2] \in Spots(pages[other[1]])
            /\ ShownRef(other) = TRef(S, s[j]) /\ j \in 1..Cardinality(M)
    BY ShownSpots
  <1>4. i = j
    <2>1. Line(S, M, s)
      BY DEF Paged
    <2>2. TRef(S, s[i]) = TRef(S, s[j]) <=> i = j
      BY <1>2, <1>3, <2>1, LineApart
    <2>3. QED BY <1>1, <1>2, <1>3, <2>2
  <1>5. spot[1] = other[1]
    BY <1>2, <1>3, <1>4, SectionsApart
  <1>6. TabRefAt(pages[spot[1]], spot[2]) = TabRefAt(pages[spot[1]], other[2])
    BY <1>1, <1>5 DEF ShownRef
  <1>7. PageFacts(S, M, s, Offset(S, spot[1]), pages[spot[1]])
    BY <1>2, PagedFacts
  <1>8. spot[2] = other[2]
    BY <1>2, <1>3, <1>5, <1>6, <1>7 DEF PageFacts
  <1>9. QED BY <1>2, <1>3, <1>5, <1>8

\* All has been seen once the last page ends where the matches end.
LEMMA SeenAll ==
    ASSUME NEW S, NEW M, NEW s, Paged(S, M, s)
    PROVE  /\ ShownTabs \subseteq {TRef(S, tab) : tab \in M}
           /\ Last(pages).next_cursor = {} <=> Cardinality(M) <= Len(pages) * S.limit
           /\ Last(pages).next_cursor = {} <=> ShownTabs = {TRef(S, tab) : tab \in M}
           /\ Last(pages).next_cursor = {} =>
                  \A tab \in M : \E spot \in Shown : ShownRef(spot) = TRef(S, tab)
  <1> DEFINE L == Cardinality(M)
             end == Len(pages) * S.limit
             all == {TRef(S, tab) : tab \in M}
  <1>1. L \in Nat /\ end \in Nat
    BY FS_CardinalityType DEF Paged, Line
  <1>2. Line(S, M, s)
    BY DEF Paged
  <1>line. LineFacts(S, M, s)
    BY <1>2, LineIs
  <1>3. (\A tab \in M : \E i \in 1..L : s[i] = tab) /\ (\A i \in 1..L : s[i] \in M)
    BY <1>line DEF LineFacts
  <1>4. Last(pages).next_cursor = IF end < L THEN {end} ELSE {}
    BY LastCursor
  <1>5. \A p \in 1..Len(pages) : \A i \in Section(S, Offset(S, p)) : i <= end /\ i \in 1..L
    BY LastCursor
  <1> HIDE DEF L, end
  <1>6. Last(pages).next_cursor = {} <=> L <= end
    BY <1>1, <1>4
  <1>7. ASSUME NEW ref \in ShownTabs
        PROVE  \E i \in 1..L : i <= end /\ ref = TRef(S, s[i])
    <2>1. PICK spot \in Shown : ref = ShownRef(spot)
      BY DEF ShownTabs
    <2>2. PICK i \in Section(S, Offset(S, spot[1])) :
              spot[1] \in 1..Len(pages) /\ ShownRef(spot) = TRef(S, s[i])
      BY ShownSpots
    <2>3. QED BY <1>5, <2>1, <2>2
  <1>8. ShownTabs \subseteq all
    BY <1>3, <1>7
  <1>9. ASSUME L <= end, NEW tab \in M PROVE \E spot \in Shown : ShownRef(spot) = TRef(S, tab)
    <2>1. PICK i \in 1..L : s[i] = tab
      BY <1>3
    <2>2. i <= end
      BY <1>1, <1>9
    <2>3. PICK p \in 1..Len(pages) : i \in Section(S, Offset(S, p))
      BY <2>2, SectionsCover DEF L, end
    <2>4. QED BY <2>1, <2>3, ShownSpots
  <1>10. ASSUME L <= end PROVE ShownTabs = all
    <2>1. all \subseteq ShownTabs
      BY <1>9, <1>10 DEF ShownTabs
    <2>2. QED BY <1>8, <2>1
  <1>11. ASSUME end < L PROVE ShownTabs # all
    <2>1. L \in 1..L
      BY <1>1, <1>11
    <2>2. TRef(S, s[L]) \in all
      BY <1>3, <2>1
    <2>3. ASSUME TRef(S, s[L]) \in ShownTabs PROVE FALSE
      <3>1. PICK i \in 1..L : i <= end /\ TRef(S, s[L]) = TRef(S, s[i])
        BY <1>7, <2>3
      <3>2. i = L
        BY <1>2, <2>1, <3>1, LineApart DEF L
      <3>3. QED BY <1>1, <1>11, <3>1, <3>2
    <2>4. QED BY <2>2, <2>3
  <1>12. L <= end \/ end < L
    BY <1>1
  <1>13. QED BY <1>6, <1>8, <1>9, <1>10, <1>11, <1>12 DEF L, end

LEMMA Partitioned ==
    ASSUME NEW s, Paged(Candidate, Matching, s)
    PROVE  PagesPartitionMatches
  <1> DEFINE S == Candidate
             M == Matching
  <1>1. \A tab : TRef(S, tab) = References.tabs[tab.key]
    BY CandidateRefs
  <1>2. MatchedRefs = {TRef(S, tab) : tab \in M}
    BY <1>1 DEF MatchedRefs
  <1> HIDE DEF S, M
  <1>3. \A spot, other \in Shown : ShownRef(spot) = ShownRef(other) => spot = other
    BY ShownOnce DEF S, M
  <1>4. ShownTabs \subseteq MatchedRefs /\ (Last(pages).next_cursor = {} <=> ShownTabs = MatchedRefs)
    BY <1>2, SeenAll DEF S, M
  <1>5. ASSUME Len(pages) > 1 PROVE TabRefs(Last(pages)) # {}
    <2> DEFINE K == Len(pages)
               off == Offset(S, K)
    <2>1. K \in 1..K /\ K # 1 /\ S.limit \in Nat \ {0} /\ Cardinality(M) \in Nat
      BY <1>5, FS_CardinalityType DEF Paged, Line, S, M
    <2>2. off \in 0..Cardinality(M) /\ off < Cardinality(M)
      BY <2>1 DEF Paged, S, M
    <2>3. SectionFacts(S, M, s, off) /\ PageFacts(S, M, s, off, pages[K])
      BY <2>1, PagedFacts DEF S, M
    <2>4. PageEnd(S, off) = IF off + S.limit <= Cardinality(M) THEN off + S.limit ELSE Cardinality(M)
      BY <2>3 DEF SectionFacts
    <2> HIDE DEF off, K
    <2>5. off + 1 \in Section(S, off)
      BY <2>1, <2>2, <2>4 DEF Section
    <2>6. PICK spot \in Spots(pages[K]) : TabRefAt(pages[K], spot) = TRef(S, s[off + 1])
      BY <2>3, <2>5 DEF PageFacts
    <2>7. Last(pages) = pages[K]
      BY LastCursor DEF S, M, K
    <2>8. QED BY <2>6, <2>7 DEF TabRefs
  <1>6. QED BY <1>3, <1>4, <1>5 DEF PagesPartitionMatches

LEMMA ObjectsOnce ==
    ASSUME NEW s, Paged(Candidate, Matching, s)
    PROVE  EachObjectOncePerPage
  <1>1. ASSUME NEW p \in DOMAIN pages
        PROVE  /\ \A v, w \in DOMAIN pages[p].windows : pages[p].windows[v].ref = pages[p].windows[w].ref => v = w
               /\ \A place, other \in Items(pages[p]) :
                      ItemAt(pages[p], place).group # {} /\ ItemAt(pages[p], other).group = ItemAt(pages[p], place).group
                          => place = other
    <2>1. p \in 1..Len(pages)
      BY DEF Paged
    <2>2. PageFacts(Candidate, Matching, s, Offset(Candidate, p), pages[p])
      BY <2>1, PagedFacts
    <2>3. QED BY <2>2 DEF PageFacts
  <1>2. QED BY <1>1 DEF EachObjectOncePerPage

LEMMA InPlace ==
    ASSUME NEW s, Paged(Candidate, Matching, s)
    PROVE  TabsStandInTheirPlace
  <1>1. ASSUME NEW spot \in Shown
        PROVE  \E tab \in Matching :
                   /\ ShownRef(spot) = References.tabs[tab.key]
                   /\ pages[spot[1]].windows[spot[2][1][1]].ref = References.windows[tab.window]
                   /\ ItemAt(pages[spot[1]], spot[2][1]).group = {References.groups[key] : key \in tab.group}
    <2>1. PICK i \in Section(Candidate, Offset(Candidate, spot[1])) :
              /\ ShownRef(spot) = TRef(Candidate, s[i])
              /\ ItemAt(pages[spot[1]], spot[2][1]).group = GRef(Candidate, s[i])
              /\ pages[spot[1]].windows[spot[2][1][1]].ref = WRef(Candidate, s[i])
              /\ s[i] \in Matching
      BY ShownSpots
    <2>2. QED BY <2>1, CandidateRefs
  <1>2. QED BY <1>1 DEF TabsStandInTheirPlace

LEMMA InOrderShown ==
    ASSUME NEW s, Paged(Candidate, Matching, s)
    PROVE  TabsStandInOrder
  <1> DEFINE S == Candidate
             M == Matching
             L == Cardinality(M)
             l(x) == WindowOf(baseline, x.window)
  <1>1. Line(S, M, s) /\ S.baseline = baseline /\ \A tab : TRef(S, tab) = References.tabs[tab.key]
    BY CandidateRefs DEF Paged
  <1> HIDE DEF S, M, L
  <1>line. LineFacts(S, M, s)
    BY <1>1, LineIs
  <1>2. /\ \A i \in 1..L : s[i] \in M /\ s[i] \in Range(baseline.tabs)
        /\ \A i, j \in 1..L : i < j => Before(baseline, s[i], s[j])
    BY <1>1, <1>line DEF LineFacts, L
  <1>3. AcceptedBaseline(baseline)
    BY <1>1 DEF Line, Proper
  <1>4. ASSUME NEW spot \in Shown, NEW other \in Shown, ShownBefore(spot, other)
        PROVE  \E i, j \in 1..L : i < j /\ ShownRef(spot) = TRef(S, s[i]) /\ ShownRef(other) = TRef(S, s[j])
    <2>1. PICK i \in Section(S, Offset(S, spot[1])) :
              /\ spot[1] \in 1..Len(pages) /\ spot[2] \in Spots(pages[spot[1]])
              /\ ShownRef(spot) = TRef(S, s[i]) /\ i \in 1..L
      BY ShownSpots DEF S, M, L
    <2>2. PICK j \in Section(S, Offset(S, other[1])) :
              /\ other[1] \in 1..Len(pages) /\ other[2] \in Spots(pages[other[1]])
              /\ ShownRef(other) = TRef(S, s[j]) /\ j \in 1..L
      BY ShownSpots DEF S, M, L
    <2>3. CASE spot[1] < other[1]
      <3>1. i < j
        BY <2>1, <2>2, <2>3, SectionsInOrder DEF S
      <3>2. QED BY <2>1, <2>2, <3>1
    <2>4. CASE spot[1] = other[1] /\ Precedes(spot[2], other[2])
      <3> DEFINE p == spot[1]
      <3>1. PageFacts(S, M, s, Offset(S, p), pages[p])
        BY <2>1, PagedFacts DEF S, M
      <3>2. PICK m \in Section(S, Offset(S, p)), o \in Section(S, Offset(S, p)) :
                /\ m < o /\ TabRefAt(pages[p], spot[2]) = TRef(S, s[m])
                /\ TabRefAt(pages[p], other[2]) = TRef(S, s[o])
        BY <2>1, <2>2, <2>4, <3>1 DEF PageFacts
      <3>3. m \in 1..L /\ o \in 1..L
        BY <2>1, LastCursor DEF S, M, L
      <3>4. ShownRef(spot) = TabRefAt(pages[p], spot[2]) /\ ShownRef(other) = TabRefAt(pages[p], other[2])
        BY <2>4 DEF ShownRef
      <3>5. QED BY <3>2, <3>3, <3>4
    <2>5. QED BY <1>4, <2>3, <2>4 DEF ShownBefore
  <1>5. ASSUME NEW x \in Range(baseline.tabs), NEW y \in Range(baseline.tabs), Before(baseline, x, y)
        PROVE  /\ x.window = y.window => x.index < y.index
               /\ x.window # y.window =>
                      (l(y).focused => l(x).focused) /\ (l(x).focused = l(y).focused => l(x).id < l(y).id)
    <2>1. /\ l(x).id \in Int /\ l(x).focused \in BOOLEAN
          /\ l(x).id = l(y).id => x.window = y.window
          /\ \/ l(x).focused /\ ~l(y).focused
             \/ l(x).focused = l(y).focused /\ l(x).id < l(y).id
             \/ l(x).focused = l(y).focused /\ l(x).id = l(y).id /\ x.index < y.index
      BY <1>3, <1>5, BeforeIs
    <2>2. x.window = y.window => l(x) = l(y)
      OBVIOUS
    <2> HIDE DEF l
    <2>3. QED BY <2>1, <2>2
  <1>6. ASSUME NEW spot \in Shown, NEW other \in Shown, ShownBefore(spot, other)
        PROVE  \E left, right \in M :
                   /\ ShownRef(spot) = References.tabs[left.key] /\ ShownRef(other) = References.tabs[right.key]
                   /\ left.window = right.window => left.index < right.index
                   /\ left.window # right.window =>
                          (l(right).focused => l(left).focused)
                          /\ (l(left).focused = l(right).focused => l(left).id < l(right).id)
    <2>1. PICK i \in 1..L, j \in 1..L :
              i < j /\ ShownRef(spot) = TRef(S, s[i]) /\ ShownRef(other) = TRef(S, s[j])
      BY <1>4, <1>6
    <2>2. s[i] \in M /\ s[j] \in M /\ s[i] \in Range(baseline.tabs) /\ s[j] \in Range(baseline.tabs)
          /\ Before(baseline, s[i], s[j])
      BY <1>2, <2>1
    <2>3. /\ s[i].window = s[j].window => s[i].index < s[j].index
          /\ s[i].window # s[j].window =>
                 (l(s[j]).focused => l(s[i]).focused)
                 /\ (l(s[i]).focused = l(s[j]).focused => l(s[i]).id < l(s[j]).id)
      BY <1>5, <2>2
    <2>4. ShownRef(spot) = References.tabs[s[i].key] /\ ShownRef(other) = References.tabs[s[j].key]
      BY <1>1, <2>1
    <2> HIDE DEF l
    <2>5. QED BY <2>2, <2>3, <2>4
  <1>7. QED BY <1>6 DEF TabsStandInOrder, M


\* What is marked partial is what lacks one of the matches.
LEMMA PartsAreExact ==
    ASSUME NEW s, Paged(Candidate, Matching, s)
    PROVE  PartialIsExact
  <1> DEFINE S == Candidate
             M == Matching
             L == Cardinality(M)
  <1>1. /\ S.references = References
        /\ \A tab : /\ WRef(S, tab) = References.windows[tab.window]
                    /\ GRef(S, tab) = {References.groups[key] : key \in tab.group}
                    /\ TRef(S, tab) = References.tabs[tab.key]
    BY CandidateRefs
  <1>2. Paged(S, M, s) /\ Line(S, M, s) /\ S.limit \in Nat
    BY DEF Paged
  <1> HIDE DEF S, M
  <1>line. LineFacts(S, M, s)
    BY <1>2, LineIs
  <1>3. /\ \A i \in 1..L : s[i] \in M /\ s[i] \in Range(S.baseline.tabs)
        /\ \A tab \in M : \E i \in 1..L : s[i] = tab
    BY <1>line DEF LineFacts
  <1>4. \A i \in 1..L : \A x, y \in s[i].group : x = y
    <2>1. WellTyped(S.baseline)
      BY <1>2 DEF Line, Proper, AcceptedBaseline
    <2>2. QED BY <1>3, <2>1, BaselineTypes
  <1>5. ASSUME NEW p \in DOMAIN pages, NEW w \in DOMAIN pages[p].windows
        PROVE  /\ pages[p].windows[w].partial <=>
                      Omits(pages[p], "window", pages[p].windows[w].ref, References.windows)
               /\ \A item \in DOMAIN pages[p].windows[w].items : \A ref \in pages[p].windows[w].items[item].group :
                      pages[p].windows[w].items[item].partial <=> Omits(pages[p], "group", ref, References.groups)
    <2> DEFINE P == pages[p]
               off == Offset(S, p)
               here == Section(S, off)
               page == PageKeys(S, off)
    <2>1. p \in 1..Len(pages)
      BY <1>2 DEF Paged
    <2>2. off \in 0..L
      BY <1>2, <2>1 DEF Paged
    <2>3. PageFacts(S, M, s, off, P) /\ SectionFacts(S, M, s, off)
      BY <1>2, <2>1, PagedFacts
    <2>4. here \subseteq 1..L
      BY <2>3 DEF SectionFacts
    <2>5. ASSUME NEW i \in 1..L PROVE TRef(S, s[i]) \in TabRefs(P) <=> i \in here
      <3>1. ASSUME i \in here PROVE TRef(S, s[i]) \in TabRefs(P)
        <4>1. PICK spot \in Spots(P) : TabRefAt(P, spot) = TRef(S, s[i])
          BY <2>3, <3>1 DEF PageFacts
        <4>2. QED BY <4>1 DEF TabRefs
      <3>2. ASSUME TRef(S, s[i]) \in TabRefs(P) PROVE i \in here
        <4>1. PICK spot \in Spots(P) : TabRefAt(P, spot) = TRef(S, s[i])
          BY <3>2 DEF TabRefs
        <4>2. PICK j \in here : TabRefAt(P, spot) = TRef(S, s[j])
          BY <2>3 DEF PageFacts
        <4>3. j \in 1..L
          BY <2>4
        <4>4. TRef(S, s[i]) = TRef(S, s[j]) <=> i = j
          BY <1>2, <4>3, LineApart
        <4>5. QED BY <4>1, <4>2, <4>4
      <3>3. QED BY <3>1, <3>2
    <2>6. ASSUME NEW field, NEW ref, NEW references
          PROVE  Omits(P, field, ref, references) <=>
                     \E i \in 1..L : /\ i \notin here
                                     /\ \E key \in (IF field = "window" THEN {s[i].window} ELSE s[i].group) :
                                            references[key] = ref
      <3>1. Omits(P, field, ref, references) <=>
                \E tab \in M : /\ TRef(S, tab) \notin TabRefs(P)
                               /\ \E key \in (IF field = "window" THEN {tab.window} ELSE tab.group) :
                                      references[key] = ref
        BY <1>1 DEF Omits, M
      <3>2. QED BY <1>3, <2>5, <3>1
    <2>7. ASSUME NEW field, NEW key
          PROVE  LacksSome(S, page, field, key) <=> \E i \in 1..L : i \notin here /\ s[i][field] = key
      BY <1>2, <2>2, LacksIsExact
    <2> HIDE DEF P, off, here, page
    <2>8. P.windows[w].partial <=> Omits(P, "window", P.windows[w].ref, References.windows)
      <3>1. w \in DOMAIN P.windows
        BY DEF P
      <3>2. PICK i \in here : /\ P.windows[w].ref = WRef(S, s[i])
                              /\ P.windows[w].partial = LacksSome(S, page, "window", s[i].window)
        BY <2>3, <3>1 DEF PageFacts, here, page
      <3>3. i \in 1..L
        BY <2>4
      <3>4. ASSUME NEW j \in 1..L
            PROVE  References.windows[s[j].window] = P.windows[w].ref <=> s[j].window = s[i].window
        <4>1. WRef(S, s[j]) = WRef(S, s[i]) <=> s[j].window = s[i].window
          BY <1>2, <3>3, LineApart
        <4>2. QED BY <1>1, <3>2, <4>1
      <3>5. Omits(P, "window", P.windows[w].ref, References.windows) <=>
                \E j \in 1..L : j \notin here /\ s[j].window = s[i].window
        <4>1. Omits(P, "window", P.windows[w].ref, References.windows) <=>
                  \E j \in 1..L : /\ j \notin here
                                  /\ \E key \in {s[j].window} : References.windows[key] = P.windows[w].ref
          BY <2>6
        <4>2. QED BY <3>4, <4>1
      <3>6. LacksSome(S, page, "window", s[i].window) <=> \E j \in 1..L : j \notin here /\ s[j].window = s[i].window
        <4>1. LacksSome(S, page, "window", s[i].window) <=>
                  \E j \in 1..L : j \notin here /\ s[j]["window"] = s[i].window
          BY <2>7
        <4>2. QED BY <4>1
      <3>7. QED BY <3>2, <3>5, <3>6
    <2>9. ASSUME NEW item \in DOMAIN P.windows[w].items, NEW ref \in P.windows[w].items[item].group
          PROVE  P.windows[w].items[item].partial <=> Omits(P, "group", ref, References.groups)
      <3> DEFINE place == <<w, item>>
      <3>1. place \in Items(P) /\ ItemAt(P, place) = P.windows[w].items[item]
        BY DEF Items, ItemAt, P
      <3> HIDE DEF place
      <3>2. PICK i \in here : /\ ItemAt(P, place).group = GRef(S, s[i])
                              /\ ItemAt(P, place).partial =
                                     (GRef(S, s[i]) # {} /\ LacksSome(S, page, "group", s[i].group))
        BY <2>3, <3>1 DEF PageFacts, here, page
      <3>3. i \in 1..L /\ ref \in GRef(S, s[i])
        BY <2>4, <2>9, <3>1, <3>2
      <3>4. ItemAt(P, place).partial <=> LacksSome(S, page, "group", s[i].group)
        <4>1. GRef(S, s[i]) # {}
          BY <3>3
        <4>2. ItemAt(P, place).partial = (GRef(S, s[i]) # {} /\ LacksSome(S, page, "group", s[i].group))
          BY <3>2
        <4>3. QED BY <4>1, <4>2, Zenon
      <3>5. ASSUME NEW j \in 1..L
            PROVE  (\E key \in s[j].group : References.groups[key] = ref) <=> s[j].group = s[i].group
        <4>1. GRef(S, s[j]) = {References.groups[key] : key \in s[j].group}
              /\ GRef(S, s[i]) = {References.groups[key] : key \in s[i].group}
          BY <1>1
        <4>2. (GRef(S, s[j]) = GRef(S, s[i]) <=> s[j].group = s[i].group) /\ (\A x, y \in s[j].group : x = y)
              /\ (\A x, y \in s[i].group : x = y)
          BY <1>2, <1>4, <3>3, LineApart
        <4>3. ASSUME NEW key \in s[j].group, References.groups[key] = ref PROVE s[j].group = s[i].group
          <5>1. GRef(S, s[j]) = {ref}
            BY <4>1, <4>2, <4>3
          <5>2. GRef(S, s[i]) = {ref}
            BY <3>3, <4>1, <4>2
          <5>3. QED BY <4>2, <5>1, <5>2
        <4>4. ASSUME s[j].group = s[i].group PROVE \E key \in s[j].group : References.groups[key] = ref
          BY <3>3, <4>1, <4>4
        <4>5. QED BY <4>3, <4>4
      <3>6. Omits(P, "group", ref, References.groups) <=>
                \E j \in 1..L : j \notin here /\ s[j].group = s[i].group
        <4>1. Omits(P, "group", ref, References.groups) <=>
                  \E j \in 1..L : j \notin here /\ \E key \in s[j].group : References.groups[key] = ref
          BY <2>6
        <4>2. QED BY <3>5, <4>1
      <3>7. LacksSome(S, page, "group", s[i].group) <=> \E j \in 1..L : j \notin here /\ s[j].group = s[i].group
        <4>1. LacksSome(S, page, "group", s[i].group) <=>
                  \E j \in 1..L : j \notin here /\ s[j]["group"] = s[i].group
          BY <2>7
        <4>2. QED BY <4>1
      <3>8. QED BY <3>1, <3>4, <3>6, <3>7
    <2>10. QED BY <2>8, <2>9 DEF P
  <1>6. QED BY <1>5 DEF PartialIsExact

\* Sets of as many elements, which the same names tell apart.
SameNames(A, B, f, g) ==
    /\ \A x, y \in A : f[x] = f[y] => x = y
    /\ \A x, y \in B : g[x] = g[y] => x = y
    /\ \A x \in A : \E y \in B : g[y] = f[x]
    /\ \A y \in B : \E x \in A : f[x] = g[y]

LEMMA SameSize ==
    ASSUME NEW A, IsFiniteSet(A), NEW B, NEW f, NEW g, SameNames(A, B, f, g)
    PROVE  Cardinality(A) = Cardinality(B)
  <1> DEFINE h == [x \in A |-> CHOOSE y \in B : g[y] = f[x]]
  <1>1. \A x \in A : h[x] \in B /\ g[h[x]] = f[x]
    BY DEF SameNames
  <1>2. h \in [A -> B]
    BY <1>1
  <1> HIDE DEF h
  <1>3. \A x, y \in A : h[x] = h[y] => x = y
    BY <1>1 DEF SameNames
  <1>4. \A y \in B : \E x \in A : h[x] = y
    BY <1>1 DEF SameNames
  <1>5. h \in Bijection(A, B)
    BY <1>2, <1>3, <1>4 DEF Bijection, Injection, Surjection, IsInjective
  <1>6. ExistsBijection(A, B)
    BY <1>5 DEF ExistsBijection
  <1>7. QED BY <1>6, FS_Bijection

\* What the windows and the groups of the pages are, once all has been seen.
LEMMA SeenObjects ==
    ASSUME NEW S, NEW M, NEW s, Paged(S, M, s), Last(pages).next_cursor = {}
    PROVE  /\ UNION {{w.ref : w \in Range(pages[p].windows)} : p \in DOMAIN pages} = {WRef(S, tab) : tab \in M}
           /\ UNION {UNION {ItemAt(pages[p], place).group : place \in Items(pages[p])} : p \in DOMAIN pages}
                  = UNION {GRef(S, tab) : tab \in M}
  <1> DEFINE L == Cardinality(M)
             here(p) == Section(S, Offset(S, p))
             windows == UNION {{w.ref : w \in Range(pages[p].windows)} : p \in DOMAIN pages}
             groups == UNION {UNION {ItemAt(pages[p], place).group : place \in Items(pages[p])} : p \in DOMAIN pages}
  <1>1. Line(S, M, s) /\ DOMAIN pages = 1..Len(pages)
    BY DEF Paged
  <1>line. LineFacts(S, M, s)
    BY <1>1, LineIs
  <1>2. (\A i \in 1..L : s[i] \in M) /\ (\A tab \in M : \E i \in 1..L : s[i] = tab)
    BY <1>line DEF LineFacts
  <1>3. \A p \in 1..Len(pages) : \A i \in here(p) : i \in 1..L
    BY LastCursor
  <1>4. ASSUME NEW p \in 1..Len(pages) PROVE PageFacts(S, M, s, Offset(S, p), pages[p])
    BY PagedFacts
  <1>5. ASSUME NEW ref \in windows PROVE \E tab \in M : ref = WRef(S, tab)
    <2>page. PICK p \in 1..Len(pages) : ref \in {w.ref : w \in Range(pages[p].windows)}
      BY <1>1
    <2>1. PICK v \in DOMAIN pages[p].windows : ref = pages[p].windows[v].ref
      BY <2>page DEF Range
    <2>2. PICK i \in here(p) : pages[p].windows[v].ref = WRef(S, s[i])
      BY <1>4, <2>1 DEF PageFacts
    <2>3. QED BY <1>2, <1>3, <2>1, <2>2
  <1>6. ASSUME NEW ref \in groups PROVE \E tab \in M : ref \in GRef(S, tab)
    <2>page. PICK p \in 1..Len(pages) : ref \in UNION {ItemAt(pages[p], place).group : place \in Items(pages[p])}
      BY <1>1
    <2>1. PICK place \in Items(pages[p]) : ref \in ItemAt(pages[p], place).group
      BY <2>page
    <2>facts. PageFacts(S, M, s, Offset(S, p), pages[p])
      BY <1>4
    <2>2. PICK i \in here(p) : ItemAt(pages[p], place).group = GRef(S, s[i])
      BY <2>1, <2>facts DEF PageFacts
    <2>3. QED BY <1>2, <1>3, <2>1, <2>2
  <1>7. ASSUME NEW tab \in M PROVE WRef(S, tab) \in windows /\ GRef(S, tab) \subseteq groups
    <2>1. PICK spot \in Shown : ShownRef(spot) = TRef(S, tab)
      BY SeenAll
    <2>2. PICK i \in here(spot[1]) :
              /\ spot[1] \in 1..Len(pages) /\ ShownRef(spot) = TRef(S, s[i])
              /\ ItemAt(pages[spot[1]], spot[2][1]).group = GRef(S, s[i])
              /\ pages[spot[1]].windows[spot[2][1][1]].ref = WRef(S, s[i])
              /\ spot[2][1] \in Items(pages[spot[1]]) /\ spot[2][1][1] \in DOMAIN pages[spot[1]].windows
      BY ShownSpots
    <2>3. PICK j \in 1..L : s[j] = tab
      BY <1>2
    <2>4. i \in 1..L
      BY <1>3, <2>2
    <2>5. TRef(S, s[i]) = TRef(S, s[j]) <=> i = j
      BY <1>1, <2>4, LineApart
    <2>6. s[i] = tab
      BY <2>1, <2>2, <2>3, <2>5
    <2> DEFINE p == spot[1]
               x == spot[2][1]
    <2>7. /\ p \in DOMAIN pages /\ x \in Items(pages[p]) /\ x[1] \in DOMAIN pages[p].windows
          /\ ItemAt(pages[p], x).group = GRef(S, tab) /\ pages[p].windows[x[1]].ref = WRef(S, tab)
      BY <1>1, <2>2, <2>6
    <2> HIDE DEF p, x
    <2>8. pages[p].windows[x[1]] \in Range(pages[p].windows)
      BY <2>7 DEF Range
    <2>9. WRef(S, tab) \in windows
      BY <2>7, <2>8
    <2>10. GRef(S, tab) \subseteq groups
      BY <2>7
    <2>11. QED BY <2>9, <2>10
  <1> HIDE DEF windows, groups
  <1>8. windows = {WRef(S, tab) : tab \in M}
    BY <1>5, <1>7
  <1>9. groups = UNION {GRef(S, tab) : tab \in M}
    BY <1>6, <1>7
  <1>10. QED BY <1>8, <1>9 DEF windows, groups

LEMMA FiniteUnion ==
    ASSUME NEW M, IsFiniteSet(M), \A tab \in M : \A x, y \in tab.group : x = y
    PROVE  IsFiniteSet(UNION {tab.group : tab \in M}) /\ IsFiniteSet({tab.window : tab \in M})
  <1> DEFINE G == UNION {tab.group : tab \in M}
             W == {tab.window : tab \in M}
             H == {tab \in M : tab.group # {}}
             f == [tab \in H |-> CHOOSE key \in tab.group : TRUE]
             g == [tab \in M |-> tab.window]
  <1>1. IsFiniteSet(H)
    BY FS_Subset
  <1>2. \A tab \in H : tab \in M /\ f[tab] \in tab.group /\ f[tab] \in G
    OBVIOUS
  <1>3. \A key \in G : \E tab \in H : f[tab] = key
    <2>1. ASSUME NEW key \in G PROVE \E tab \in H : f[tab] = key
      <3>1. PICK tab \in M : key \in tab.group
        OBVIOUS
      <3>2. tab \in H
        BY <3>1
      <3>3. f[tab] \in tab.group
        BY <1>2, <3>2
      <3>4. QED BY <3>1, <3>2, <3>3
    <2>2. QED BY <2>1
  <1>4. f \in [H -> G]
    BY <1>2
  <1> HIDE DEF f
  <1>5. f \in Surjection(H, G)
    BY <1>3, <1>4 DEF Surjection
  <1>6. IsFiniteSet(G)
    BY <1>1, <1>5, FS_Surjection
  <1>7. g \in Surjection(M, W)
    BY DEF Surjection
  <1>8. IsFiniteSet(W)
    BY <1>7, FS_Surjection
  <1>9. QED BY <1>6, <1>8

\* What a page shows of a tab is a projection of that tab.
LEMMA ShownProjection ==
    ASSUME NEW S, NEW M, NEW s, Paged(S, M, s), NEW spot \in Shown
    PROVE  \E tab \in Range(S.baseline.tabs) : ShownTab(spot) = ProjectTab(tab, S.detail, S.references)
  <1> DEFINE P == pages[spot[1]]
             W == P.windows
             x == spot[2]
             R == {S.references.windows[key] : key \in Range(Keys(S.baseline.windows))}
             G == {GRef(S, tab) : tab \in Range(S.baseline.tabs)}
             T == {ProjectTab(tab, S.detail, S.references) : tab \in Range(S.baseline.tabs)}
  <1>1. spot[1] \in 1..Len(pages) /\ x \in Spots(P)
    BY ShownSpots
  <1>2. W \in Shapes(S)
    <2>1. PageFacts(S, M, s, Offset(S, spot[1]), P)
      BY <1>1, PagedFacts
    <2>2. QED BY <2>1 DEF PageFacts
  <1>3. W \in Seq(WindowType(R, G, T))
    BY <1>2 DEF Shapes
  <1>4. x \in SpotsIn(W)
    BY <1>1, PlacesOfPage
  <1>5. ShownTab(spot) = At(W, x[1]).tabs[x[2]]
    BY PlacesOfPage DEF ShownTab
  <1> HIDE DEF P, W, x, R, G, T
  <1>6. x[1] \in Places(W) /\ x[2] \in DOMAIN At(W, x[1]).tabs
    BY <1>4, PlacesAre
  <1>7. x[1][1] \in DOMAIN W /\ x[1][2] \in DOMAIN W[x[1][1]].items
    BY <1>6, PlacesAre
  <1>8. W[x[1][1]].items \in Seq(ItemType(G, T))
    <2>1. W[x[1][1]] \in WindowType(R, G, T)
      BY <1>3, <1>7
    <2>2. QED BY <2>1 DEF WindowType
  <1>9. At(W, x[1]).tabs \in Seq(T)
    <2>1. At(W, x[1]) \in ItemType(G, T)
      BY <1>7, <1>8 DEF At
    <2>2. QED BY <2>1 DEF ItemType
  <1>10. ShownTab(spot) \in T
    BY <1>5, <1>6, <1>9
  <1>11. QED BY <1>10 DEF T

LEMMA ShownState ==
    ASSUME NEW S, NEW M, NEW s, Paged(S, M, s), NEW spot \in Shown, NEW tab \in M,
           ShownRef(spot) = TRef(S, tab)
    PROVE  ShownTab(spot).discarded = tab.discarded
  <1>1. PICK other \in Range(S.baseline.tabs) : ShownTab(spot) = ProjectTab(other, S.detail, S.references)
    BY ShownProjection
  <1>2. ShownTab(spot).ref = TRef(S, other) /\ ShownTab(spot).discarded = other.discarded
    BY <1>1 DEF ProjectTab, TRef
  <1>3. ShownRef(spot) = ShownTab(spot).ref
    BY DEF ShownRef, TabRefAt, ShownTab
  <1>4. Proper(S) /\ tab \in Range(S.baseline.tabs)
    BY DEF Paged, Line
  <1>5. other = tab
    <2>1. TRef(S, other) = TRef(S, tab) <=> other = tab
      BY <1>4, RefsApart
    <2>2. QED BY <1>2, <1>3, <2>1
  <1>6. QED BY <1>2, <1>5

LEMMA CountsAgree ==
    ASSUME NEW s, Paged(Candidate, Matching, s)
    PROVE  CountsAgreeWithPages
  <1> SUFFICES ASSUME Last(pages).next_cursor = {}
               PROVE  LET answer == Counts(baseline, MatchedTabs(baseline, References, params))
                          windows == UNION {{w.ref : w \in Range(pages[p].windows)} : p \in DOMAIN pages}
                          groups == UNION {UNION {ItemAt(pages[p], place).group : place \in Items(pages[p])} : p \in DOMAIN pages}
                      IN /\ answer.tab_count = Cardinality(Shown)
                         /\ answer.window_count = Cardinality(windows)
                         /\ answer.group_count = Cardinality(groups)
                         /\ answer.discarded_tab_count = Cardinality({spot \in Shown : ShownTab(spot).discarded})
    BY DEF CountsAgreeWithPages
  <1> DEFINE S == Candidate
             M == Matching
             L == Cardinality(M)
             matched == MatchedTabs(baseline, References, params)
             windows == UNION {{w.ref : w \in Range(pages[p].windows)} : p \in DOMAIN pages}
             groups == UNION {UNION {ItemAt(pages[p], place).group : place \in Items(pages[p])} : p \in DOMAIN pages}
             answer == Counts(baseline, matched)
  <1>1. /\ S.baseline = baseline /\ S.matched_tab_keys = matched
        /\ \A tab : /\ WRef(S, tab) = References.windows[tab.window]
                    /\ GRef(S, tab) = {References.groups[key] : key \in tab.group}
    BY CandidateRefs
  <1>2. Paged(S, M, s) /\ Line(S, M, s) /\ IsFiniteSet(M) /\ M \subseteq Range(S.baseline.tabs) /\ Proper(S)
    BY DEF Paged, Line
  <1> HIDE DEF S, M
  <1>line. LineFacts(S, M, s)
    BY <1>2, LineIs
  <1>3. /\ DOMAIN matched = 1..L
        /\ \A i \in 1..L : s[i] \in M /\ matched[i] = s[i].key /\ TabOf(baseline, s[i].key) = s[i]
        /\ \A tab \in M : \E i \in 1..L : s[i] = tab
    BY <1>1, <1>line DEF LineFacts
  <1>4. \A tab \in M : \A x, y \in tab.group : x = y
    <2>1. WellTyped(S.baseline)
      BY <1>2 DEF Proper, AcceptedBaseline
    <2>2. QED BY <1>2, <2>1, BaselineTypes
  <1>5. {TabOf(baseline, key) : key \in Range(matched)} = M
    <2> HIDE DEF matched, L
    <2>1. \A key \in Range(matched) : TabOf(baseline, key) \in M
      BY <1>3 DEF Range
    <2>2. \A tab \in M : \E key \in Range(matched) : TabOf(baseline, key) = tab
      BY <1>3 DEF Range
    <2>3. QED BY <2>1, <2>2
  <1>6. /\ answer.tab_count = Cardinality(M)
        /\ answer.window_count = Cardinality({tab.window : tab \in M})
        /\ answer.group_count = Cardinality(UNION {tab.group : tab \in M})
        /\ answer.discarded_tab_count = Cardinality({tab \in M : tab.discarded})
    <2> HIDE DEF matched
    <2>1. answer = [window_count |-> Cardinality({tab.window : tab \in M}),
                    group_count |-> Cardinality(UNION {tab.group : tab \in M}),
                    tab_count |-> Cardinality(M),
                    discarded_tab_count |-> Cardinality({tab \in M : tab.discarded})]
      BY <1>5 DEF Counts, Quantify
    <2>2. QED BY <2>1
  <1>7. /\ windows = {WRef(S, tab) : tab \in M}
        /\ groups = UNION {GRef(S, tab) : tab \in M}
    BY <1>2, SeenObjects
  <1>8. IsFiniteSet({tab.window : tab \in M}) /\ IsFiniteSet(UNION {tab.group : tab \in M})
    BY <1>2, <1>4, FiniteUnion
  <1>9. \A x, y \in M : /\ WRef(S, x) = WRef(S, y) <=> x.window = y.window
                        /\ GRef(S, x) = GRef(S, y) <=> x.group = y.group
                        /\ TRef(S, x) = TRef(S, y) <=> x = y
    BY <1>2, RefsApart
  <1> HIDE DEF answer, windows, groups, matched
  <1>10. Cardinality(M) = Cardinality(Shown)
    <2> DEFINE C == {TRef(S, tab) : tab \in M}
               f == [tab \in M |-> TRef(S, tab)]
               g == [spot \in Shown |-> ShownRef(spot)]
    <2>1. f \in [M -> C] /\ \A x, y \in M : f[x] = f[y] => x = y
      BY <1>9
    <2>2. \A x, y \in Shown : g[x] = g[y] => x = y
      <3>1. \A x, y \in Shown : ShownRef(x) = ShownRef(y) => x = y
        BY <1>2, ShownOnce
      <3>2. QED BY <3>1
    <2>3. ShownTabs \subseteq C /\ \A tab \in M : \E spot \in Shown : ShownRef(spot) = TRef(S, tab)
      BY <1>2, SeenAll
    <2>4. \A spot \in Shown : g[spot] = ShownRef(spot) /\ ShownRef(spot) \in C
      BY <2>3 DEF ShownTabs
    <2>5. \A x \in M : \E y \in Shown : g[y] = f[x]
      BY <2>3, <2>4
    <2>6. \A y \in Shown : \E x \in M : f[x] = g[y]
      BY <2>4
    <2> HIDE DEF f, g, C
    <2>8. SameNames(M, Shown, f, g)
      BY <2>1, <2>2, <2>5, <2>6 DEF SameNames
    <2>9. QED BY <1>2, <2>8, SameSize
  <1>11. Cardinality({tab.window : tab \in M}) = Cardinality(windows)
    <2> DEFINE A == {tab.window : tab \in M}
               f == [key \in A |-> References.windows[key]]
               g == [ref \in windows |-> ref]
               C == windows
    <2>1. \A tab \in M : tab.window \in A /\ f[tab.window] = WRef(S, tab)
      BY <1>1
    <2>2. \A key \in A : \E tab \in M : key = tab.window
      OBVIOUS
    <2>3. \A ref \in windows : g[ref] = ref /\ \E tab \in M : ref = WRef(S, tab)
      BY <1>7
    <2>4. \A tab \in M : WRef(S, tab) \in windows
      BY <1>7
    <2>5. f \in [A -> C]
      <3>1. \A key \in A : References.windows[key] \in windows
        BY <1>1, <2>2, <2>4
      <3>2. QED BY <3>1
    <2>6. g \in [windows -> C]
      OBVIOUS
    <2> HIDE DEF f, g, A, C
    <2>7. \A x, y \in A : f[x] = f[y] => x = y
      BY <1>9, <2>1, <2>2
    <2>8. \A x \in A : \E y \in windows : g[y] = f[x]
      BY <2>1, <2>2, <2>3, <2>4
    <2>9. \A y \in windows : \E x \in A : f[x] = g[y]
      BY <2>1, <2>3
    <2>10. \A x, y \in windows : g[x] = g[y] => x = y
      BY <2>3
    <2>11. IsFiniteSet(A)
      BY <1>8 DEF A
    <2>12. SameNames(A, windows, f, g)
      BY <2>7, <2>8, <2>9, <2>10 DEF SameNames
    <2>size. Cardinality(A) = Cardinality(windows)
      BY <2>11, <2>12, SameSize
    <2>13. QED BY <2>size DEF A
  <1>12. Cardinality(UNION {tab.group : tab \in M}) = Cardinality(groups)
    <2> DEFINE A == UNION {tab.group : tab \in M}
               f == [key \in A |-> References.groups[key]]
               g == [ref \in groups |-> ref]
               C == groups
    <2>1. \A tab \in M : \A key \in tab.group : key \in A /\ f[key] = References.groups[key]
                             /\ tab.group = {key} /\ GRef(S, tab) = {f[key]}
      <3>1. ASSUME NEW tab \in M, NEW key \in tab.group
            PROVE  key \in A /\ f[key] = References.groups[key] /\ tab.group = {key} /\ GRef(S, tab) = {f[key]}
        <4>1. key \in A /\ tab.group = {key}
          BY <1>4, <3>1
        <4>2. f[key] = References.groups[key]
          BY <4>1
        <4>3. GRef(S, tab) = {References.groups[k] : k \in tab.group}
          BY <1>1
        <4> HIDE DEF f
        <4>4. GRef(S, tab) = {f[key]}
          BY <4>1, <4>2, <4>3
        <4>5. QED BY <4>1, <4>2, <4>4
      <3>2. QED BY <3>1
    <2>2. \A key \in A : \E tab \in M : key \in tab.group
      OBVIOUS
    <2>3. \A ref : ref \in groups <=> \E tab \in M : ref \in GRef(S, tab)
      BY <1>7
    <2>4. \A ref \in groups : g[ref] = ref
      OBVIOUS
    <2>5. \A tab \in M : tab.group = {} => GRef(S, tab) = {}
      BY <1>1
    <2>6. f = [key \in A |-> f[key]] /\ g \in [groups -> C]
      OBVIOUS
    <2> HIDE DEF f, g, A
    <2>7. \A key \in A : f[key] \in groups
      BY <2>1, <2>2, <2>3
    <2>8. f \in [A -> C]
      BY <2>6, <2>7
    <2> HIDE DEF C
    <2>9. ASSUME NEW x \in A, NEW y \in A, f[x] = f[y] PROVE x = y
      <3>1. PICK tab \in M : x \in tab.group
        BY <2>2
      <3>2. PICK other \in M : y \in other.group
        BY <2>2
      <3>3. tab.group = {x} /\ GRef(S, tab) = {f[x]} /\ other.group = {y} /\ GRef(S, other) = {f[y]}
        <4>1. tab.group = {x} /\ GRef(S, tab) = {f[x]}
          BY <2>1, <3>1
        <4>2. other.group = {y} /\ GRef(S, other) = {f[y]}
          BY <2>1, <3>2
        <4>3. QED BY <4>1, <4>2
      <3>4. tab.group = other.group
        BY <1>9, <2>9, <3>3
      <3>5. QED BY <3>3, <3>4
    <2>10. \A x \in A : \E y \in groups : g[y] = f[x]
      BY <2>4, <2>7
    <2>11. \A y \in groups : \E x \in A : f[x] = g[y]
      <3>1. ASSUME NEW y \in groups PROVE \E x \in A : f[x] = g[y]
        <4>1. PICK tab \in M : y \in GRef(S, tab)
          BY <2>3
        <4>2. PICK key : key \in tab.group
          BY <2>5, <4>1
        <4>3. key \in A /\ y = f[key]
          BY <2>1, <4>1, <4>2
        <4>4. QED BY <2>4, <4>3
      <3>2. QED BY <3>1
    <2>12. \A x, y \in groups : g[x] = g[y] => x = y
      BY <2>4
    <2>13. IsFiniteSet(A)
      BY <1>8 DEF A
    <2>14. SameNames(A, groups, f, g)
      BY <2>9, <2>10, <2>11, <2>12 DEF SameNames
    <2>size. Cardinality(A) = Cardinality(groups)
      BY <2>13, <2>14, SameSize
    <2>15. QED BY <2>size DEF A
  <1>13. Cardinality({tab \in M : tab.discarded}) = Cardinality({spot \in Shown : ShownTab(spot).discarded})
    <2> DEFINE A == {tab \in M : tab.discarded}
               B == {spot \in Shown : ShownTab(spot).discarded}
               f == [tab \in M |-> TRef(S, tab)]
               g == [spot \in Shown |-> ShownRef(spot)]
    <2>1. \A x, y \in A : f[x] = f[y] => x = y
      BY <1>9
    <2>2. \A x, y \in B : g[x] = g[y] => x = y
      <3>1. \A x, y \in Shown : ShownRef(x) = ShownRef(y) => x = y
        BY <1>2, ShownOnce
      <3>2. QED BY <3>1
    <2>3. \A spot \in Shown, tab \in M :
              ShownRef(spot) = TRef(S, tab) => ShownTab(spot).discarded = tab.discarded
      BY <1>2, ShownState
    <2>4. ASSUME NEW tab \in A PROVE \E spot \in B : g[spot] = f[tab]
      <3>1. PICK spot \in Shown : ShownRef(spot) = TRef(S, tab)
        BY <1>2, SeenAll
      <3>2. ShownTab(spot).discarded = tab.discarded /\ tab.discarded
        BY <2>3, <3>1
      <3>3. QED BY <3>1, <3>2
    <2>5. ASSUME NEW spot \in B PROVE \E tab \in A : f[tab] = g[spot]
      <3>1. PICK tab \in M : ShownRef(spot) = TRef(S, tab)
        <4>1. ShownTabs \subseteq {TRef(S, tab) : tab \in M}
          BY <1>2, SeenAll
        <4>2. ShownRef(spot) \in ShownTabs
          BY DEF ShownTabs
        <4>3. QED BY <4>1, <4>2
      <3>2. ShownTab(spot).discarded = tab.discarded /\ ShownTab(spot).discarded
        BY <2>3, <3>1
      <3>3. QED BY <3>1, <3>2
    <2>6. IsFiniteSet(A)
      BY <1>2, FS_Subset
    <2> HIDE DEF f, g, A, B
    <2>7. SameNames(A, B, f, g)
      BY <2>1, <2>2, <2>4, <2>5 DEF SameNames
    <2>8. Cardinality(A) = Cardinality(B)
      BY <2>6, <2>7, SameSize
    <2>9. QED BY <2>8 DEF A, B
  <1>14. /\ answer.tab_count = Cardinality(Shown) /\ answer.window_count = Cardinality(windows)
         /\ answer.group_count = Cardinality(groups)
         /\ answer.discarded_tab_count = Cardinality({spot \in Shown : ShownTab(spot).discarded})
    BY <1>6, <1>10, <1>11, <1>12, <1>13
  <1>15. QED BY <1>14 DEF answer, windows, groups, matched

-----------------------------------------------------------------------------
(* The invariant *)

\* A snapshot is the candidate of a call with valid arguments and an accepted answer, and
\* the pages that the client has seen are its first ones.
PagesInv ==
    /\ WellTyped(baseline) /\ DOMAIN params = Fields /\ outcome \in Outcomes
    /\ outcome = "calling" => snapshot = {}
    /\ snapshot = {} => pages = <<>>
    /\ snapshot # {} =>
           /\ snapshot = {Candidate}
           /\ AcceptedBaseline(baseline)
           /\ ValidParams(params) /\ params.cursor = {}
           /\ pages \in Seq(Range(pages)) /\ pages # <<>>
           /\ \A p \in 1..Len(pages) :
                  /\ pages[p] = RenderPage(Candidate, Offset(Candidate, p))
                  /\ p # 1 => Offset(Candidate, p) < Len(Candidate.matched_tab_keys)

LEMMA LimitIsPositive ==
    ASSUME ValidParams(params), params.cursor = {}
    PROVE  Limit(params) \in Nat \ {0}
  <1>1. MAX_LIMIT \in Nat /\ DEFAULT_LIMIT \in 1..MAX_LIMIT
    BY RulesAssumption
  <1>2. \A limit \in params.limit : limit \in 1..MAX_LIMIT
    BY DEF ValidParams
  <1>3. Limit(params) \in 1..MAX_LIMIT
    BY <1>1, <1>2 DEF Limit
  <1>4. QED BY <1>1, <1>3

LEMMA ArePaged ==
    ASSUME PagesInv, snapshot # {}
    PROVE  \E s : Paged(Candidate, Matching, s)
  <1> DEFINE S == Candidate
             M == Matching
  <1>1. /\ AcceptedBaseline(baseline) /\ ValidParams(params) /\ params.cursor = {}
        /\ pages \in Seq(Range(pages)) /\ pages # <<>>
        /\ \A p \in 1..Len(pages) :
               /\ pages[p] = RenderPage(S, Offset(S, p))
               /\ p # 1 => Offset(S, p) < Len(S.matched_tab_keys)
    BY DEF PagesInv
  <1>2. S = StoredSnapshot(baseline, Refs(baseline), params)
    BY CandidateRefs DEF Candidate
  <1>3. M = {tab \in Range(baseline.tabs) : Matches(tab, Refs(baseline), params)}
    BY CandidateRefs DEF Matching
  <1>4. S.limit = Limit(params) /\ S.cursors = PrepareCursors(S.matched_tab_keys, S.limit)
    BY CandidateRefs
  <1> HIDE DEF S, M
  <1>5. PICK s : Line(S, M, s)
    BY <1>1, <1>2, <1>3, MatchedLine
  <1>6. S.limit \in Nat \ {0}
    BY <1>1, <1>4, LimitIsPositive
  <1>line. LineFacts(S, M, s)
    BY <1>5, LineIs
  <1>7. Cardinality(M) \in Nat /\ Len(S.matched_tab_keys) = Cardinality(M)
    BY <1>line DEF LineFacts
  <1>8. Len(pages) \in Nat \ {0} /\ DOMAIN pages = 1..Len(pages)
    BY <1>1
  <1>9. ASSUME NEW p \in 1..Len(pages)
        PROVE  Offset(S, p) \in 0..Cardinality(M) /\ (p # 1 => Offset(S, p) < Cardinality(M))
    <2>1. Offset(S, p) \in Nat
      <3>1. p - 1 \in Nat
        BY <1>8
      <3>2. QED BY <1>6, <3>1 DEF Offset
    <2>2. p = 1 => Offset(S, p) = 0
      BY <1>6 DEF Offset
    <2>3. p # 1 => Offset(S, p) < Cardinality(M)
      BY <1>1, <1>7
    <2>4. QED BY <1>7, <2>1, <2>2, <2>3
  <1>10. Paged(S, M, s)
    BY <1>1, <1>4, <1>5, <1>6, <1>8, <1>9 DEF Paged
  <1>11. QED BY <1>10 DEF S, M

LEMMA PagesInvInit ==
    ASSUME NEW calls, NEW baselines, \A p \in calls : DOMAIN p = Fields, \A b \in baselines : WellTyped(b),
           PagingInit(calls, baselines)
    PROVE  PagesInv
  BY DEF PagingInit, PagesInv, Outcomes

LEMMA ExecuteKeeps ==
    ASSUME PagesInv, Execute
    PROVE  PagesInv'
  <1>1. /\ baseline' = baseline /\ params' = params /\ outcome' = Verdict /\ snapshot = {} /\ pages = <<>>
        /\ WellTyped(baseline) /\ DOMAIN params = Fields
    BY DEF Execute, PagesInv
  <1>2. Candidate' = Candidate
    BY <1>1 DEF Candidate, References
  <1>3. Verdict \in Outcomes \ {"calling"}
    BY DEF Verdict, Outcomes
  <1>4. CASE Verdict # "page"
    <2>1. snapshot' = {} /\ pages' = <<>>
      BY <1>1, <1>4 DEF Execute
    <2>2. QED BY <1>1, <1>3, <2>1 DEF PagesInv
  <1>5. CASE Verdict = "page"
    <2>1. snapshot' = {Candidate} /\ pages' = <<RenderPage(Candidate, 0)>>
      BY <1>5 DEF Execute
    <2>2. ValidParams(params) /\ params.cursor = {} /\ ValidBaseline(baseline, browser_instance_id)
      BY <1>5 DEF Verdict
    <2>3. AcceptedBaseline(baseline)
      BY <1>1, <2>2 DEF ValidBaseline, AcceptedBaseline
    <2>4. Offset(Candidate, 1) = 0
      <3>1. Candidate.limit \in Nat
        BY <2>2, CandidateRefs, LimitIsPositive
      <3>2. QED BY <3>1 DEF Offset
    <2> DEFINE first == RenderPage(Candidate, 0)
    <2>5. pages' = <<first>>
      BY <2>1
    <2> HIDE DEF first
    <2>6. pages' \in Seq({first}) /\ Len(pages') = 1 /\ pages'[1] = first /\ Range(pages') = {first} /\ pages' # <<>>
      BY <2>5 DEF Range
    <2>7. \A p \in 1..Len(pages') : p = 1
      BY <2>6
    <2>8. \A p \in 1..Len(pages') :
              /\ pages'[p] = RenderPage(Candidate', Offset(Candidate', p))
              /\ p # 1 => Offset(Candidate', p) < Len(Candidate'.matched_tab_keys)
      BY <1>2, <2>4, <2>6, <2>7 DEF first
    <2>9. pages' \in Seq(Range(pages'))
      BY <2>6
    <2>10. QED BY <1>1, <1>2, <1>3, <1>5, <2>1, <2>2, <2>3, <2>6, <2>8, <2>9 DEF PagesInv
  <1>6. QED BY <1>4, <1>5

LEMMA ContinueKeeps ==
    ASSUME PagesInv, ContinueSnapshot
    PROVE  PagesInv'
  <1>1. baseline' = baseline /\ params' = params /\ snapshot' = snapshot /\ outcome = "page"
    BY DEF ContinueSnapshot
  <1>2. Candidate' = Candidate
    BY <1>1 DEF Candidate, References
  <1>3. PICK kept \in snapshot, cursor \in Last(pages).next_cursor :
            IF TooLarge(kept, cursor)
            THEN outcome' = "RESULT_TOO_LARGE" /\ UNCHANGED pages
            ELSE pages' = Append(pages, RenderPage(kept, cursor)) /\ UNCHANGED outcome
    BY DEF ContinueSnapshot
  <1>4. /\ kept = Candidate /\ snapshot # {} /\ snapshot = {Candidate}
        /\ AcceptedBaseline(baseline) /\ ValidParams(params) /\ params.cursor = {}
        /\ WellTyped(baseline) /\ DOMAIN params = Fields
        /\ pages \in Seq(Range(pages)) /\ pages # <<>>
        /\ \A p \in 1..Len(pages) :
               /\ pages[p] = RenderPage(Candidate, Offset(Candidate, p))
               /\ p # 1 => Offset(Candidate, p) < Len(Candidate.matched_tab_keys)
    BY <1>3 DEF PagesInv
  <1>5. outcome' \in Outcomes \ {"calling"}
    BY <1>1, <1>3 DEF Outcomes
  <1>6. CASE pages' = pages
    BY <1>1, <1>2, <1>4, <1>5, <1>6 DEF PagesInv
  <1>7. CASE pages' = Append(pages, RenderPage(kept, cursor))
    <2> DEFINE S == Candidate
               K == Len(pages)
               new == RenderPage(S, cursor)
    <2>1. PICK s : Paged(S, Matching, s)
      BY <1>4, ArePaged
    <2>2. /\ Last(pages).next_cursor = IF K * S.limit < Cardinality(Matching) THEN {K * S.limit} ELSE {}
      BY <2>1, LastCursor
    <2>3. cursor = K * S.limit /\ cursor < Cardinality(Matching)
      BY <1>3, <2>2
    <2>4. Line(S, Matching, s) /\ S.limit \in Nat \ {0}
      BY <2>1 DEF Paged
    <2>line. LineFacts(S, Matching, s)
      BY <2>4, LineIs
    <2>5. Len(S.matched_tab_keys) = Cardinality(Matching)
      BY <2>line DEF LineFacts
    <2>6. K \in Nat \ {0} /\ DOMAIN pages = 1..K
      BY <1>4
    <2>7. Offset(S, K + 1) = cursor
      BY <2>3, <2>4, <2>6 DEF Offset
    <2>8. pages' = Append(pages, new)
      BY <1>4, <1>7
    <2> HIDE DEF S, new, K
    <2> DEFINE T == Range(pages) \cup {new}
    <2>9. pages' \in Seq(T) /\ Len(pages') = K + 1 /\ pages' # <<>> /\ pages'[K + 1] = new
          /\ \A p \in 1..K : pages'[p] = pages[p]
      <3>1. pages \in Seq(T) /\ new \in T
        BY <1>4
      <3> HIDE DEF T
      <3>2. QED BY <2>8, <3>1 DEF K
    <2>10. pages' \in Seq(Range(pages'))
      <3>1. pages' \in [1..K + 1 -> T]
        BY <2>6, <2>9
      <3>2. pages' \in [1..K + 1 -> Range(pages')]
        BY <3>1 DEF Range
      <3>3. QED BY <2>6, <3>2
    <2>11. ASSUME NEW p \in 1..K + 1
           PROVE  pages'[p] = RenderPage(S, Offset(S, p)) /\ (p # 1 => Offset(S, p) < Len(S.matched_tab_keys))
      <3>1. CASE p = K + 1
        BY <2>3, <2>5, <2>7, <2>9, <3>1 DEF new
      <3>2. CASE p # K + 1
        <4>1. p \in 1..K
          BY <2>6, <3>2
        <4>2. QED BY <1>4, <2>9, <4>1 DEF K, S
      <3>3. QED BY <3>1, <3>2
    <2>12. \A p \in 1..Len(pages') :
               /\ pages'[p] = RenderPage(Candidate', Offset(Candidate', p))
               /\ p # 1 => Offset(Candidate', p) < Len(Candidate'.matched_tab_keys)
      BY <1>2, <2>9, <2>11 DEF S
    <2>13. snapshot' # {} /\ snapshot' = {Candidate'}
      BY <1>1, <1>2, <1>4
    <2>14. QED BY <1>1, <1>4, <1>5, <2>9, <2>10, <2>12, <2>13 DEF PagesInv
  <1>8. QED BY <1>3, <1>6, <1>7

LEMMA PagesInvNext ==
    ASSUME PagesInv, [PagingNext]_paging_vars
    PROVE  PagesInv'
  <1>1. CASE Execute
    BY <1>1, ExecuteKeeps
  <1>2. CASE ContinueSnapshot
    BY <1>2, ContinueKeeps
  <1>3. CASE UNCHANGED paging_vars
    <2>1. /\ baseline' = baseline /\ params' = params /\ outcome' = outcome /\ snapshot' = snapshot /\ pages' = pages
      BY <1>3 DEF paging_vars
    <2>2. Candidate' = Candidate
      BY <2>1 DEF Candidate, References
    <2>3. QED BY <2>1, <2>2 DEF PagesInv
  <1>4. QED BY <1>1, <1>2, <1>3 DEF PagingNext

LEMMA RangeChecked ==
    ASSUME PagesInv
    PROVE  RangeCheckIsExact
  <1>1. WellTyped(baseline)
    BY DEF PagesInv
  <1>2. ASSUME DistinctIndexes(baseline), NEW window
        PROVE  GroupsContiguous(Strip(baseline, window)) <=> Uninterrupted(baseline, window)
    BY <1>1, <1>2, WalkIsExact
  <1>3. QED BY <1>2 DEF RangeCheckIsExact, Uninterrupted, TabsIn

LEMMA CursorsCounted ==
    ASSUME PagesInv
    PROVE  CursorCountIsExact
  <1>1. ASSUME NEW kept \in snapshot
        PROVE  CursorCount(kept.matched_tab_keys, kept.limit) = Cardinality(kept.cursors)
    <2>1. kept = Candidate /\ snapshot # {}
      BY DEF PagesInv
    <2>2. PICK s : Paged(Candidate, Matching, s)
      BY <2>1, ArePaged
    <2> DEFINE S == Candidate
               matched == S.matched_tab_keys
               L == Cardinality(Matching)
    <2>3. Line(S, Matching, s) /\ S.limit \in Nat \ {0} /\ S.cursors = PrepareCursors(matched, S.limit)
      BY <2>2 DEF Paged
    <2>line. LineFacts(S, Matching, s)
      BY <2>3, LineIs
    <2>4. L \in Nat /\ Len(matched) = L /\ matched \in Seq({tab.key : tab \in Matching})
      BY <2>line DEF LineFacts
    <2> HIDE DEF S, L, matched
    <2>5. matched = <<>> <=> L = 0
      BY <2>4
    <2>6. CursorCount(matched, S.limit) = Cardinality(PrepareCursors(matched, S.limit))
      BY <2>3, <2>4, <2>5, CursorsAre
    <2>7. QED BY <2>1, <2>3, <2>6 DEF S, matched
  <1>2. QED BY <1>1 DEF CursorCountIsExact

LEMMA PagesTyped ==
    ASSUME PagesInv
    PROVE  PagingTypeOK
  <1>1. WellTyped(baseline) /\ DOMAIN params = Fields /\ outcome \in Outcomes
    BY DEF PagesInv
  <1>2. pages # <<>> => snapshot # {}
    BY DEF PagesInv
  <1>3. CASE snapshot = {}
    <2>1. Cardinality(snapshot) = 0 /\ pages = <<>>
      BY <1>3, FS_EmptySet DEF PagesInv
    <2>2. DOMAIN pages = {}
      BY <2>1
    <2>3. QED BY <1>1, <1>2, <2>1, <2>2 DEF PagingTypeOK
  <1>4. CASE snapshot # {}
    <2>1. snapshot = {Candidate}
      BY <1>4 DEF PagesInv
    <2>2. Cardinality(snapshot) = 1
      BY <2>1, FS_Singleton
    <2>3. PICK s : Paged(Candidate, Matching, s)
      BY <1>4, ArePaged
    <2>4. ASSUME NEW p \in DOMAIN pages PROVE pages[p].next_cursor \subseteq Nat
      <3>1. p \in 1..Len(pages)
        BY <2>3 DEF Paged
      <3>2. PageFacts(Candidate, Matching, s, Offset(Candidate, p), pages[p])
        BY <2>3, <3>1, PagedFacts
      <3>3. pages[p].next_cursor \subseteq Candidate.cursors
        BY <3>2 DEF PageFacts
      <3>4. Candidate.cursors \subseteq Nat
        <4>1. Candidate.cursors = PrepareCursors(Candidate.matched_tab_keys, Candidate.limit)
          BY CandidateRefs
        <4>line. LineFacts(Candidate, Matching, s)
          BY <2>3, LineIs DEF Paged
        <4>2. Len(Candidate.matched_tab_keys) \in Nat
          BY <4>line DEF LineFacts
        <4>3. 0..(Len(Candidate.matched_tab_keys) - 1) \subseteq Nat
          BY <4>2
        <4>4. QED BY <4>1, <4>3 DEF PrepareCursors
      <3>5. QED BY <3>3, <3>4
    <2>5. QED BY <1>1, <1>2, <2>2, <2>4 DEF PagingTypeOK
  <1>5. QED BY <1>3, <1>4

LEMMA PagesInvIsExact ==
    ASSUME PagesInv
    PROVE  PagesAreExact
  <1>1. PagingTypeOK /\ CursorCountIsExact /\ RangeCheckIsExact
    BY PagesTyped, CursorsCounted, RangeChecked
  <1>2. CASE snapshot = {}
    <2>1. pages = <<>> /\ DOMAIN pages = {}
      BY <1>2 DEF PagesInv
    <2>2. Shown = {}
      BY <2>1 DEF Shown
    <2>3. PagesPartitionMatches /\ CountsAgreeWithPages
      BY <2>1 DEF PagesPartitionMatches, CountsAgreeWithPages
    <2>4. EachObjectOncePerPage
      BY <2>1 DEF EachObjectOncePerPage
    <2>5. TabsStandInTheirPlace
      BY <2>2 DEF TabsStandInTheirPlace
    <2>6. TabsStandInOrder
      BY <2>2 DEF TabsStandInOrder
    <2>7. PartialIsExact
      BY <2>1 DEF PartialIsExact
    <2>8. QED BY <1>1, <2>3, <2>4, <2>5, <2>6, <2>7 DEF PagesAreExact
  <1>3. CASE snapshot # {}
    <2>1. PICK s : Paged(Candidate, Matching, s)
      BY <1>3, ArePaged
    <2>2. QED BY <1>1, <2>1, Partitioned, ObjectsOnce, InPlace, InOrderShown, PartsAreExact, CountsAgree DEF PagesAreExact
  <1>4. QED BY <1>2, <1>3

\* Whatever the arguments and whatever the extension answers, the pages that a client
\* sees partition the matches, show every object in one piece and in its place, mark as
\* partial what lacks a match, and agree with the counts and with the number of cursors
\* (execute, render_page and continue_snapshot in browser_snapshot.rs).
THEOREM PagesStayExact ==
    ASSUME NEW calls, NEW baselines,
           \A p \in calls : DOMAIN p = Fields, \A b \in baselines : WellTyped(b)
    PROVE  PagingInit(calls, baselines) /\ [][PagingNext]_paging_vars => []PagesAreExact
  <1>1. PagingInit(calls, baselines) => PagesInv
    BY PagesInvInit
  <1>2. PagesInv /\ [PagingNext]_paging_vars => PagesInv'
    BY PagesInvNext
  <1>3. PagesInv => PagesAreExact
    BY PagesInvIsExact
  <1>4. QED BY <1>1, <1>2, <1>3, PTL

=============================================================================
