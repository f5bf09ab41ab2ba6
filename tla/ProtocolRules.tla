---------------------------- MODULE ProtocolRules ----------------------------
(***************************************************************************)
(* The rules of the native protocol, at both ends: what the broker accepts  *)
(* and what it makes of it (native/src/protocol.rs, DiscoverySnapshot in     *)
(* native/src/capabilities.rs), what the extension sends and accepts         *)
(* (extension/protocol.js, extension/capabilities.js).                       *)
(*                                                                         *)
(* An Option is a set with at most one element.  A String is a name; all    *)
(* that the code asks of it are its length and whether it is blank.          *)
(***************************************************************************)
EXTENDS Integers, Sequences, FiniteSets, SequencesExt

CONSTANTS Bytes,                        \* lengths of the names that are not short
          BlankNames,                   \* names that trim to nothing
          BadMethods,                   \* names with characters no method has
          Methods,                      \* BrowserMethod::ALL
          INTERNAL_PROTOCOL_VERSION,
          PROTOCOL_ABI_REVISION,
          READ_DEADLINE_MS,
          MAX_IMPLEMENTATION_ENTRIES

Branches == {"browserSnapshot", "browserChange", "pageTools", "advancedEvaluation"}
Reasons == {"available", "disabled", "permissionMissing", "unsupported", "probeFailed",
            "notImplemented", "dependencyUnavailable"}

ValidBounded(name, max_bytes) ==
    /\ name \notin BlankNames
    /\ name \in DOMAIN Bytes => Bytes[name] <= max_bytes

-----------------------------------------------------------------------------
(* Implementations *)

\* local_implementations, and IMPLEMENTATIONS of this build of the extension
LocalImplementations ==
    SetToSeq({[method |-> method, branch |-> {}, abi_revision |-> 1] : method \in Methods})

EntryKeys(entries) == [i \in DOMAIN entries |-> <<entries[i].method, entries[i].branch>>]

ValidImplementations(entries) ==
    /\ Len(entries) \in 1..MAX_IMPLEMENTATION_ENTRIES
    /\ \A i \in DOMAIN entries :
           /\ ValidBounded(entries[i].method, 128)
           /\ entries[i].method \notin BadMethods
           /\ \A branch \in entries[i].branch : ValidBounded(branch, 64)
           /\ entries[i].abi_revision >= 1
    /\ IsInjective(EntryKeys(entries))

\* (a wrong variant: any revision of a required method will do)
NegotiatesAnyRevision(remote) ==
    /\ ValidImplementations(remote)
    /\ Range(EntryKeys(LocalImplementations)) \subseteq Range(EntryKeys(remote))

\* Every local entry is required; whatever else the peer has is ignored.
Negotiates(remote) ==
    /\ ValidImplementations(remote)
    /\ Range(LocalImplementations) \subseteq Range(remote)

\* An extension of this build, about what ready_ack returns.
ValidateReadyAck(build, ack) ==
    /\ ack.protocol_version = build.protocol_version
    /\ ack.protocol_abi_revision = build.protocol_abi_revision
    /\ ValidImplementations(ack.implementations)
    /\ Len(ack.implementations) = Len(build.implementations)
    /\ Range(build.implementations) \subseteq Range(ack.implementations)

-----------------------------------------------------------------------------
(* Capabilities *)

BaseEffective(status) ==
    status.implemented /\ status.desired /\ status.granted /\ status.supported /\ status.probe_passed

\* What the extension reports of a branch, from its facts.
CapabilityStatus(facts, dependency_available) ==
    [implemented |-> facts.implemented, desired |-> facts.desired, granted |-> facts.granted,
     supported |-> facts.supported, probe_passed |-> facts.probe_passed,
     effective |-> BaseEffective(facts) /\ dependency_available,
     reason |-> IF ~facts.implemented THEN "notImplemented"
                ELSE IF ~facts.desired THEN "disabled"
                ELSE IF ~facts.granted THEN "permissionMissing"
                ELSE IF ~facts.supported THEN "unsupported"
                ELSE IF ~facts.probe_passed THEN "probeFailed"
                ELSE IF ~dependency_available THEN "dependencyUnavailable"
                ELSE "available"]

Reported(facts) ==
    LET pageTools == CapabilityStatus(facts["pageTools"], TRUE)
    IN [branch \in Branches |->
           CapabilityStatus(facts[branch], branch = "advancedEvaluation" => pageTools.effective)]

ValidCapabilities(capabilities) ==
    \A branch \in Branches :
        LET status == capabilities[branch]
        IN /\ status.reason \in Reasons
           /\ status.effective <=>
                  /\ BaseEffective(status)
                  /\ branch = "advancedEvaluation" => capabilities["pageTools"].effective
           /\ status.effective <=> status.reason = "available"

\* An effective branch has a method behind it.
ValidCapabilityImplementations(capabilities, entries) ==
    LET HasMethod(method) == \E i \in DOMAIN entries : entries[i].method = method
    IN /\ capabilities["browserSnapshot"].effective => HasMethod("browser.snapshot")
       /\ capabilities["browserChange"].effective => HasMethod("browser.change")
       /\ capabilities["pageTools"].effective => HasMethod("page.inspect") \/ HasMethod("page.act")
       /\ capabilities["advancedEvaluation"].effective =>
              capabilities["pageTools"].effective /\ HasMethod("page.evaluate")

-----------------------------------------------------------------------------
(* Messages to the broker *)

ValidReady(message) ==
    /\ message.protocol_version = INTERNAL_PROTOCOL_VERSION
    /\ message.protocol_abi_revision = PROTOCOL_ABI_REVISION
    /\ ValidBounded(message.browser_instance_id, 256)
    /\ ValidBounded(message.extension_id, 64)
    /\ ValidBounded(message.extension_version, 64)
    /\ ValidBounded(message.user_agent, 512)
    /\ message.capability_revision >= 1
    /\ ValidImplementations(message.implementations)
    /\ ValidCapabilities(message.capabilities)
    /\ ValidCapabilityImplementations(message.capabilities, message.implementations)

ValidResponse(message) ==
    /\ ValidBounded(message.browser_instance_id, 256)
    /\ ValidBounded(message.request_id, 64)
    /\ message.ok <=> message.result # {}
    /\ message.ok <=> message.error = {}
    /\ Len(message.artifacts) <= 1
    /\ message.ok => message.dispatch = "completed"

\* Every method of this build is a read, and none permits artifacts.
ValidForMethod(message) == message.artifacts = <<>> /\ message.dispatch # "unknown"

\* Whether parse_incoming accepts a message.
ParseIncoming(message) ==
    CASE message.type = "ready" -> ValidReady(message)
      [] message.type = "capabilities_changed" ->
             /\ ValidBounded(message.browser_instance_id, 256)
             /\ message.capability_revision >= 1
             /\ ValidCapabilities(message.capabilities)
      [] message.type = "response" -> ValidResponse(message)
      [] OTHER -> FALSE

-----------------------------------------------------------------------------
(* Messages to the extension and its answers *)

\* (a wrong variant: the budget may be spent)
RequestUnchecked(method, request_id, budget_ms) ==
    [type |-> "request", request_id |-> request_id, method |-> method,
     request_class |-> "read",
     deadline_ms |-> IF budget_ms < READ_DEADLINE_MS THEN budget_ms ELSE READ_DEADLINE_MS + 1]

\* What the writer sends with this much time left.
Request(method, request_id, budget_ms) ==
    [type |-> "request", request_id |-> request_id, method |-> method,
     request_class |-> "read",
     deadline_ms |-> IF budget_ms < READ_DEADLINE_MS THEN budget_ms ELSE READ_DEADLINE_MS]

ValidateRequest(message, negotiated) ==
    /\ message.type = "request"
    /\ [method |-> message.method, branch |-> {}] \in
           {[method |-> entry.method, branch |-> entry.branch] : entry \in Range(negotiated)}
    /\ message.request_class = "read"
    /\ message.deadline_ms \in 1..READ_DEADLINE_MS

\* What a client may learn of an error: only what was marked as safe.
PublicError(error) == IF error.effectorSafe THEN error.code ELSE "INTERNAL_ERROR"

ErrorResponse(instance, request_id, code, dispatch) ==
    [type |-> "response", browser_instance_id |-> instance, request_id |-> request_id, ok |-> FALSE,
     result |-> {}, error |-> {code}, dispatch |-> dispatch, artifacts |-> <<>>]

SuccessResponse(instance, request_id, too_large) ==
    IF too_large THEN ErrorResponse(instance, request_id, "RESPONSE_TOO_LARGE", "completed")
    ELSE [type |-> "response", browser_instance_id |-> instance, request_id |-> request_id,
          ok |-> TRUE, result |-> {"result"}, error |-> {}, dispatch |-> "completed",
          artifacts |-> <<>>]

-----------------------------------------------------------------------------
(* Discovery *)

\* (a wrong variant: what is implemented is listed)
VisibleIfImplemented(capabilities, negotiated) ==
    {tool \in Methods : [method |-> tool, branch |-> {}, abi_revision |-> 1] \in Range(negotiated)}

\* DiscoverySnapshot::connected, over TOOL_DESCRIPTORS
VisibleTools(capabilities, negotiated) ==
    {tool \in Methods :
        /\ capabilities["browserSnapshot"].effective
        /\ [method |-> tool, branch |-> {}, abi_revision |-> 1] \in Range(negotiated)}

\* require_capability, capability_result: the code of the refusal, if any.
RequireCapability(capabilities, branch) ==
    IF capabilities[branch].effective THEN {}
    ELSE IF capabilities[branch].reason = "disabled" THEN {"CAPABILITY_DISABLED"}
    ELSE {"CAPABILITY_UNAVAILABLE"}

=============================================================================
