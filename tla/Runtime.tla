------------------------------- MODULE Runtime -------------------------------
(***************************************************************************)
(* What the broker's RuntimeState (native/src/runtime.rs) keeps beside the   *)
(* connection: the retained records (RetainedStore) and the notifiers of a   *)
(* changed tool list (ToolListNotifier, here Tools).  They are under one     *)
(* mutex and share nothing, so that either is looked at while the other      *)
(* stands still.                                                            *)
(***************************************************************************)
EXTENDS RetainedStore

CONSTANTS Legacy, Subscriptions, MaxDiscovery    \* see ToolListNotifier

ASSUME ToolsAssumption == Legacy \cap Subscriptions = {} /\ MaxDiscovery \in Nat

VARIABLES discovery, notifiers, publisher, pending, channel, queue, pc, receiver, told, seen

tools_vars == <<discovery, notifiers, publisher, pending, channel, queue, pc, receiver, told, seen>>

Tools == INSTANCE ToolListNotifier

RetainNext == Next /\ UNCHANGED tools_vars
RetainInit == Init /\ Tools!Init
RetentionSpec == RetainInit /\ [][RetainNext]_<<vars, tools_vars>>

\* With Tools!Init and Tools!Fairness, or from some of its states (MCRuntime).
NotifyNext == Tools!Next /\ UNCHANGED vars

-----------------------------------------------------------------------------
\* No interleaving of registrations, publications and deliveries loses a change of
\* the tool list (NoLostUpdate of ToolListNotifier).
NoLostUpdate == Tools!NoLostUpdate

\* Two subscriptions never share a receiver, and each that was accepted finds one
\* (OwnReceiver of ToolListNotifier).
OwnReceiver == Tools!OwnReceiver

\* Every client that has joined and stays will, after each change, have listed the
\* current tools (EveryClientCatchesUp of ToolListNotifier).
EveryClientCatchesUp == Tools!EveryClientCatchesUp
=============================================================================
