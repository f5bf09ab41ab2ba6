----------------------------- MODULE MCExtension ------------------------------
(* Model checking of the two controllers of the extension that share nothing:  *)
(* CapabilitySettings and BrowserModel.  A behaviour takes up one of them; the *)
(* other one stands still, so that its fairness fails and asks nothing.        *)
EXTENDS CapabilitySettings

CONSTANTS WindowIds, TabIds, ModelCallers, Frozen, ModelChanges, ModelFailures,
          MaxOccasions     \* bound: callers of the settings and changes of the facts, together

ASSUME ModelAssumption ==
    /\ IsFiniteSet(WindowIds) /\ IsFiniteSet(TabIds) /\ WindowIds \cap TabIds = {}
    /\ Frozen \in BOOLEAN /\ ModelChanges \in Nat /\ ModelFailures \in Nat
    /\ MaxOccasions \in Nat

VARIABLES subject,       \* "settings" or "model"
          windows, tabs, model_changes, channel, queries, keys, forceNewIds, eventGeneration,
          reconciledGeneration, reading, records, modelRevision, support, nextKey, model_callers,
          delivered, named, model_failures

model_vars ==
    <<windows, tabs, model_changes, channel, queries, keys, forceNewIds, eventGeneration,
      reconciledGeneration, reading, records, modelRevision, support, nextKey, model_callers,
      delivered, named, model_failures>>

Model == INSTANCE BrowserModel WITH
    Callers <- ModelCallers, MaxChanges <- ModelChanges, MaxFailures <- ModelFailures,
    changes <- model_changes, callers <- model_callers, failures <- model_failures

\* To begin with, a certain window is there and all tabs but a certain one.
ExtensionInit ==
    \/ /\ subject = "settings" /\ Init
       /\ windows = [w \in WindowIds |-> {}] /\ Model!Init
    \/ /\ subject = "model" /\ stored = {} /\ Init
       /\ Model!Init
       /\ windows[CHOOSE w \in WindowIds : TRUE] # {}
       /\ {t \in TabIds : tabs[t] = {}} = {CHOOSE t \in TabIds : TRUE}

\* Neither a caller nor a change of the facts has to come, so no fairness is at
\* stake in how many of them do.
FewOccasions == Cardinality({c \in Callers : callers'[c].at # "absent"}) + facts' <= MaxOccasions

ExtensionNext ==
    \/ subject = "settings" /\ Next /\ FewOccasions /\ UNCHANGED <<model_vars, subject>>
    \/ subject = "model" /\ Model!Next /\ UNCHANGED <<vars, subject>>

ExtensionSpec == ExtensionInit /\ [][ExtensionNext]_<<vars, model_vars, subject>>

-----------------------------------------------------------------------------
\* The model is Chrome's state of one moment, no older than who asks knows, under
\* keys that follow the windows and tabs (ModelIsTrue of BrowserModel).
ModelIsTrue == Model!ModelIsTrue

\* Both come to rest with the truth: the model with Chrome's latest state, the
\* capability state with the latest setting and facts (Converges of BrowserModel
\* and of CapabilitySettings).
BothConverge == (Model!Fairness => Model!Converges) /\ (Fairness => Converges)

\* Who asks for the capability state, or changes the setting, gets an answer or an
\* error (EveryCallEnds of CapabilitySettings).
EveryCallerIsAnswered == Fairness => EveryCallEnds
=============================================================================
