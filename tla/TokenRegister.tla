---------------------------- MODULE TokenRegister ----------------------------
(***************************************************************************)
(* What the token file promises: one of the processes that start chooses    *)
(* the token, and every process that gets an answer gets that token.  When   *)
(* the machine stops, the answers are gone with the processes, and a choice   *)
(* made since it started may be.                                              *)
(***************************************************************************)
CONSTANTS Processes, Written        \* tokens: of each process, and written before

VARIABLES chosen, answers

NoAnswer == "none"
Failed == "error"

Init == /\ chosen \in {{}} \cup {{token} : token \in Written}
        /\ answers = [p \in Processes |-> NoAnswer]

Choose(p) == /\ chosen = {} /\ answers[p] = NoAnswer
             /\ chosen' = {p}
             /\ UNCHANGED answers

Answer(p) == /\ answers[p] = NoAnswer
             /\ \E answer \in chosen \cup {Failed} : answers' = [answers EXCEPT ![p] = answer]
             /\ UNCHANGED chosen

Stop == /\ chosen' \in {chosen} \cup {{}}
        /\ answers' = [p \in Processes |-> NoAnswer]

Next == Stop \/ \E p \in Processes : Choose(p) \/ Answer(p)

Spec == Init /\ [][Next]_<<chosen, answers>>

=============================================================================
