--------------------------- MODULE RequestService ---------------------------
(***************************************************************************)
(* What the broker promises of a browser request, without saying how: a     *)
(* frame is committed at most once and only while somebody waits for it and *)
(* the broker is open, and what the caller is told agrees with what went    *)
(* over the wire.  Broker.tla implements it.                                *)
(***************************************************************************)
CONSTANT Requests

VARIABLES
    call,    \* "idle", "pending", or what the caller was told
    frame,   \* "none", "committed", "written", "answered"
    open     \* shutdown has not released the pending calls yet

vars == <<call, frame, open>>

Told == {"reply", "cancelled", "failed"}

Init ==
    /\ call = [r \in Requests |-> "idle"]
    /\ frame = [r \in Requests |-> "none"]
    /\ open = TRUE

Submit(r) ==
    /\ call[r] = "idle"
    /\ call' = [call EXCEPT ![r] = "pending"]
    /\ UNCHANGED <<frame, open>>

Commit(r) ==
    /\ open
    /\ call[r] = "pending" /\ frame[r] = "none"
    /\ frame' = [frame EXCEPT ![r] = "committed"]
    /\ UNCHANGED <<call, open>>

Send(r) ==
    /\ frame[r] = "committed"
    /\ frame' = [frame EXCEPT ![r] = "written"]
    /\ UNCHANGED <<call, open>>

\* The frame did not get out.
Lose(r) ==
    /\ frame[r] = "committed"
    /\ frame' = [frame EXCEPT ![r] = "none"]
    /\ UNCHANGED <<call, open>>

Answer(r) ==
    /\ frame[r] = "written"
    /\ frame' = [frame EXCEPT ![r] = "answered"]
    /\ UNCHANGED <<call, open>>

\* A reply is the extension's answer; a call told "cancelled" left no frame.
Return(r, told) ==
    /\ call[r] \in {"idle", "pending"}
    /\ told = "reply" => frame[r] = "answered"
    /\ told = "cancelled" => frame[r] = "none"
    /\ call' = [call EXCEPT ![r] = told]
    /\ UNCHANGED <<frame, open>>

Close ==
    /\ open
    /\ open' = FALSE
    /\ UNCHANGED <<call, frame>>

Next ==
    \/ \E r \in Requests :
          \/ Submit(r) \/ Commit(r) \/ Send(r) \/ Lose(r) \/ Answer(r)
          \/ \E told \in Told : Return(r, told)
    \/ Close

Spec == Init /\ [][Next]_vars
=============================================================================
