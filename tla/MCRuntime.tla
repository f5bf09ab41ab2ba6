------------------------------ MODULE MCRuntime ------------------------------
(* Model checking of Runtime: the store with two classes and small sizes, and  *)
(* the notifiers with any two of the clients.                                 *)
EXTENDS Runtime, TLC

MCPolicies == {[ttl |-> 1, max_records |-> 3, max_bytes |-> 5],
               [ttl |-> 2, max_records |-> 2, max_bytes |-> 3]}

Symmetry == Permutations(Keys) \cup Permutations(Classes)

\* Tools!Init, except that one client has left before it begins.
InitWithout(c) ==
    /\ pc = [d \in Tools!Clients |-> IF d = c THEN "gone" ELSE "absent"]
    /\ discovery = 0
    /\ publisher = "idle"
    /\ seen = [d \in Tools!Clients |-> 0]
    /\ notifiers = {} /\ pending = {} /\ channel = {} /\ told = {}
    /\ queue = <<>>
    /\ receiver = [d \in Tools!Clients |-> d]

PairInit == Init /\ \E c \in Tools!Clients : InitWithout(c)
PairSpec == PairInit /\ [][NotifyNext]_<<vars, tools_vars>> /\ Tools!Fairness
=============================================================================
