------------------------------ MODULE MCBroker ------------------------------
(* Model checking of Broker with a small set of calls.                       *)
EXTENDS Broker, TLC

CONSTANT Timed     \* in the run about liveness, the calls whose clock moves and that may be dropped

Symmetry == Permutations(Requests)

\* Besides a timed call there is another one, unless the HTTP task has ended by itself.
Competing == Requests \ Timed
LiveNext ==
    \/ \E r \in Timed : Call(r) \/ Abandon(r) \/ Tick(r)
    \/ http # "stopped" /\ \E r \in Competing : Call(r)
    \/ HttpStop
    \/ \E r \in Requests : CallStep(r)
    \/ WriterStep \/ ReaderStep \/ ReaderInput
    \/ MainStep \/ ShutdownTimeout \/ HttpDrain
    \/ Exited

LiveSpec == Init /\ [][LiveNext]_vars
=============================================================================
