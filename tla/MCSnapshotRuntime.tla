-------------------------- MODULE MCSnapshotRuntime --------------------------
(* Model checking of SnapshotRuntime: two callers and a few objects.            *)
EXTENDS SnapshotRuntime, TLC

MCAsks == {[detail |-> "compact", frozen |-> FALSE], [detail |-> "counts", frozen |-> TRUE]}

\* The callers are alike.
MCSymmetry == Permutations(Callers)
=============================================================================
