----------------------------- MODULE MCSession -----------------------------
(* Instances of Session for TLC: every session has a file of its own. *)
EXTENDS SessionRefines, TLC

OwnPaths == [s \in Sessions |-> s]          \* Paths <- Sessions

Symmetry == Permutations(Threads)
=============================================================================
