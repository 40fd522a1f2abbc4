--------------------------- MODULE MCSessionPage ---------------------------
(* Instances of SessionPage for TLC: every session has a file of its own. *)
EXTENDS SessionPage

OwnPaths == [s \in Sessions |-> s]          \* Paths <- Sessions
=============================================================================
