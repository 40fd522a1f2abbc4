----------------------------- MODULE MCProgram -----------------------------
(* Instances of Program for TLC: one thread makes two calls, one of them perhaps
   inside the other, and the rest one each. *)
EXTENDS Program

OwnPaths == [s \in Sessions |-> s]          \* Paths <- Sessions

CONSTANT Twice                               \* the thread that calls twice
TwoCalls == [t \in Threads |-> IF t = Twice THEN 2 ELSE 1]
=============================================================================
