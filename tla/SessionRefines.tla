--------------------------- MODULE SessionRefines ---------------------------
(***************************************************************************)
(* Session implements CaptureLog: the log is the captures vector, the      *)
(* snapshot is the page in the session's file, and a call is recorded by   *)
(* its push.  (Where each session has its file to itself.)                 *)
(***************************************************************************)
EXTENDS Session

Shown(s) ==
    IF Holds(PathOf[s], s) THEN file[PathOf[s]].captures ELSE << >>

CallState(step) ==
    CASE step \in {"idle", "panicked"} -> "none"
      [] step \in {"append", "push"} -> "pending"
      [] OTHER -> "recorded"

Log == INSTANCE CaptureLog WITH
    AtomicReplace <- "rename" \notin Faults,
    log <- captures,
    shown <- [s \in Sessions |-> Shown(s)],
    browser <- [s \in Sessions |-> opened[s] # "nothing"],
    call <- [t \in Threads |-> CallState(pc[t])],
    target <- cur,
    nth <- made

(* Session implements its abstract specification: captures are linearizable,
   the snapshot always shows a whole log, the browser opens once. *)
ImplementsLog == Log!Spec
=============================================================================
