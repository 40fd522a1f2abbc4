----------------------------- MODULE CaptureLog -----------------------------
(***************************************************************************)
(* What a ViewerSession promises, with no locks, files or server: every    *)
(* capture takes its place in its session's log at one moment between call *)
(* and return, the snapshot on disk shows the whole log of some earlier    *)
(* moment and only moves forward, and the browser is opened once.          *)
(***************************************************************************)
EXTENDS Naturals, Sequences

CONSTANTS
    Threads, Sessions,
    AtomicReplace   \* a snapshot is always replaced as a whole

VARIABLES
    log,      \* [Sessions -> Seq(capture)]
    shown,    \* [Sessions -> captures in the snapshot]
    browser,  \* [Sessions -> TRUE once the viewer was opened]
    call,     \* [Threads -> "none", "pending" or "recorded"]
    target,   \* [Threads -> session of the call]
    nth       \* [Threads -> number of the call]

logVars == <<log, shown, browser, call, target, nth>>

Init ==
    /\ log = [s \in Sessions |-> << >>]
    /\ shown = [s \in Sessions |-> << >>]
    /\ browser = [s \in Sessions |-> FALSE]
    /\ call = [t \in Threads |-> "none"]
    /\ target \in [Threads -> Sessions]
    /\ nth = [t \in Threads |-> 0]

Invoke(t, s) ==
    /\ call[t] = "none"
    /\ call' = [call EXCEPT ![t] = "pending"]
    /\ target' = [target EXCEPT ![t] = s]
    /\ nth' = [nth EXCEPT ![t] = @ + 1]
    /\ UNCHANGED <<log, shown, browser>>

Record(t) ==
    LET s == target[t]
        next == [sequence |-> Len(log[s]) + 1, by |-> t, nth |-> nth[t]]
    IN  /\ call[t] = "pending"
        /\ call' = [call EXCEPT ![t] = "recorded"]
        /\ log' = [log EXCEPT ![s] = Append(@, next)]
        /\ UNCHANGED <<shown, browser, target, nth>>

(* The snapshot may stay behind (a failed write) but never shows part of a log. *)
Publish(s) ==
    /\ shown' = [shown EXCEPT ![s] = log[s]]
    /\ UNCHANGED <<log, browser, call, target, nth>>

(* Without an atomic replacement a failing write may destroy what was there. *)
Tear(s) ==
    /\ ~AtomicReplace
    /\ shown' = [shown EXCEPT ![s] = << >>]
    /\ UNCHANGED <<log, browser, call, target, nth>>

OpenViewer(s) ==
    /\ log[s] # << >>
    /\ ~browser[s]
    /\ browser' = [browser EXCEPT ![s] = TRUE]
    /\ UNCHANGED <<log, shown, call, target, nth>>

Return(t) ==
    /\ call[t] = "recorded"
    /\ call' = [call EXCEPT ![t] = "none"]
    /\ UNCHANGED <<log, shown, browser, target, nth>>

Next ==
    \/ \E t \in Threads : Record(t) \/ Return(t) \/ \E s \in Sessions : Invoke(t, s)
    \/ \E s \in Sessions : Publish(s) \/ Tear(s) \/ OpenViewer(s)

Spec == Init /\ [][Next]_logVars
=============================================================================
