---------------------------- MODULE SessionPage ----------------------------
(***************************************************************************)
(* A program's session (Session) and the browser page that shows it        *)
(* (ViewerPage), composed: the browser opens the snapshot file or the      *)
(* server's URL, the page's polls wait for the session's one server thread *)
(* and are answered under the captures guard, and the program may exit     *)
(* with a page open.                                                       *)
(***************************************************************************)
EXTENDS Session, FiniteSets

CONSTANTS
    Tab,          \* the session whose page is open
    MaxInFlight,  \* bound on polls awaiting their response
    HasToolbar    \* there is a Reset button

ASSUME SessionPageAssumption ==
    Tab \in Sessions /\ MaxInFlight \in Nat /\ HasToolbar \in BOOLEAN

VARIABLES
    alive,        \* the program runs
    loaded,       \* the page's captures (how many: they are numbered in order)
    selected, following, pending, rendering, laidOut, told, resetting, shown,
    overlapped, page, live, inflight,
    asked         \* whom the server's current connection is for

graph == <<pending, rendering, laidOut, told, resetting, shown, overlapped>>
script == <<loaded, selected, following, graph, page, live>>
allVars == <<vars, alive, script, inflight, asked>>

P == INSTANCE ViewerPage WITH
    MaxCaptures <- Cardinality(Threads) * CapturesPerThread,
    log <- Len(captures[Tab]),
    captures <- loaded

InitPage ==
    /\ Init
    /\ alive = TRUE
    /\ loaded = 0 /\ selected = 0 /\ pending = 0 /\ rendering = 0
    /\ laidOut = 0 /\ told = 0 /\ resetting = 0 /\ shown = 0 /\ overlapped = FALSE
    /\ following = TRUE
    /\ page = "closed" /\ live = FALSE
    /\ inflight = << >>
    /\ asked = "nobody"

-----------------------------------------------------------------------------
(* The program, while it runs. *)

Running(A) == alive /\ A /\ UNCHANGED <<alive, script>>

Begins(t) == Running(\E s \in Sessions : BeginCapture(t, s))
                /\ UNCHANGED <<inflight, asked>>
ThreadRuns(t) == Running(ThreadStep(t)) /\ UNCHANGED <<inflight, asked>>

(* Connections of other clients: another tab, a browser's idle preconnection. *)
AcceptOther(s) == Running(Accept(s)) /\ UNCHANGED <<inflight, asked>>

Unanswered(i) == inflight[i] = 0 /\ \A j \in 1 .. i - 1 : inflight[j] # 0

(* The oldest poll, or the request for the page, reaches the server thread. *)
AcceptPage ==
    /\ alive /\ server[Tab] = "accept"
    /\ \/ asked' = "poll" /\ \E i \in 1 .. Len(inflight) : Unanswered(i)
       \/ asked' = "page" /\ page = "closed" /\ opened[Tab] = "url"
    /\ server' = [server EXCEPT ![Tab] = "captures"]
    /\ UNCHANGED <<shared, served, history, pc, locals, alive, script, inflight>>

(* The mutants: see the note in Session. *)
ParseWithoutCaptures(list, isLive) ==   \* left to the first poll
    /\ page = "closed"
    /\ page' = "parsed"
    /\ loaded' = 0
    /\ live' = isLive
    /\ UNCHANGED <<alive, selected, following, graph, inflight>>

(* The browser parses a page, of a file or a response. *)
Parse(list, isLive) ==
    /\ page = "closed"
    /\ page' = "parsed"
    /\ loaded' = Len(list)
    /\ live' = isLive
    /\ UNCHANGED <<alive, selected, following, graph, inflight>>

(* handle_connection renders the response under the captures guard. *)
Serve(s) ==
    LET for == IF s = Tab THEN asked ELSE "nobody" IN
    /\ alive /\ LockAndServe(s)
    /\ \/ for = "page" /\ Parse(served'[s], endpoint[s])
       \/ for = "poll" /\ UNCHANGED <<alive, script>>
             /\ \E i \in 1 .. Len(inflight) :
                   /\ Unanswered(i)
                   /\ inflight' = [inflight EXCEPT ![i] = Len(served'[s])]
       \/ for = "nobody" /\ UNCHANGED <<alive, script, inflight>>
    /\ asked' = IF s = Tab THEN "nobody" ELSE asked

ServerRuns(s) ==
    Running(FinishResponse(s) \/ ReadTimeout(s)) /\ UNCHANGED <<inflight, asked>>

(* The process ends: main returns, or it is killed, wherever its threads are. *)
Exit ==
    /\ alive
    /\ alive' = FALSE
    /\ UNCHANGED <<vars, script, inflight, asked>>

-----------------------------------------------------------------------------
(* The browser. *)

(* Opens the snapshot file it was sent to, some time after open_browser: what
   the file holds by then.  A torn page does not run its script. *)
OpenFile ==
    /\ opened[Tab] = "file" /\ Holds(PathOf[Tab], Tab)
    /\ UNCHANGED <<vars, asked>>
    /\ Parse(file[PathOf[Tab]].captures, file[PathOf[Tab]].live)

InPage(A) == UNCHANGED <<vars, asked>> /\ A

(* The connection is refused or reset: nobody is listening any more.  (Loopback
   loses nothing else; ViewerPage lets any poll fail.) *)
PollFails(i) ==
    /\ ~alive \/ server[Tab] = "dead"
    /\ InPage(P!PollFails(i))

Delivers == \E i \in 1 .. Len(inflight) : P!Deliver(i)

DrawingSettles == P!RenderSettles \/ P!ResetSettles

UserClicks == P!Reset \/ \E n \in 1 .. loaded : P!Click(n)

Script ==
    \/ InPage(P!Load) \/ InPage(DrawingSettles) \/ InPage(P!Poll)
    \/ InPage(UserClicks) \/ InPage(Delivers)

Done == ~alive /\ page = "closed" /\ UNCHANGED allVars

NextPage ==
    \/ \E t \in Threads : Begins(t) \/ ThreadRuns(t)
    \/ \E s \in Sessions : AcceptOther(s) \/ Serve(s) \/ ServerRuns(s)
    \/ AcceptPage \/ Exit \/ OpenFile \/ Script
    \/ \E i \in 1 .. Len(inflight) : PollFails(i)
    \/ Done

SpecPage == InitPage /\ [][NextPage]_allVars

(* While the program runs, a thread that can go on again and again does (the
   mutexes do not starve it: strong fairness), the server serves, and a client
   that is being answered reads the answer or hangs up.  The listener's queue is
   in order, so the page's request is accepted even if other clients keep
   connecting.  The browser does its part.  Nothing obliges the program to
   capture or to exit, or the user to click. *)
FairnessPage ==
    /\ \A t \in Threads : SF_allVars(ThreadRuns(t))
    /\ \A s \in Sessions : WF_allVars(ServerRuns(s)) /\ SF_allVars(Serve(s))
    /\ SF_allVars(AcceptPage)
    /\ WF_allVars(OpenFile)
    /\ WF_allVars(InPage(P!Load)) /\ WF_allVars(InPage(P!RenderSettles))
    /\ WF_allVars(InPage(P!Poll)) /\ SF_allVars(InPage(Delivers))

FairSpecPage == SpecPage /\ FairnessPage

-----------------------------------------------------------------------------
(* To the page, the program is what ViewerPage says: a log that grows by one,
   polls answered in their order with the log of that moment, and a first page
   that shows some captures already made, whatever the program's threads, locks
   and failures do. *)
ImplementsPage == P!Spec

(* The whole way, from dbg! to the graph: while the program and its server
   thread live, a page opened by a session whose server started ends up with the
   last capture, its graph or the message that it has none, and renders no other,
   unless the user looks at an older one or never stops clicking.  The snapshot
   the browser was sent to must be live, whatever was written to it since, and a
   poll must get past locks and other clients. *)
EveryCaptureShown ==
    LET last == Len(captures[Tab]) IN
    /\ []alive /\ [](server[Tab] # "dead")
    /\ <>(opened[Tab] # "nothing" /\ viewer[Tab] = "Started")
    /\ <>[]following /\ <>[](pending = 0)
    => <>[](rendering \in {0, last} /\ (rendering = 0 => P!OnDisplay(last)))

=============================================================================
