----------------------------- MODULE ViewerPage -----------------------------
(***************************************************************************)
(* The script of templates/session.html: the page that shows a session's   *)
(* captures and polls the program's server for more.                       *)
(*                                                                         *)
(* A session's captures are numbered 1, 2, 3 ... and only ever appended    *)
(* (Session!Numbered), so a capture list is its length and capture n is n; *)
(* 0 stands for null.  The script runs to its next await without           *)
(* interruption: an action is one such stretch, begun by an event.         *)
(***************************************************************************)
EXTENDS Naturals, Sequences, SequencesExt

CONSTANTS
    MaxCaptures,  \* bound on the captures the program makes
    MaxInFlight,  \* bound on polls awaiting their response (setInterval has none)
    HasToolbar    \* the core's graph has a toolbar to put the Reset button into

ASSUME ViewerPageAssumption ==
    MaxCaptures \in Nat /\ MaxInFlight \in Nat /\ HasToolbar \in BOOLEAN

VARIABLES
    log,        \* captures of the session, in the program
    alive,      \* the program runs
    captures,   \* captures in the page
    selected,   \* selectedSequence
    following,  \* followingLatest
    pending,    \* pendingCapture
    rendering,  \* the capture being rendered (renderInProgress)
    laidOut,    \* the capture whose layout is kept (instanceLayout)
    told,       \* the capture whose failure the error message tells
    resetting,  \* the capture that the Reset button is drawing again
    shown,      \* the capture whose graph is displayed
    overlapped, \* the last rendering had a Reset's in flight beside it
    page,       \* "closed", "parsed", "loading" (the load handler awaits),
                \* then "polling", or "static" without an endpoint
    live,       \* captureEndpoint is not null
    inflight    \* polls in the order of their fetch: response length or 0

graph == <<pending, rendering, laidOut, told, resetting, shown, overlapped>>

vars == <<log, alive, captures, selected, following, graph, page, live, inflight>>

Init ==
    /\ log = 0
    /\ alive = TRUE
    /\ captures = 0
    /\ live = FALSE
    /\ selected = 0
    /\ following = TRUE
    /\ pending = 0
    /\ rendering = 0 /\ laidOut = 0 /\ told = 0 /\ resetting = 0 /\ shown = 0
    /\ overlapped = FALSE
    /\ page = "closed"
    /\ inflight = << >>

-----------------------------------------------------------------------------
(* The program (src/session.rs): captures, answers polls in order, exits. *)

Capture ==
    /\ alive /\ log < MaxCaptures
    /\ log' = log + 1
    /\ UNCHANGED <<alive, captures, selected, following, graph, page, live, inflight>>

Answer ==
    /\ alive
    /\ \E i \in 1 .. Len(inflight) :
          /\ inflight[i] = 0 /\ \A j \in 1 .. i - 1 : inflight[j] # 0
          /\ inflight' = [inflight EXCEPT ![i] = log]
    /\ UNCHANGED <<log, alive, captures, selected, following, graph, page, live>>

Exit ==
    /\ alive
    /\ alive' = FALSE
    /\ UNCHANGED <<log, captures, selected, following, graph, page, live, inflight>>

-----------------------------------------------------------------------------
(* The script. *)

(* renderGraph up to its first await: it clears the error message and calls
   renderLayout, perhaps while a Reset's call is in flight. *)
RenderGraph(n) ==
    /\ rendering' = n
    /\ told' = 0
    /\ overlapped' = (resetting # 0)

(* The mutants: see the note in Session. *)
RenderOnlyIfIdle(n) ==             \* a request during a render is dropped
    /\ IF rendering = 0 THEN RenderGraph(n) ELSE UNCHANGED <<rendering, told, overlapped>>
    /\ UNCHANGED <<pending, laidOut, resetting, shown>>

(* queueGraphRender: start rendering, or leave the request to the loop. *)
QueueGraphRender(n) ==
    /\ IF rendering = 0
       THEN RenderGraph(n) /\ UNCHANGED pending
       ELSE pending' = n /\ UNCHANGED <<rendering, told, overlapped>>
    /\ UNCHANGED <<laidOut, resetting, shown>>

(* selectCapture, of a capture that is in the list *)
SelectCapture(n) == selected' = n /\ QueueGraphRender(n)

SelectNothing == UNCHANGED <<selected, graph>>

(* The browser parses the page it was given: initialCaptures, of an old snapshot
   perhaps, and the endpoint if the program's server had started. *)
Open ==
    /\ page = "closed"
    /\ page' = "parsed"
    /\ captures' \in 1 .. log
    /\ live' \in BOOLEAN
    /\ UNCHANGED <<log, alive, selected, following, graph, inflight>>

(* The load event selects the latest capture and awaits its graph. *)
Load ==
    /\ page = "parsed"
    /\ page' = "loading"
    /\ SelectCapture(captures)
    /\ UNCHANGED <<log, alive, captures, following, live, inflight>>

EndsAlone(message) ==              \* the loop ends without its caller going on
    /\ pending' = 0
    /\ IF pending # 0
       THEN RenderGraph(pending)
       ELSE /\ rendering' = 0
            /\ told' = message
            /\ UNCHANGED overlapped
    /\ UNCHANGED page

(* The rest of the loop when renderGraph is over: it takes the most recent
   request; when there is none, whoever started it goes on, the load handler to
   setInterval if the page has an endpoint. *)
LoopGoesOn(message) ==
    /\ pending' = 0
    /\ IF pending # 0
       THEN RenderGraph(pending) /\ UNCHANGED page
       ELSE /\ rendering' = 0
            /\ told' = message
            /\ page' = IF live THEN "polling" ELSE "static"
            /\ UNCHANGED overlapped

(* renderLayout resolves and its layout is kept.  Of two calls in flight either
   may be the one whose drawing stays. *)
RenderShows ==
    /\ rendering # 0
    /\ laidOut' = rendering
    /\ shown' \in IF overlapped THEN {shown, rendering} ELSE {rendering}
    /\ LoopGoesOn(0)
    /\ UNCHANGED <<log, alive, captures, selected, following, resetting, live, inflight>>

(* The core is missing, the layout is unsatisfiable or something throws: the
   message says so, and the graph of an earlier capture stays. *)
RenderFails ==
    /\ rendering # 0
    /\ LoopGoesOn(rendering)
    /\ UNCHANGED <<log, alive, captures, selected, following, laidOut, resetting,
                   shown, live, inflight>>

RenderSettles == RenderShows \/ RenderFails

(* The user clicks Reset, which is there once a layout was: it draws that layout
   again, outside the queue.  A bound: one such drawing at a time. *)
Reset ==
    /\ HasToolbar /\ laidOut # 0 /\ resetting = 0
    /\ resetting' = laidOut
    /\ overlapped' = (overlapped \/ rendering # 0)
    /\ UNCHANGED <<log, alive, captures, selected, following, pending, rendering,
                   laidOut, told, shown, page, live, inflight>>

ResetSettles ==
    /\ resetting # 0
    /\ resetting' = 0
    /\ shown' \in {shown, resetting}
    /\ UNCHANGED <<log, alive, captures, selected, following, pending, rendering,
                   laidOut, told, overlapped, page, live, inflight>>

ClickFollows(n) ==                 \* any click goes on following
    /\ page # "parsed"
    /\ n <= captures
    /\ following' = TRUE
    /\ SelectCapture(n)
    /\ UNCHANGED <<log, alive, captures, page, live, inflight>>

(* The user clicks a capture in the list. *)
Click(n) ==
    /\ page # "parsed"
    /\ n <= captures
    /\ following' = (n = captures)
    /\ SelectCapture(n)
    /\ UNCHANGED <<log, alive, captures, page, live, inflight>>

(* The interval fires: pollCaptures up to its fetch. *)
Poll ==
    /\ page = "polling"
    /\ Len(inflight) < MaxInFlight
    /\ inflight' = Append(inflight, 0)
    /\ UNCHANGED <<log, alive, captures, selected, following, graph, page, live>>

(* A poll is over, perhaps before one that was sent earlier. *)
Arrives(i) ==
    /\ inflight' = RemoveAt(inflight, i)
    /\ UNCHANGED <<log, alive, following, page, live>>

DeliverOneByOne(i) ==              \* captures are appended one at a time
    /\ inflight[i] # 0
    /\ Arrives(i)
    /\ captures' = IF inflight[i] = captures THEN captures ELSE captures + 1
    /\ IF inflight[i] # captures /\ following THEN SelectCapture(captures + 1)
       ELSE SelectNothing

DeliverWhileFollowing(i) ==        \* new captures are taken only to be selected
    /\ inflight[i] # 0
    /\ Arrives(i)
    /\ IF inflight[i] = captures \/ ~following
       THEN UNCHANGED captures /\ SelectNothing
       ELSE captures' = inflight[i] /\ SelectCapture(inflight[i])

DeliverAndSelect(i) ==             \* new captures are always selected
    /\ inflight[i] # 0
    /\ Arrives(i)
    /\ IF inflight[i] = captures
       THEN UNCHANGED captures /\ SelectNothing
       ELSE captures' = inflight[i] /\ SelectCapture(inflight[i])

(* pollCaptures after its awaits: a list of another length replaces ours. *)
Deliver(i) ==
    /\ inflight[i] # 0
    /\ Arrives(i)
    /\ IF inflight[i] = captures
       THEN UNCHANGED captures /\ SelectNothing
       ELSE /\ captures' = inflight[i]
            /\ IF following \/ selected = 0
               THEN SelectCapture(inflight[i])
               ELSE SelectNothing

(* fetch or json rejects, or the response is not ok. *)
PollFails(i) == Arrives(i) /\ UNCHANGED captures /\ SelectNothing

-----------------------------------------------------------------------------
Program == Capture \/ Answer \/ Exit

Script ==
    \/ Open \/ Load \/ RenderSettles \/ Poll \/ Reset \/ ResetSettles
    \/ \E n \in 1 .. captures : Click(n)
    \/ \E i \in 1 .. Len(inflight) : Deliver(i) \/ PollFails(i)

NothingCaptured == ~alive /\ log = 0 /\ UNCHANGED vars

Next == Program \/ Script \/ NothingCaptured

Spec == Init /\ [][Next]_vars

(* The browser fires load and the interval and settles renders, of a page that
   was opened; while the program lives not every request, nor every response, is
   lost (strong fairness).  The user need not click, nor the program capture or
   exit. *)
Fairness ==
    /\ WF_vars(Load) /\ WF_vars(RenderSettles) /\ WF_vars(Poll)
    /\ SF_vars(Answer) /\ SF_vars(\E i \in 1 .. Len(inflight) : Deliver(i))

FairSpec == Spec /\ Fairness

-----------------------------------------------------------------------------
TypeOK ==
    /\ log \in 0 .. MaxCaptures
    /\ alive \in BOOLEAN
    /\ captures \in 0 .. log
    /\ live \in BOOLEAN
    /\ {selected, pending, rendering, laidOut, told, resetting, shown} \subseteq 0 .. log
    /\ {following, overlapped} \subseteq BOOLEAN
    /\ page \in {"closed", "parsed", "loading", "polling", "static"}
    /\ inflight \in Seq(0 .. log)

(* The page presents capture n: the message says that its graph could not be made
   or, without a message, its layout is the one kept and its graph is displayed,
   unless a Reset was drawing beside it (the queue does not know of Resets). *)
OnDisplay(n) ==
    \/ told = n
    \/ told = 0 /\ laidOut = n /\ (shown = n \/ overlapped)

(* "Render the most recently requested capture next": when no render is in
   progress the page presents the selection, its graph or its failure and never
   the graph of an earlier capture without a message; otherwise the loop will. *)
GraphSettlesOnSelection ==
    /\ pending # 0 => rendering # 0 /\ pending = selected
    /\ rendering # 0 /\ pending = 0 => rendering = selected
    /\ rendering = 0 /\ selected # 0 => OnDisplay(selected)

(* While the page follows the latest capture, that is the one selected. *)
FollowingSelectsLatest == following /\ selected # 0 => selected = captures

(* A response never moves a selection the user made. *)
ResponseKeepsUserSelection ==
    [][inflight' # inflight /\ ~following => selected' = selected]_vars

(* "The captures already loaded in this page remain usable." *)
LoadedCapturesRemain == [][captures' >= captures]_vars

(* A live page starts polling once the first graph is there, unless the user
   keeps asking for another one before the loop has ended (the load handler
   awaits the loop, not its own graph). *)
PollingStarts == <>live /\ <>[](pending = 0) => <>(page = "polling")

(* From then on it catches up with a program that lives on and stops capturing,
   whatever responses are lost or overtake one another ... *)
CatchesUp == []alive /\ <>(page = "polling") => <>[](captures = log)

(* ... and, unless the user is looking at an older capture, in the end renders
   none but its latest, and presents it whenever no render is in progress. *)
ShowsLatest ==
    []alive /\ <>(page = "polling") /\ <>[]following
       => <>[](rendering \in {0, log} /\ (rendering = 0 => OnDisplay(log)))
=============================================================================
