----------------------------- MODULE PageProofs -----------------------------
(* The selection, the list and the graph of the page agree, for any number of
   captures and of polls in flight. *)
EXTENDS ViewerPage, TLAPS

(* Only a click stops the following, and a click selects. *)
UserSelectionExists == ~following => selected # 0

(* A page is parsed with captures; before that nothing is under way. *)
OpenedWithCaptures ==
    /\ page # "closed" => captures # 0
    /\ page = "closed" => /\ captures = 0 /\ selected = 0 /\ rendering = 0
                          /\ inflight = << >>

(* A message is about a rendering that is over.  A rendering that no Reset was
   beside has nobody draw over it but a Reset of its own layout. *)
DrawnAlone ==
    /\ rendering # 0 => told = 0
    /\ ~overlapped => /\ resetting \in {0, laidOut}
                      /\ rendering # 0 => resetting = 0

PageInv ==
    /\ TypeOK
    /\ OpenedWithCaptures
    /\ GraphSettlesOnSelection
    /\ FollowingSelectsLatest
    /\ UserSelectionExists
    /\ DrawnAlone

LEMMA PageInit == Init => PageInv
<1> SUFFICES ASSUME Init PROVE PageInv
    OBVIOUS
<1> USE DEF Init
<1>1. inflight \in Seq(0 .. log) OBVIOUS
<1>2. 0 \in 0 .. MaxCaptures BY ViewerPageAssumption
<1>3. {selected, pending, rendering, laidOut, told, resetting, shown} \subseteq 0 .. log OBVIOUS
<1>4. TypeOK
      BY <1>1, <1>2, <1>3 DEF TypeOK
<1>5. OpenedWithCaptures BY DEF OpenedWithCaptures
<1>6. GraphSettlesOnSelection BY DEF GraphSettlesOnSelection
<1>7. FollowingSelectsLatest BY DEF FollowingSelectsLatest
<1>8. UserSelectionExists BY DEF UserSelectionExists
<1>9. DrawnAlone BY DEF DrawnAlone
<1> QED BY <1>4, <1>5, <1>6, <1>7, <1>8, <1>9 DEF PageInv

(* What remains of the polls in flight when one is over *)
LEMMA RemovePoll ==
    ASSUME NEW S, NEW s \in Seq(S), NEW i \in 1 .. Len(s)
    PROVE  RemoveAt(s, i) \in Seq(S)
<1>1. SubSeq(s, 1, i - 1) \in Seq(S)
  <2>1. \A k \in 1 .. i - 1 : k \in 1 .. Len(s) OBVIOUS
  <2> QED BY <2>1
<1>2. SubSeq(s, i + 1, Len(s)) \in Seq(S)
      OBVIOUS
<1> QED BY <1>1, <1>2 DEF RemoveAt

(* A larger log admits the same list lengths. *)
LEMMA PollsOfLargerLog ==
    ASSUME NEW s \in Seq(0 .. log), log \in Nat
    PROVE  s \in Seq(0 .. log + 1)
<1>1. s \in [1 .. Len(s) -> 0 .. log] /\ Len(s) \in Nat OBVIOUS
<1>2. s \in [1 .. Len(s) -> 0 .. log + 1] BY <1>1
<1> QED BY <1>1, <1>2

Drawn == {selected, pending, rendering, laidOut, told, resetting, shown} \subseteq 0 .. log

(* selectCapture keeps graph and selection together. *)
LEMMA SelectionSettles ==
    ASSUME PageInv, NEW n \in 1 .. log, SelectCapture(n), UNCHANGED log
    PROVE  /\ GraphSettlesOnSelection' /\ DrawnAlone' /\ Drawn'
           /\ overlapped' \in BOOLEAN
           /\ selected' = n
<1> USE DEF PageInv, TypeOK, GraphSettlesOnSelection, DrawnAlone, Drawn,
            SelectCapture, QueueGraphRender
<1>1. CASE rendering = 0
  <2>1. rendering' = n /\ told' = 0 /\ overlapped' = (resetting # 0)
        BY <1>1 DEF RenderGraph
  <2>2. selected' = n /\ pending' = 0 /\ UNCHANGED <<laidOut, resetting, shown>>
        BY <1>1
  <2>3. overlapped' \in BOOLEAN /\ (~overlapped' => resetting = 0)
        BY <2>1, Zenon
  <2> QED BY <2>1, <2>2, <2>3
<1>2. CASE rendering # 0
      BY <1>2
<1> QED BY <1>1, <1>2

(* So does the loop, when a rendering is over that left its message or none. *)
LEMMA LoopSettles ==
    ASSUME PageInv, NEW message \in {0, rendering}, LoopGoesOn(message), rendering # 0,
           UNCHANGED <<log, selected, resetting>>, laidOut' \in {laidOut, rendering},
           shown' \in {shown, rendering},
           message = 0 => laidOut' = rendering /\ (shown' = rendering \/ overlapped)
    PROVE  /\ GraphSettlesOnSelection' /\ DrawnAlone' /\ Drawn'
           /\ overlapped' \in BOOLEAN
           /\ page' \in {page, "polling", "static"}
<1> USE DEF PageInv, TypeOK, GraphSettlesOnSelection, DrawnAlone, Drawn, LoopGoesOn
<1>1. CASE pending # 0
  <2>1. /\ rendering' = pending /\ told' = 0 /\ overlapped' = (resetting # 0)
        /\ pending' = 0 /\ UNCHANGED page
        BY <1>1 DEF RenderGraph
  <2>2. overlapped' \in BOOLEAN /\ (~overlapped' => resetting = 0)
        BY <2>1, Zenon
  <2> QED BY <1>1, <2>1, <2>2
<1>2. CASE pending = 0
  <2>1. /\ rendering' = 0 /\ told' = message /\ pending' = 0 /\ UNCHANGED overlapped
        /\ page' \in {"polling", "static"}
        BY <1>2
  <2>2. selected = rendering
        BY <1>2
  <2> QED BY <2>1, <2>2 DEF OnDisplay
<1> QED BY <1>1, <1>2

LEMMA PageStep == PageInv /\ [Next]_vars => PageInv'
<1> SUFFICES ASSUME PageInv, [Next]_vars PROVE PageInv'
    OBVIOUS
<1> USE DEF PageInv, TypeOK, OpenedWithCaptures, GraphSettlesOnSelection, FollowingSelectsLatest,
            UserSelectionExists, DrawnAlone, graph
<1>1. CASE Capture
  <2>1. log' = log + 1 /\ log + 1 \in 0 .. MaxCaptures
        BY <1>1, ViewerPageAssumption DEF Capture
  <2>2. inflight' \in Seq(0 .. log')
        BY <1>1, <2>1, PollsOfLargerLog, ViewerPageAssumption DEF Capture
  <2> QED BY <1>1, <2>1, <2>2, ViewerPageAssumption DEF Capture, OnDisplay
<1>2. CASE Answer
  <2>1. PICK i \in 1 .. Len(inflight) : inflight' = [inflight EXCEPT ![i] = log]
        BY <1>2 DEF Answer
  <2>2. inflight' \in Seq(0 .. log)
        BY <2>1, ViewerPageAssumption
  <2>3. page # "closed" BY <2>1
  <2> QED BY <1>2, <2>2, <2>3 DEF Answer, OnDisplay
<1>3. CASE Exit
      BY <1>3 DEF Exit, OnDisplay
<1>4. CASE Load
  <2>1. captures \in 1 .. log BY <1>4, ViewerPageAssumption DEF Load
  <2>2. UNCHANGED <<log, alive, captures, following, live, inflight>> /\ page' = "loading"
        /\ SelectCapture(captures)
        BY <1>4 DEF Load
  <2>3. /\ GraphSettlesOnSelection' /\ DrawnAlone' /\ Drawn' /\ overlapped' \in BOOLEAN
        /\ selected' = captures
        BY <2>1, <2>2, SelectionSettles DEF PageInv
  <2> HIDE DEF GraphSettlesOnSelection, DrawnAlone
  <2> QED BY <2>1, <2>2, <2>3 DEF Drawn
<1>5. CASE RenderSettles
  <2>1. /\ UNCHANGED <<log, alive, captures, selected, following, resetting, live, inflight>>
        /\ rendering # 0
        BY <1>5 DEF RenderSettles, RenderShows, RenderFails
  <2>2. /\ GraphSettlesOnSelection' /\ DrawnAlone' /\ Drawn' /\ overlapped' \in BOOLEAN
        /\ page' \in {page, "polling", "static"}
    <3>1. CASE RenderShows
      <4>1. LoopGoesOn(0) /\ laidOut' = rendering
            BY <3>1 DEF RenderShows
      <4>2. shown' \in {shown, rendering} /\ (shown' = rendering \/ overlapped)
            BY <3>1 DEF RenderShows
      <4> HIDE DEF PageInv, GraphSettlesOnSelection, DrawnAlone
      <4> QED BY <2>1, <4>1, <4>2, LoopSettles
    <3>2. CASE RenderFails
          BY <2>1, <3>2, LoopSettles DEF RenderFails
    <3> QED BY <1>5, <3>1, <3>2 DEF RenderSettles
  <2>3. page # "closed"
        BY <2>1
  <2> HIDE DEF GraphSettlesOnSelection, DrawnAlone
  <2> QED BY <2>1, <2>2, <2>3 DEF Drawn
<1>6. CASE Poll
  <2>1. inflight' \in Seq(0 .. log)
        BY <1>6, ViewerPageAssumption DEF Poll
  <2> QED BY <1>6, <2>1 DEF Poll, OnDisplay
<1>7. ASSUME NEW n \in 1 .. captures, Click(n) PROVE PageInv'
  <2>1. n \in 1 .. log BY ViewerPageAssumption
  <2>2. /\ UNCHANGED <<log, alive, captures, page, live, inflight>>
        /\ SelectCapture(n) /\ following' = (n = captures)
        BY <1>7 DEF Click
  <2>3. /\ GraphSettlesOnSelection' /\ DrawnAlone' /\ Drawn' /\ overlapped' \in BOOLEAN
        /\ selected' = n
        BY <2>1, <2>2, SelectionSettles DEF PageInv
  <2>4. following' \in BOOLEAN /\ (following' => n = captures)
        BY <2>2, Zenon
  <2>5. n # 0 /\ page # "closed" BY <2>1
  <2> HIDE DEF GraphSettlesOnSelection, DrawnAlone
  <2> QED BY <2>2, <2>3, <2>4, <2>5 DEF Drawn
<1>8. ASSUME NEW i \in 1 .. Len(inflight), Deliver(i) PROVE PageInv'
  <2>1. /\ UNCHANGED <<log, alive, following, page, live>>
        /\ page # "closed"
        /\ inflight' \in Seq(0 .. log')
        BY <1>8, RemovePoll DEF Deliver, Arrives
  <2>2. inflight[i] \in 1 .. log
        BY <1>8, ViewerPageAssumption DEF Deliver
  <2>3. CASE inflight[i] = captures
        BY <1>8, <2>1, <2>3 DEF Deliver, SelectNothing, OnDisplay
  <2>4. CASE inflight[i] # captures /\ (following \/ selected = 0)
    <3>1. SelectCapture(inflight[i]) /\ captures' = inflight[i]
          BY <1>8, <2>4 DEF Deliver
    <3>2. /\ GraphSettlesOnSelection' /\ DrawnAlone' /\ Drawn' /\ overlapped' \in BOOLEAN
          /\ selected' = inflight[i]
          BY <2>1, <2>2, <3>1, SelectionSettles DEF PageInv
    <3> HIDE DEF GraphSettlesOnSelection, DrawnAlone
    <3> QED BY <2>1, <2>2, <3>1, <3>2 DEF Drawn
  <2>5. CASE inflight[i] # captures /\ ~(following \/ selected = 0)
        BY <1>8, <2>1, <2>2, <2>5 DEF Deliver, SelectNothing, OnDisplay
  <2> QED BY <2>3, <2>4, <2>5
<1>9. ASSUME NEW i \in 1 .. Len(inflight), PollFails(i) PROVE PageInv'
  <2>1. inflight' \in Seq(0 .. log')
        BY <1>9, RemovePoll DEF PollFails, Arrives
  <2> QED BY <1>9, <2>1 DEF PollFails, Arrives, SelectNothing, OnDisplay
<1>10. CASE Open
      BY <1>10, ViewerPageAssumption DEF Open, OnDisplay
<1>11. CASE Reset
  <2>1. overlapped' \in BOOLEAN /\ (overlapped' <=> overlapped \/ rendering # 0)
        BY <1>11, Zenon DEF Reset
  <2>2. /\ resetting' = laidOut
        /\ UNCHANGED <<log, alive, captures, selected, following, pending, rendering,
                       laidOut, told, shown, page, live, inflight>>
        BY <1>11 DEF Reset
  <2> QED BY <2>1, <2>2 DEF OnDisplay
<1>12. CASE ResetSettles
      BY <1>12 DEF ResetSettles, OnDisplay
<1>13. CASE UNCHANGED vars
      BY <1>13 DEF vars, OnDisplay
<1> QED
    BY <1>1, <1>2, <1>3, <1>4, <1>5, <1>6, <1>7, <1>8, <1>9, <1>10, <1>11, <1>12, <1>13
    DEF Next, Program, Script, NothingCaptured

LEMMA PageAlways == Spec => []PageInv
<1>1. Init => PageInv BY PageInit
<1>2. PageInv /\ [Next]_vars => PageInv' BY PageStep
<1> QED BY <1>1, <1>2, PTL DEF Spec

(* The script's variables keep their types: the page never holds or selects a
   capture that the program has not made (session.html, the script's state). *)
THEOREM PageTyped == Spec => []TypeOK
<1>1. PageInv => TypeOK BY DEF PageInv
<1> QED BY PageAlways, <1>1, PTL

(* When the render loop is idle the page presents the selected capture, its graph
   or the message that it failed, and when it is not it ends with that one
   (queueGraphRender, renderGraph), whatever a Reset draws meanwhile. *)
THEOREM GraphSettles == Spec => []GraphSettlesOnSelection
<1>1. PageInv => GraphSettlesOnSelection BY DEF PageInv
<1> QED BY PageAlways, <1>1, PTL

(* While the page follows the latest capture, that is the one selected, whatever
   responses overtake one another (pollCaptures, selectCapture). *)
THEOREM FollowsLatest == Spec => []FollowingSelectsLatest
<1>1. PageInv => FollowingSelectsLatest BY DEF PageInv
<1> QED BY PageAlways, <1>1, PTL

(* A response changes no selection that the user made (pollCaptures). *)
THEOREM UserSelectionKept == Spec => ResponseKeepsUserSelection
<1>1. PageInv /\ [Next]_vars =>
        [inflight' # inflight /\ ~following => selected' = selected]_vars
  <2> SUFFICES ASSUME PageInv, Next, inflight' # inflight, ~following
               PROVE  selected' = selected
      BY DEF vars
  <2>1. selected # 0 BY DEF PageInv, UserSelectionExists
  <2>2. ASSUME NEW i \in 1 .. Len(inflight), Deliver(i) PROVE selected' = selected
        BY <2>1, <2>2 DEF Deliver, SelectNothing
  <2> QED
      BY <2>2 DEF Next, Program, Script, Capture, Answer, Exit, Open, Load, RenderSettles,
                  RenderShows, RenderFails, Reset, ResetSettles, NothingCaptured, vars,
                  Poll, Click, PollFails, SelectNothing
<1> QED BY PageAlways, <1>1, PTL DEF Spec, ResponseKeepsUserSelection
=============================================================================
