--------------------------- MODULE SessionProofs ---------------------------
(* Proofs about Session, for any number of threads, sessions and files, with
   every fault enabled: the types, mutual exclusion, the capture log, the
   snapshot file and the server's responses, the viewer's start-up, and the
   refinement of CaptureLog. *)
EXTENDS SessionRefines, TLAPS

LEMMA TypeInit == Init => TypeOK
BY PathsAssumption, ThreadsAssumption
   DEF Init, TypeOK, Page, Absent, Torn, Steps, RequestKinds

(* A page rendered from well-typed state is a page. *)
LEMMA RenderType ==
    ASSUME TypeOK, NEW s \in Sessions
    PROVE  RenderHtml(s) \in Page
BY DEF TypeOK, RenderHtml, Page

LEMMA TypeStep == TypeOK /\ [Next]_vars => TypeOK'
<1> SUFFICES ASSUME TypeOK, [Next]_vars PROVE TypeOK'
    OBVIOUS
<1> USE PathsAssumption, ThreadsAssumption, EnvironmentAssumption
    DEF shared, serving, history, locals, Goto, Steps
<1>1. ASSUME NEW t \in Threads, NEW s \in Sessions, BeginCapture(t, s) PROVE TypeOK'
      BY <1>1 DEF TypeOK, BeginCapture
<1>2. ASSUME NEW t \in Threads, LockCaptures(t) PROVE TypeOK'
      BY <1>2 DEF TypeOK, LockCaptures
<1>3. ASSUME NEW t \in Threads, Push(t) PROVE TypeOK'
  <2>1. [sequence |-> number[t], by |-> t, nth |-> made[t]] \in Capture
        BY DEF TypeOK, Capture
  <2>2. cur[t] \in Sessions /\ captures[cur[t]] \in Seq(Capture)
        BY DEF TypeOK
  <2>3. captures' \in [Sessions -> Seq(Capture)]
        BY <1>3, <2>1, <2>2 DEF TypeOK, Push
  <2> QED BY <1>3, <2>3 DEF TypeOK, Push
<1>4. ASSUME NEW t \in Threads, Render(t) PROVE TypeOK'
  <2>1. RenderHtml(cur[t]) \in Page
        BY RenderType DEF TypeOK
  <2> QED BY <1>4, <2>1 DEF TypeOK, Render
<1>5. ASSUME NEW t \in Threads, WriteTemp(t) PROVE TypeOK'
      BY <1>5 DEF TypeOK, WriteTemp, WriteEnds
<1>6. ASSUME NEW t \in Threads, Rename(t) PROVE TypeOK'
  <2>1. html[t] \in Page \cup {Absent, Torn} /\ PathOf[cur[t]] \in Paths
        BY DEF TypeOK
  <2> QED BY <1>6, <2>1 DEF TypeOK, Rename, WriteEnds
<1>7. ASSUME NEW t \in Threads, Truncate(t) PROVE TypeOK'
  <2>1. PathOf[cur[t]] \in Paths /\ Torn \in Page \cup {Absent, Torn}
        BY DEF TypeOK
  <2> QED BY <1>7, <2>1 DEF TypeOK, Truncate, WriteEnds
<1>8. ASSUME NEW t \in Threads, FallbackWrite(t) PROVE TypeOK'
  <2>1. html[t] \in Page \cup {Absent, Torn} /\ PathOf[cur[t]] \in Paths
        BY DEF TypeOK
  <2> QED BY <1>8, <2>1 DEF TypeOK, FallbackWrite, WriteEnds
<1>9. ASSUME NEW t \in Threads, Report(t) PROVE TypeOK'
      BY <1>9 DEF TypeOK, Report
<1>10. ASSUME NEW t \in Threads, AlreadyStarted(t) PROVE TypeOK'
      BY <1>10 DEF TypeOK, AlreadyStarted
<1>11. ASSUME NEW t \in Threads, LockViewer(t) PROVE TypeOK'
      BY <1>11 DEF TypeOK, LockViewer
<1>12. ASSUME NEW t \in Threads, StartServer(t) PROVE TypeOK'
  <2> DEFINE s == cur[t]
  <2>1. s \in Sessions /\ starts' \in [Sessions -> Nat]
        BY <1>12 DEF TypeOK, StartServer
  <2>2. CASE pc[t] = "start" /\ pc' = [pc EXCEPT ![t] = "endpoint"]
             /\ server' = [server EXCEPT ![s] = "accept"] /\ UNCHANGED viewer
        BY <1>12, <2>1, <2>2 DEF TypeOK, StartServer
  <2>3. CASE pc[t] = "start" /\ pc' = [pc EXCEPT ![t] = "open"]
             /\ viewer' = [viewer EXCEPT ![s] = "SnapshotOnly"] /\ UNCHANGED server
        BY <1>12, <2>1, <2>3 DEF TypeOK, StartServer
  <2> QED BY <1>12, <2>2, <2>3 DEF StartServer
<1>13. ASSUME NEW t \in Threads, SetEndpoint(t) PROVE TypeOK'
      BY <1>13 DEF TypeOK, SetEndpoint
<1>14. ASSUME NEW t \in Threads, Relock(t) PROVE TypeOK'
      BY <1>14 DEF TypeOK, Relock
<1>15. ASSUME NEW t \in Threads, OpenBrowser(t) PROVE TypeOK'
      BY <1>15 DEF TypeOK, OpenBrowser
<1>16. ASSUME NEW t \in Threads, CloseViewer(t) PROVE TypeOK'
      BY <1>16 DEF TypeOK, CloseViewer
<1>17. ASSUME NEW t \in Threads, Panic(t) PROVE TypeOK'
      BY <1>17 DEF TypeOK, Panic
<1>18. ASSUME NEW s \in Sessions, Accept(s) PROVE TypeOK'
      BY <1>18 DEF TypeOK, Accept
<1>19. ASSUME NEW s \in Sessions, LockAndServe(s) PROVE TypeOK'
      BY <1>19 DEF TypeOK, LockAndServe
<1>20. ASSUME NEW s \in Sessions, FinishResponse(s) PROVE TypeOK'
      BY <1>20 DEF TypeOK, FinishResponse
<1>21. ASSUME NEW s \in Sessions, ReadTimeout(s) PROVE TypeOK'
      BY <1>21 DEF TypeOK, ReadTimeout
<1>22. ASSUME UNCHANGED vars PROVE TypeOK'
      BY <1>22 DEF TypeOK, vars
<1> QED
    BY <1>1, <1>2, <1>3, <1>4, <1>5, <1>6, <1>7, <1>8, <1>9, <1>10, <1>11, <1>12,
       <1>13, <1>14, <1>15, <1>16, <1>17, <1>18, <1>19, <1>20, <1>21, <1>22
    DEF Next, ThreadStep, ServerStep

(* The variables keep their types, whatever fails and however calls interleave
   (session.rs: the fields of SessionInner and the locals of append). *)
THEOREM TypeCorrect == Spec => []TypeOK
<1>1. Init => TypeOK BY TypeInit
<1>2. TypeOK /\ [Next]_vars => TypeOK' BY TypeStep
<1> QED BY <1>1, <1>2, PTL DEF Spec

-----------------------------------------------------------------------------
(* Mutual exclusion.  pc and the two lock variables always agree.  That the
   server is not running when a thread starts it is part of the argument: the
   server holds captures while it answers. *)

StartUpOrder ==
    \A s \in Sessions :
        /\ \/ viewer[s] # "NotStarted"
           \/ \E t \in Threads : cur[t] = s /\ pc[t] = "endpoint"
           \/ server[s] = "off" /\ starts[s] = 0
        /\ viewer[s] = "NotStarted" => opens[s] = 0
        /\ \A t \in Threads : cur[t] = s =>
              /\ pc[t] \in {"start", "endpoint"} => viewer[s] = "NotStarted"
              /\ \/ pc[t] \in {"relock", "open"}
                 \/ pc[t] \in Writing /\ viewLock[s] = t
                 => viewer[s] # "NotStarted" /\ opens[s] = 0

LocksInv == TypeOK /\ CapturesLockHeld /\ ViewerLockHeld /\ StartUpOrder /\ StartedAtMostOnce

LEMMA LocksInit == Init => LocksInv
BY TypeInit, ThreadsAssumption
   DEF Init, LocksInv, CapturesLockHeld, ViewerLockHeld, StartUpOrder,
       StartedAtMostOnce, Writing, StartingUp

(* A step that takes or drops no captures guard. *)
LEMMA CapturesLockKept ==
    ASSUME TypeOK, CapturesLockHeld, NEW t \in Threads, NEW to \in Steps,
           UNCHANGED <<capLock, server, cur>>, pc' = [pc EXCEPT ![t] = to],
           pc[t] \in {"push"} \cup Writing <=> to \in {"push"} \cup Writing
    PROVE  CapturesLockHeld'
BY DEF TypeOK, CapturesLockHeld

(* The end of write_snapshot drops it. *)
LEMMA CapturesLockDropped ==
    ASSUME TypeOK, CapturesLockHeld, NEW t \in Threads, NEW result,
           pc[t] \in Writing, WriteEnds(t, result)
    PROVE  CapturesLockHeld'
BY ThreadsAssumption DEF TypeOK, CapturesLockHeld, WriteEnds, Writing, serving

LEMMA CapturesLockStep == LocksInv /\ [Next]_vars => CapturesLockHeld'
<1> SUFFICES ASSUME LocksInv, [Next]_vars PROVE CapturesLockHeld'
    OBVIOUS
<1> USE ThreadsAssumption, EnvironmentAssumption
    DEF LocksInv, CapturesLockHeld, Writing, shared, serving, history, locals, Goto
<1>1. ASSUME NEW t \in Threads, NEW s \in Sessions, BeginCapture(t, s) PROVE CapturesLockHeld'
      BY <1>1 DEF TypeOK, BeginCapture
<1>2. ASSUME NEW t \in Threads, LockCaptures(t) PROVE CapturesLockHeld'
      BY <1>2 DEF TypeOK, LockCaptures
<1>3. ASSUME NEW t \in Threads, Push(t) PROVE CapturesLockHeld'
  <2>1. /\ UNCHANGED <<capLock, server, cur>>
        /\ pc[t] = "push" /\ pc' = [pc EXCEPT ![t] = "render"]
        BY <1>3 DEF Push
  <2> QED BY <2>1, CapturesLockKept DEF Steps
<1>4. ASSUME NEW t \in Threads, Render(t) PROVE CapturesLockHeld'
      BY <1>4 DEF TypeOK, Render
<1>5. ASSUME NEW t \in Threads, WriteTemp(t) PROVE CapturesLockHeld'
      BY <1>5 DEF TypeOK, WriteTemp, WriteEnds
<1>6. ASSUME NEW t \in Threads, Rename(t) PROVE CapturesLockHeld'
  <2>1. CASE pc[t] \in Writing /\ \E result \in BOOLEAN : WriteEnds(t, result)
        BY <2>1, CapturesLockDropped
  <2>2. CASE Goto(t, "rename", "truncate") /\ UNCHANGED <<shared, serving, history, locals>>
        BY <2>2 DEF TypeOK
  <2> QED BY <1>6, <2>1, <2>2 DEF Rename
<1>7. ASSUME NEW t \in Threads, Truncate(t) PROVE CapturesLockHeld'
  <2>1. CASE pc[t] \in Writing /\ \E result \in BOOLEAN : WriteEnds(t, result)
        BY <2>1, CapturesLockDropped
  <2>2. CASE /\ Goto(t, "truncate", "fallback")
             /\ UNCHANGED <<capLock, server, cur>>
        BY <2>2 DEF TypeOK
  <2> QED BY <1>7, <2>1, <2>2 DEF Truncate
<1>8. ASSUME NEW t \in Threads, FallbackWrite(t) PROVE CapturesLockHeld'
  <2>1. pc[t] \in Writing /\ \E result \in BOOLEAN : WriteEnds(t, result)
        BY <1>8 DEF FallbackWrite
  <2> QED BY <2>1, CapturesLockDropped
<1>9. ASSUME NEW t \in Threads, Report(t) PROVE CapturesLockHeld'
      BY <1>9 DEF TypeOK, Report
<1>10. ASSUME NEW t \in Threads, AlreadyStarted(t) PROVE CapturesLockHeld'
      BY <1>10 DEF TypeOK, AlreadyStarted
<1>11. ASSUME NEW t \in Threads, LockViewer(t) PROVE CapturesLockHeld'
      BY <1>11 DEF TypeOK, LockViewer
<1>12. ASSUME NEW t \in Threads, StartServer(t) PROVE CapturesLockHeld'
  <2>1. server[cur[t]] = "off" /\ cur[t] \in Sessions
        BY <1>12 DEF TypeOK, StartServer, ViewerLockHeld, StartUpOrder, StartingUp
  <2>2. /\ capLock' = capLock /\ cur' = cur
        /\ \A s \in Sessions : server'[s] = "write" <=> server[s] = "write"
        BY <1>12, <2>1 DEF TypeOK, StartServer
  <2>3. /\ pc[t] = "start" /\ pc'[t] \notin {"push"} \cup Writing
        /\ \A u \in Threads \ {t} : pc'[u] = pc[u]
        BY <1>12 DEF TypeOK, StartServer
  <2> QED BY <2>2, <2>3 DEF TypeOK
<1>13. ASSUME NEW t \in Threads, SetEndpoint(t) PROVE CapturesLockHeld'
      BY <1>13 DEF TypeOK, SetEndpoint
<1>14. ASSUME NEW t \in Threads, Relock(t) PROVE CapturesLockHeld'
      BY <1>14 DEF TypeOK, Relock
<1>15. ASSUME NEW t \in Threads, OpenBrowser(t) PROVE CapturesLockHeld'
      BY <1>15 DEF TypeOK, OpenBrowser
<1>16. ASSUME NEW t \in Threads, CloseViewer(t) PROVE CapturesLockHeld'
      BY <1>16 DEF TypeOK, CloseViewer
<1>17. ASSUME NEW t \in Threads, Panic(t) PROVE CapturesLockHeld'
  <2>1. /\ UNCHANGED <<capLock, server, cur>>
        /\ pc' = [pc EXCEPT ![t] = "panicked"]
        /\ pc[t] \notin {"push"} \cup Writing
        BY <1>17 DEF Panic
  <2> QED BY <2>1, CapturesLockKept DEF Steps
<1>18. ASSUME NEW s \in Sessions, Accept(s) PROVE CapturesLockHeld'
      BY <1>18 DEF TypeOK, Accept, RequestKinds
<1>19. ASSUME NEW s \in Sessions, LockAndServe(s) PROVE CapturesLockHeld'
      BY <1>19 DEF TypeOK, LockAndServe
<1>20. ASSUME NEW s \in Sessions, FinishResponse(s) PROVE CapturesLockHeld'
      BY <1>20 DEF TypeOK, FinishResponse
<1>21. ASSUME NEW s \in Sessions, ReadTimeout(s) PROVE CapturesLockHeld'
      BY <1>21 DEF TypeOK, ReadTimeout, RequestKinds
<1>22. ASSUME UNCHANGED vars PROVE CapturesLockHeld'
      BY <1>22 DEF vars
<1> QED
    BY <1>1, <1>2, <1>3, <1>4, <1>5, <1>6, <1>7, <1>8, <1>9, <1>10, <1>11, <1>12,
       <1>13, <1>14, <1>15, <1>16, <1>17, <1>18, <1>19, <1>20, <1>21, <1>22
    DEF Next, ThreadStep, ServerStep

(* A step that takes or drops no viewer guard. *)
LEMMA ViewerLockKept ==
    ASSUME TypeOK, ViewerLockHeld, NEW t \in Threads, NEW to \in Steps,
           UNCHANGED <<viewLock, cur>>, pc' = [pc EXCEPT ![t] = to],
           viewLock[cur[t]] = t => to \in StartingUp \cup Writing,
           to \in StartingUp => viewLock[cur[t]] = t
    PROVE  ViewerLockHeld'
BY DEF TypeOK, ViewerLockHeld

LEMMA ViewerLockWriteEnds ==
    ASSUME TypeOK, ViewerLockHeld, NEW t \in Threads, NEW result, WriteEnds(t, result)
    PROVE  ViewerLockHeld'
<1> DEFINE to == IF viewLock[cur[t]] = t THEN "open" ELSE "report"
<1>1. to \in Steps /\ pc' = [pc EXCEPT ![t] = to] /\ UNCHANGED <<viewLock, cur>>
      BY DEF WriteEnds, Steps
<1>2. /\ viewLock[cur[t]] = t => to \in StartingUp \cup Writing
      /\ to \in StartingUp => viewLock[cur[t]] = t
      BY DEF StartingUp
<1> HIDE DEF to
<1> QED BY <1>1, <1>2, ViewerLockKept

LEMMA ViewerLockStep == LocksInv /\ [Next]_vars => ViewerLockHeld'
<1> SUFFICES ASSUME LocksInv, [Next]_vars PROVE ViewerLockHeld'
    OBVIOUS
<1> USE ThreadsAssumption
    DEF LocksInv, ViewerLockHeld, Writing, StartingUp, shared, serving, history,
        locals, Goto
<1>1. ASSUME NEW t \in Threads, NEW s \in Sessions, BeginCapture(t, s) PROVE ViewerLockHeld'
      BY <1>1 DEF TypeOK, BeginCapture
<1>2. ASSUME NEW t \in Threads, LockCaptures(t) PROVE ViewerLockHeld'
      BY <1>2 DEF TypeOK, LockCaptures
<1>3. ASSUME NEW t \in Threads, Push(t) PROVE ViewerLockHeld'
  <2>1. /\ UNCHANGED <<viewLock, cur>>
        /\ pc[t] = "push" /\ pc' = [pc EXCEPT ![t] = "render"]
        BY <1>3 DEF Push
  <2> QED BY <2>1 DEF TypeOK
<1>4. ASSUME NEW t \in Threads, Render(t) PROVE ViewerLockHeld'
      BY <1>4 DEF TypeOK, Render
<1>5. ASSUME NEW t \in Threads, WriteTemp(t) PROVE ViewerLockHeld'
  <2>1. CASE pc[t] = "temp" /\ pc' = [pc EXCEPT ![t] = "rename"] /\ UNCHANGED <<viewLock, cur>>
        BY <2>1, ViewerLockKept DEF Steps
  <2>2. CASE \E result \in BOOLEAN : WriteEnds(t, result)
        BY <2>2, ViewerLockWriteEnds
  <2> QED BY <1>5, <2>1, <2>2 DEF WriteTemp
<1>6. ASSUME NEW t \in Threads, Rename(t) PROVE ViewerLockHeld'
  <2>1. CASE pc[t] = "rename" /\ pc' = [pc EXCEPT ![t] = "truncate"] /\ UNCHANGED <<viewLock, cur>>
        BY <2>1, ViewerLockKept DEF Steps
  <2>2. CASE \E result \in BOOLEAN : WriteEnds(t, result)
        BY <2>2, ViewerLockWriteEnds
  <2> QED BY <1>6, <2>1, <2>2 DEF Rename
<1>7. ASSUME NEW t \in Threads, Truncate(t) PROVE ViewerLockHeld'
  <2>1. CASE /\ pc[t] = "truncate" /\ pc' = [pc EXCEPT ![t] = "fallback"]
             /\ UNCHANGED <<viewLock, cur>>
        BY <2>1, ViewerLockKept DEF Steps
  <2>2. CASE \E result \in BOOLEAN : WriteEnds(t, result)
        BY <2>2, ViewerLockWriteEnds
  <2> QED BY <1>7, <2>1, <2>2 DEF Truncate
<1>8. ASSUME NEW t \in Threads, FallbackWrite(t) PROVE ViewerLockHeld'
  <2>1. \E result \in BOOLEAN : WriteEnds(t, result)
        BY <1>8 DEF FallbackWrite
  <2> QED BY <2>1, ViewerLockWriteEnds
<1>9. ASSUME NEW t \in Threads, Report(t) PROVE ViewerLockHeld'
      BY <1>9 DEF TypeOK, Report
<1>10. ASSUME NEW t \in Threads, AlreadyStarted(t) PROVE ViewerLockHeld'
      BY <1>10 DEF TypeOK, AlreadyStarted
<1>11. ASSUME NEW t \in Threads, LockViewer(t) PROVE ViewerLockHeld'
  <2>1. /\ cur[t] \in Sessions /\ viewLock[cur[t]] = NoThread /\ UNCHANGED cur
        /\ viewLock' = [viewLock EXCEPT ![cur[t]] = t]
        /\ pc' = [pc EXCEPT ![t] = "start"] /\ pc[t] = "ensure"
        BY <1>11 DEF TypeOK, LockViewer, ViewerLockFree
  <2>2. ASSUME NEW s \in Sessions, NEW u \in Threads PROVE
            /\ viewLock'[s] = u => cur'[u] = s /\ pc'[u] \in StartingUp \cup Writing
            /\ cur'[u] = s /\ pc'[u] \in StartingUp => viewLock'[s] = u
        BY <2>1 DEF TypeOK
  <2> QED BY <2>2
<1>12. ASSUME NEW t \in Threads, StartServer(t) PROVE ViewerLockHeld'
  <2>1. /\ pc[t] = "start" /\ UNCHANGED <<viewLock, cur>>
        /\ \E to \in {"endpoint", "open"} : pc' = [pc EXCEPT ![t] = to]
        BY <1>12 DEF StartServer
  <2>2. cur[t] \in Sessions /\ viewLock[cur[t]] = t
        BY <2>1 DEF TypeOK
  <2> QED BY <2>1, <2>2, ViewerLockKept DEF Steps
<1>13. ASSUME NEW t \in Threads, SetEndpoint(t) PROVE ViewerLockHeld'
      BY <1>13 DEF TypeOK, SetEndpoint
<1>14. ASSUME NEW t \in Threads, Relock(t) PROVE ViewerLockHeld'
      BY <1>14 DEF TypeOK, Relock
<1>15. ASSUME NEW t \in Threads, OpenBrowser(t) PROVE ViewerLockHeld'
      BY <1>15 DEF TypeOK, OpenBrowser
<1>16. ASSUME NEW t \in Threads, CloseViewer(t) PROVE ViewerLockHeld'
      BY <1>16 DEF TypeOK, CloseViewer
<1>17. ASSUME NEW t \in Threads, Panic(t) PROVE ViewerLockHeld'
      BY <1>17 DEF TypeOK, Panic
<1>18. ASSUME NEW s \in Sessions, Accept(s) PROVE ViewerLockHeld'
      BY <1>18 DEF TypeOK, Accept, RequestKinds
<1>19. ASSUME NEW s \in Sessions, LockAndServe(s) PROVE ViewerLockHeld'
      BY <1>19 DEF TypeOK, LockAndServe
<1>20. ASSUME NEW s \in Sessions, FinishResponse(s) PROVE ViewerLockHeld'
      BY <1>20 DEF TypeOK, FinishResponse
<1>21. ASSUME NEW s \in Sessions, ReadTimeout(s) PROVE ViewerLockHeld'
      BY <1>21 DEF TypeOK, ReadTimeout, RequestKinds
<1>22. ASSUME UNCHANGED vars PROVE ViewerLockHeld'
      BY <1>22 DEF vars
<1> QED
    BY <1>1, <1>2, <1>3, <1>4, <1>5, <1>6, <1>7, <1>8, <1>9, <1>10, <1>11, <1>12,
       <1>13, <1>14, <1>15, <1>16, <1>17, <1>18, <1>19, <1>20, <1>21, <1>22
    DEF Next, ThreadStep, ServerStep

LEMMA StartUpStep == LocksInv /\ [Next]_vars => StartUpOrder' /\ StartedAtMostOnce'
<1> SUFFICES ASSUME LocksInv, [Next]_vars PROVE StartUpOrder' /\ StartedAtMostOnce'
    OBVIOUS
<1> DEFINE Goal == StartUpOrder' /\ StartedAtMostOnce'
<1> USE ThreadsAssumption
    DEF LocksInv, StartUpOrder, StartedAtMostOnce, ViewerLockHeld, Writing, StartingUp,
        shared, serving, history, locals, Goto
<1>1. ASSUME NEW t \in Threads, NEW s \in Sessions, BeginCapture(t, s) PROVE Goal
  <2>1. UNCHANGED <<viewer, viewLock, server, starts, opens>>
        BY <1>1 DEF BeginCapture
  <2>2. /\ pc[t] = "idle" /\ pc'[t] = "append"
        /\ \A u \in Threads \ {t} : pc'[u] = pc[u] /\ cur'[u] = cur[u]
        BY <1>1 DEF TypeOK, BeginCapture
  <2>3. \A r \in Sessions : viewLock[r] # t
        BY <2>2
  <2>4. StartedAtMostOnce'
        BY <2>1
  <2>5. StartUpOrder'
        BY <2>1, <2>2, <2>3
  <2> QED BY <2>4, <2>5
<1>2. ASSUME NEW t \in Threads, LockCaptures(t) PROVE Goal
      BY <1>2 DEF TypeOK, LockCaptures
<1>3. ASSUME NEW t \in Threads, Push(t) PROVE Goal
  <2>1. /\ UNCHANGED <<viewer, viewLock, server, starts, opens, cur>>
        /\ pc[t] = "push" /\ pc' = [pc EXCEPT ![t] = "render"]
        BY <1>3 DEF Push
  <2> QED BY <2>1 DEF TypeOK
<1>4. ASSUME NEW t \in Threads, Render(t) PROVE Goal
      BY <1>4 DEF TypeOK, Render
<1>5. ASSUME NEW t \in Threads, WriteTemp(t) PROVE Goal
      BY <1>5 DEF TypeOK, WriteTemp, WriteEnds
<1>6. ASSUME NEW t \in Threads, Rename(t) PROVE Goal
  <2>1. CASE WriteEnds(t, TRUE) /\ pc[t] = "rename"
        BY <2>1 DEF TypeOK, WriteEnds
  <2>2. CASE Goto(t, "rename", "truncate") /\ UNCHANGED <<shared, serving, history, locals>>
        BY <2>2 DEF TypeOK
  <2> QED BY <1>6, <2>1, <2>2 DEF Rename
<1>7. ASSUME NEW t \in Threads, Truncate(t) PROVE Goal
  <2>1. CASE WriteEnds(t, FALSE) /\ pc[t] = "truncate"
        BY <2>1 DEF TypeOK, WriteEnds
  <2>2. CASE /\ Goto(t, "truncate", "fallback")
             /\ UNCHANGED <<viewer, viewLock, serving, history, locals>>
        BY <2>2 DEF TypeOK
  <2> QED BY <1>7, <2>1, <2>2 DEF Truncate
<1>8. ASSUME NEW t \in Threads, FallbackWrite(t) PROVE Goal
  <2>1. \E result \in BOOLEAN : WriteEnds(t, result) /\ pc[t] = "fallback"
        BY <1>8 DEF FallbackWrite
  <2> QED BY <2>1 DEF TypeOK, WriteEnds
<1>9. ASSUME NEW t \in Threads, Report(t) PROVE Goal
      BY <1>9 DEF TypeOK, Report
<1>10. ASSUME NEW t \in Threads, AlreadyStarted(t) PROVE Goal
      BY <1>10 DEF TypeOK, AlreadyStarted
<1>11. ASSUME NEW t \in Threads, LockViewer(t) PROVE Goal
      BY <1>11 DEF TypeOK, LockViewer
<1>12. ASSUME NEW t \in Threads, StartServer(t) PROVE Goal
  <2> DEFINE s == cur[t]
  <2>1. /\ s \in Sessions /\ pc[t] = "start" /\ viewLock[s] = t
        /\ starts[s] = 0 /\ opens[s] = 0 /\ server[s] = "off"
        BY <1>12 DEF TypeOK, StartServer
  <2>2. \A u \in Threads \ {t} : cur[u] = s =>
            pc[u] \notin StartingUp /\ viewLock[s] # u
        BY <2>1 DEF TypeOK
  <2>3. /\ starts' = [starts EXCEPT ![s] = 1]
        /\ UNCHANGED <<cur, viewLock, opens>>
        BY <1>12, <2>1 DEF TypeOK, StartServer
  <2>4. CASE /\ pc' = [pc EXCEPT ![t] = "endpoint"] /\ UNCHANGED viewer
             /\ server' = [server EXCEPT ![s] = "accept"]
        BY <2>1, <2>2, <2>3, <2>4 DEF TypeOK
  <2>5. CASE /\ pc' = [pc EXCEPT ![t] = "open"] /\ UNCHANGED server
             /\ viewer' = [viewer EXCEPT ![s] = "SnapshotOnly"]
        BY <2>1, <2>2, <2>3, <2>5 DEF TypeOK
  <2> QED BY <1>12, <2>4, <2>5 DEF StartServer
<1>13. ASSUME NEW t \in Threads, SetEndpoint(t) PROVE Goal
      BY <1>13 DEF TypeOK, SetEndpoint
<1>14. ASSUME NEW t \in Threads, Relock(t) PROVE Goal
      BY <1>14 DEF TypeOK, Relock
<1>15. ASSUME NEW t \in Threads, OpenBrowser(t) PROVE Goal
      BY <1>15 DEF TypeOK, OpenBrowser
<1>16. ASSUME NEW t \in Threads, CloseViewer(t) PROVE Goal
      BY <1>16 DEF TypeOK, CloseViewer
<1>17. ASSUME NEW t \in Threads, Panic(t) PROVE Goal
  <2>1. /\ UNCHANGED <<cur, viewer, server, starts, opens>>
        /\ pc' = [pc EXCEPT ![t] = "panicked"] /\ pc[t] \in {"report", "open", "close"}
        BY <1>17 DEF Panic
  <2>2. \A s \in Sessions : viewLock'[s] \in {viewLock[s], NoThread}
    <3>1. viewLock' = [viewLock EXCEPT ![cur[t]] = IF viewLock[cur[t]] = t THEN NoThread
                                                   ELSE viewLock[cur[t]]]
          BY <1>17 DEF Panic
    <3>2. viewLock \in [Sessions -> Threads \cup {NoThread}]
          BY DEF TypeOK
    <3> QED BY <3>1, <3>2
  <2> QED BY <2>1, <2>2 DEF TypeOK
<1>18. ASSUME NEW s \in Sessions, Accept(s) PROVE Goal
      BY <1>18 DEF TypeOK, Accept, RequestKinds
<1>19. ASSUME NEW s \in Sessions, LockAndServe(s) PROVE Goal
      BY <1>19 DEF TypeOK, LockAndServe
<1>20. ASSUME NEW s \in Sessions, FinishResponse(s) PROVE Goal
      BY <1>20 DEF TypeOK, FinishResponse
<1>21. ASSUME NEW s \in Sessions, ReadTimeout(s) PROVE Goal
      BY <1>21 DEF TypeOK, ReadTimeout, RequestKinds
<1>22. ASSUME UNCHANGED vars PROVE Goal
      BY <1>22 DEF vars
<1> QED
    BY <1>1, <1>2, <1>3, <1>4, <1>5, <1>6, <1>7, <1>8, <1>9, <1>10, <1>11, <1>12,
       <1>13, <1>14, <1>15, <1>16, <1>17, <1>18, <1>19, <1>20, <1>21, <1>22
    DEF Next, ThreadStep, ServerStep

LEMMA LocksStep == LocksInv /\ [Next]_vars => LocksInv'
BY TypeStep, CapturesLockStep, ViewerLockStep, StartUpStep DEF LocksInv

(* A thread that numbers, pushes, renders or writes is the one holder of its
   session's captures mutex, and the server holds it while it answers
   (append, the start-up closure and handle_connection never overlap). *)
THEOREM CapturesLockExclusive == Spec => []CapturesLockHeld
<1>1. Init => LocksInv BY LocksInit
<1>2. LocksInv /\ [Next]_vars => LocksInv' BY LocksStep
<1>3. LocksInv => CapturesLockHeld BY DEF LocksInv
<1> QED BY <1>1, <1>2, <1>3, PTL DEF Spec

(* However many threads race to be first, and whatever fails or panics on the
   way, a session calls start_server and open_browser at most once
   (ensure_viewer_started_with). *)
THEOREM StartsAndOpensOnce == Spec => []StartedAtMostOnce
<1>1. Init => LocksInv BY LocksInit
<1>2. LocksInv /\ [Next]_vars => LocksInv' BY LocksStep
<1>3. LocksInv => StartedAtMostOnce BY DEF LocksInv
<1> QED BY <1>1, <1>2, <1>3, PTL DEF Spec

-----------------------------------------------------------------------------
(* What the captures mutex buys: the log is numbered, and the snapshot file
   and the server's responses show it faithfully. *)

AwaitsWrite == {"temp", "rename", "truncate", "fallback"}

(* `sequence` is still right when it is stored: the guard has not been dropped
   since captures.len() was read. *)
NumberIsNext ==
    \A t \in Threads : pc[t] = "push" => number[t] = Len(captures[cur[t]]) + 1

(* `html` still shows the whole log when it is written, and it is live if the
   page it replaces is. *)
PageIsFresh ==
    \A t \in Threads : pc[t] \in AwaitsWrite =>
        /\ html[t].kind = "page"
        /\ html[t].session = cur[t]
        /\ html[t].captures = captures[cur[t]]
        /\ html[t].live => endpoint[cur[t]]
        /\ \A p \in Paths : Holds(p, cur[t]) /\ file[p].live => html[t].live

EndpointServed ==
    \A s \in Sessions :
        /\ endpoint[s] => server[s] # "off"
        /\ \A t \in Threads : cur[t] = s /\ pc[t] = "endpoint" => server[s] # "off"

LogInv == LocksInv /\ Numbered /\ NumberIsNext
SnapshotInv == LogInv /\ PageIsFresh /\ EndpointServed /\ SnapshotIsPrefix /\ ResponseIsCurrent

(* Whoever is past taking the guard is alone there. *)
LEMMA HolderAlone ==
    ASSUME LocksInv, NEW t \in Threads, pc[t] \in {"push"} \cup Writing
    PROVE  /\ cur[t] \in Sessions
           /\ server[cur[t]] # "write"
           /\ \A u \in Threads \ {t} : cur[u] = cur[t] => pc[u] \notin {"push"} \cup Writing
BY ThreadsAssumption DEF LocksInv, TypeOK, CapturesLockHeld

LEMMA PushGrows ==
    ASSUME LocksInv, NEW t \in Threads, Push(t)
    PROVE  /\ cur[t] \in Sessions
           /\ Len(captures[cur[t]]) \in Nat
           /\ captures'[cur[t]] \in Seq(Capture)
           /\ Len(captures'[cur[t]]) = Len(captures[cur[t]]) + 1
           /\ captures'[cur[t]][Len(captures[cur[t]]) + 1].sequence = number[t]
           /\ \A i \in 1 .. Len(captures[cur[t]]) :
                 captures'[cur[t]][i] = captures[cur[t]][i]
           /\ \A s \in Sessions \ {cur[t]} : captures'[s] = captures[s]
<1> DEFINE c == [sequence |-> number[t], by |-> t, nth |-> made[t]]
           log == captures[cur[t]]
<1>1. c \in Capture /\ cur[t] \in Sessions /\ log \in Seq(Capture)
      BY DEF LocksInv, TypeOK, Capture
<1>2. captures' = [captures EXCEPT ![cur[t]] = Append(log, c)]
      BY DEF Push
<1>3. captures'[cur[t]] = Append(log, c)
      BY <1>1, <1>2 DEF LocksInv, TypeOK
<1>4. /\ Len(Append(log, c)) = Len(log) + 1 /\ Append(log, c)[Len(log) + 1] = c
      /\ Append(log, c) \in Seq(Capture) /\ Len(log) \in Nat
      /\ \A i \in 1 .. Len(log) : Append(log, c)[i] = log[i]
      BY <1>1
<1>5. \A s \in Sessions \ {cur[t]} : captures'[s] = captures[s]
      BY <1>1, <1>2 DEF LocksInv, TypeOK
<1> QED BY <1>1, <1>3, <1>4, <1>5

LEMMA LogInit == Init => LogInv
BY LocksInit DEF Init, LogInv, Numbered, NumberIsNext

LEMMA LogStep == LogInv /\ [Next]_vars => LogInv'
<1> SUFFICES ASSUME LogInv, [Next]_vars PROVE Numbered' /\ NumberIsNext'
    BY LocksStep DEF LogInv
<1> DEFINE Goal == Numbered' /\ NumberIsNext'
<1> USE DEF LogInv, LocksInv, Numbered, NumberIsNext, shared, serving, history, locals, Goto
<1>1. ASSUME NEW t \in Threads, NEW s \in Sessions, BeginCapture(t, s) PROVE Goal
      BY <1>1 DEF TypeOK, BeginCapture
<1>2. ASSUME NEW t \in Threads, LockCaptures(t) PROVE Goal
      BY <1>2 DEF TypeOK, LockCaptures
<1>3. ASSUME NEW t \in Threads, Push(t) PROVE Goal
  <2>0. /\ cur[t] \in Sessions /\ Len(captures[cur[t]]) \in Nat
        /\ Len(captures'[cur[t]]) = Len(captures[cur[t]]) + 1
        /\ captures'[cur[t]][Len(captures[cur[t]]) + 1].sequence = number[t]
        /\ \A i \in 1 .. Len(captures[cur[t]]) :
              captures'[cur[t]][i] = captures[cur[t]][i]
        /\ \A s \in Sessions \ {cur[t]} : captures'[s] = captures[s]
        BY <1>3, PushGrows
  <2>1. \A u \in Threads \ {t} : cur[u] = cur[t] => pc[u] # "push"
        BY <1>3, HolderAlone DEF Push
  <2>2. number[t] = Len(captures[cur[t]]) + 1 /\ pc'[t] = "render" /\ UNCHANGED <<cur, number>>
        BY <1>3 DEF TypeOK, Push
  <2>3. ASSUME NEW s \in Sessions, NEW i \in 1 .. Len(captures'[s])
        PROVE  captures'[s][i].sequence = i
    <3>1. CASE s # cur[t]
          BY <3>1, <2>0
    <3>2. CASE s = cur[t] /\ i \in 1 .. Len(captures[s])
          BY <3>2, <2>0
    <3>3. CASE s = cur[t] /\ i = Len(captures[s]) + 1
          BY <3>3, <2>0, <2>2
    <3> QED BY <3>1, <3>2, <3>3, <2>0
  <2>4. \A u \in Threads \ {t} : pc'[u] = pc[u]
        BY <1>3 DEF TypeOK, Push
  <2>5. ASSUME NEW u \in Threads, pc'[u] = "push"
        PROVE  number'[u] = Len(captures'[cur'[u]]) + 1
        BY <2>0, <2>1, <2>2, <2>4, <2>5 DEF TypeOK
  <2> QED BY <2>3, <2>5
<1>4. ASSUME NEW t \in Threads, Render(t) PROVE Goal
      BY <1>4 DEF TypeOK, Render
<1>5. ASSUME NEW t \in Threads, WriteTemp(t) PROVE Goal
      BY <1>5 DEF TypeOK, WriteTemp, WriteEnds
<1>6. ASSUME NEW t \in Threads, Rename(t) PROVE Goal
      BY <1>6 DEF TypeOK, Rename, WriteEnds
<1>7. ASSUME NEW t \in Threads, Truncate(t) PROVE Goal
      BY <1>7 DEF TypeOK, Truncate, WriteEnds
<1>8. ASSUME NEW t \in Threads, FallbackWrite(t) PROVE Goal
      BY <1>8 DEF TypeOK, FallbackWrite, WriteEnds
<1>9. ASSUME NEW t \in Threads, Report(t) PROVE Goal
      BY <1>9 DEF TypeOK, Report
<1>10. ASSUME NEW t \in Threads, AlreadyStarted(t) PROVE Goal
      BY <1>10 DEF TypeOK, AlreadyStarted
<1>11. ASSUME NEW t \in Threads, LockViewer(t) PROVE Goal
      BY <1>11 DEF TypeOK, LockViewer
<1>12. ASSUME NEW t \in Threads, StartServer(t) PROVE Goal
      BY <1>12 DEF TypeOK, StartServer
<1>13. ASSUME NEW t \in Threads, SetEndpoint(t) PROVE Goal
      BY <1>13 DEF TypeOK, SetEndpoint
<1>14. ASSUME NEW t \in Threads, Relock(t) PROVE Goal
      BY <1>14 DEF TypeOK, Relock
<1>15. ASSUME NEW t \in Threads, OpenBrowser(t) PROVE Goal
      BY <1>15 DEF TypeOK, OpenBrowser
<1>16. ASSUME NEW t \in Threads, CloseViewer(t) PROVE Goal
      BY <1>16 DEF TypeOK, CloseViewer
<1>17. ASSUME NEW t \in Threads, Panic(t) PROVE Goal
      BY <1>17 DEF TypeOK, Panic
<1>18. ASSUME NEW s \in Sessions, Accept(s) PROVE Goal
      BY <1>18 DEF TypeOK, Accept, RequestKinds
<1>19. ASSUME NEW s \in Sessions, LockAndServe(s) PROVE Goal
      BY <1>19 DEF TypeOK, LockAndServe
<1>20. ASSUME NEW s \in Sessions, FinishResponse(s) PROVE Goal
      BY <1>20 DEF TypeOK, FinishResponse
<1>21. ASSUME NEW s \in Sessions, ReadTimeout(s) PROVE Goal
      BY <1>21 DEF TypeOK, ReadTimeout, RequestKinds
<1>22. ASSUME UNCHANGED vars PROVE Goal
      BY <1>22 DEF vars
<1> QED
    BY <1>1, <1>2, <1>3, <1>4, <1>5, <1>6, <1>7, <1>8, <1>9, <1>10, <1>11, <1>12,
       <1>13, <1>14, <1>15, <1>16, <1>17, <1>18, <1>19, <1>20, <1>21, <1>22
    DEF Next, ThreadStep, ServerStep

(* The log of a session is numbered 1, 2, 3 ... whatever the interleaving. *)
THEOREM LogIsNumbered == Spec => []Numbered
<1>1. Init => LogInv BY LogInit
<1>2. LogInv /\ [Next]_vars => LogInv' BY LogStep
<1>3. LogInv => Numbered BY DEF LogInv
<1> QED BY <1>1, <1>2, <1>3, PTL DEF Spec

-----------------------------------------------------------------------------
(* The snapshot and the responses. *)

LEMMA EndpointStep == SnapshotInv /\ [Next]_vars => EndpointServed'
<1> SUFFICES ASSUME SnapshotInv, [Next]_vars PROVE EndpointServed'
    OBVIOUS
<1> USE EnvironmentAssumption
    DEF SnapshotInv, LogInv, LocksInv, EndpointServed, shared, serving, history, locals, Goto
<1>1. ASSUME NEW t \in Threads, NEW s \in Sessions, BeginCapture(t, s) PROVE EndpointServed'
      BY <1>1 DEF TypeOK, BeginCapture
<1>2. ASSUME NEW t \in Threads, LockCaptures(t) PROVE EndpointServed'
      BY <1>2 DEF TypeOK, LockCaptures
<1>3. ASSUME NEW t \in Threads, Push(t) PROVE EndpointServed'
      BY <1>3 DEF TypeOK, Push
<1>4. ASSUME NEW t \in Threads, Render(t) PROVE EndpointServed'
      BY <1>4 DEF TypeOK, Render
<1>5. ASSUME NEW t \in Threads, WriteTemp(t) PROVE EndpointServed'
      BY <1>5 DEF TypeOK, WriteTemp, WriteEnds
<1>6. ASSUME NEW t \in Threads, Rename(t) PROVE EndpointServed'
      BY <1>6 DEF TypeOK, Rename, WriteEnds
<1>7. ASSUME NEW t \in Threads, Truncate(t) PROVE EndpointServed'
      BY <1>7 DEF TypeOK, Truncate, WriteEnds
<1>8. ASSUME NEW t \in Threads, FallbackWrite(t) PROVE EndpointServed'
      BY <1>8 DEF TypeOK, FallbackWrite, WriteEnds
<1>9. ASSUME NEW t \in Threads, Report(t) PROVE EndpointServed'
      BY <1>9 DEF TypeOK, Report
<1>10. ASSUME NEW t \in Threads, AlreadyStarted(t) PROVE EndpointServed'
      BY <1>10 DEF TypeOK, AlreadyStarted
<1>11. ASSUME NEW t \in Threads, LockViewer(t) PROVE EndpointServed'
      BY <1>11 DEF TypeOK, LockViewer
<1>12. ASSUME NEW t \in Threads, StartServer(t) PROVE EndpointServed'
      BY <1>12 DEF TypeOK, StartServer
<1>13. ASSUME NEW t \in Threads, SetEndpoint(t) PROVE EndpointServed'
      BY <1>13 DEF TypeOK, SetEndpoint
<1>14. ASSUME NEW t \in Threads, Relock(t) PROVE EndpointServed'
      BY <1>14 DEF TypeOK, Relock
<1>15. ASSUME NEW t \in Threads, OpenBrowser(t) PROVE EndpointServed'
      BY <1>15 DEF TypeOK, OpenBrowser
<1>16. ASSUME NEW t \in Threads, CloseViewer(t) PROVE EndpointServed'
      BY <1>16 DEF TypeOK, CloseViewer
<1>17. ASSUME NEW t \in Threads, Panic(t) PROVE EndpointServed'
      BY <1>17 DEF TypeOK, Panic
<1>18. ASSUME NEW s \in Sessions, Accept(s) PROVE EndpointServed'
      BY <1>18 DEF TypeOK, Accept, RequestKinds
<1>19. ASSUME NEW s \in Sessions, LockAndServe(s) PROVE EndpointServed'
      BY <1>19 DEF TypeOK, LockAndServe
<1>20. ASSUME NEW s \in Sessions, FinishResponse(s) PROVE EndpointServed'
      BY <1>20 DEF TypeOK, FinishResponse
<1>21. ASSUME NEW s \in Sessions, ReadTimeout(s) PROVE EndpointServed'
      BY <1>21 DEF TypeOK, ReadTimeout, RequestKinds
<1>22. ASSUME UNCHANGED vars PROVE EndpointServed'
      BY <1>22 DEF vars
<1> QED
    BY <1>1, <1>2, <1>3, <1>4, <1>5, <1>6, <1>7, <1>8, <1>9, <1>10, <1>11, <1>12,
       <1>13, <1>14, <1>15, <1>16, <1>17, <1>18, <1>19, <1>20, <1>21, <1>22
    DEF Next, ThreadStep, ServerStep

LEMMA ResponseStep == SnapshotInv /\ [Next]_vars => ResponseIsCurrent'
<1> SUFFICES ASSUME SnapshotInv, [Next]_vars PROVE ResponseIsCurrent'
    OBVIOUS
<1> USE EnvironmentAssumption
    DEF SnapshotInv, LogInv, LocksInv, ResponseIsCurrent, shared, serving, history, locals, Goto
<1>1. ASSUME NEW t \in Threads, NEW s \in Sessions, BeginCapture(t, s) PROVE ResponseIsCurrent'
      BY <1>1 DEF TypeOK, BeginCapture
<1>2. ASSUME NEW t \in Threads, LockCaptures(t) PROVE ResponseIsCurrent'
      BY <1>2 DEF TypeOK, LockCaptures
<1>3. ASSUME NEW t \in Threads, Push(t) PROVE ResponseIsCurrent'
  <2>1. /\ \A s \in Sessions \ {cur[t]} : captures'[s] = captures[s]
        /\ server[cur[t]] # "write" /\ UNCHANGED <<server, served>>
        BY <1>3, PushGrows, HolderAlone DEF Push
  <2> QED BY <2>1
<1>4. ASSUME NEW t \in Threads, Render(t) PROVE ResponseIsCurrent'
      BY <1>4 DEF TypeOK, Render
<1>5. ASSUME NEW t \in Threads, WriteTemp(t) PROVE ResponseIsCurrent'
      BY <1>5 DEF TypeOK, WriteTemp, WriteEnds
<1>6. ASSUME NEW t \in Threads, Rename(t) PROVE ResponseIsCurrent'
      BY <1>6 DEF TypeOK, Rename, WriteEnds
<1>7. ASSUME NEW t \in Threads, Truncate(t) PROVE ResponseIsCurrent'
      BY <1>7 DEF TypeOK, Truncate, WriteEnds
<1>8. ASSUME NEW t \in Threads, FallbackWrite(t) PROVE ResponseIsCurrent'
      BY <1>8 DEF TypeOK, FallbackWrite, WriteEnds
<1>9. ASSUME NEW t \in Threads, Report(t) PROVE ResponseIsCurrent'
      BY <1>9 DEF TypeOK, Report
<1>10. ASSUME NEW t \in Threads, AlreadyStarted(t) PROVE ResponseIsCurrent'
      BY <1>10 DEF TypeOK, AlreadyStarted
<1>11. ASSUME NEW t \in Threads, LockViewer(t) PROVE ResponseIsCurrent'
      BY <1>11 DEF TypeOK, LockViewer
<1>12. ASSUME NEW t \in Threads, StartServer(t) PROVE ResponseIsCurrent'
      BY <1>12 DEF TypeOK, StartServer
<1>13. ASSUME NEW t \in Threads, SetEndpoint(t) PROVE ResponseIsCurrent'
      BY <1>13 DEF TypeOK, SetEndpoint
<1>14. ASSUME NEW t \in Threads, Relock(t) PROVE ResponseIsCurrent'
      BY <1>14 DEF TypeOK, Relock
<1>15. ASSUME NEW t \in Threads, OpenBrowser(t) PROVE ResponseIsCurrent'
      BY <1>15 DEF TypeOK, OpenBrowser
<1>16. ASSUME NEW t \in Threads, CloseViewer(t) PROVE ResponseIsCurrent'
      BY <1>16 DEF TypeOK, CloseViewer
<1>17. ASSUME NEW t \in Threads, Panic(t) PROVE ResponseIsCurrent'
      BY <1>17 DEF TypeOK, Panic
<1>18. ASSUME NEW s \in Sessions, Accept(s) PROVE ResponseIsCurrent'
      BY <1>18 DEF TypeOK, Accept, RequestKinds
<1>19. ASSUME NEW s \in Sessions, LockAndServe(s) PROVE ResponseIsCurrent'
      BY <1>19 DEF TypeOK, LockAndServe
<1>20. ASSUME NEW s \in Sessions, FinishResponse(s) PROVE ResponseIsCurrent'
      BY <1>20 DEF TypeOK, FinishResponse
<1>21. ASSUME NEW s \in Sessions, ReadTimeout(s) PROVE ResponseIsCurrent'
      BY <1>21 DEF TypeOK, ReadTimeout, RequestKinds
<1>22. ASSUME UNCHANGED vars PROVE ResponseIsCurrent'
      BY <1>22 DEF vars
<1> QED
    BY <1>1, <1>2, <1>3, <1>4, <1>5, <1>6, <1>7, <1>8, <1>9, <1>10, <1>11, <1>12,
       <1>13, <1>14, <1>15, <1>16, <1>17, <1>18, <1>19, <1>20, <1>21, <1>22
    DEF Next, ThreadStep, ServerStep

(* Steps that touch no page, log or file keep a rendered page fresh. *)
LEMMA FreshKept ==
    ASSUME TypeOK, PageIsFresh, NEW t \in Threads, NEW to,
           pc' = [pc EXCEPT ![t] = to],
           to \in AwaitsWrite => pc[t] \in AwaitsWrite,
           UNCHANGED <<html, captures, file>>,
           \A u \in Threads : u = t \/ cur'[u] = cur[u],
           pc[t] \in AwaitsWrite => cur'[t] = cur[t],
           \A s \in Sessions : endpoint[s] => endpoint'[s]
    PROVE  PageIsFresh'
<1> SUFFICES ASSUME NEW u \in Threads, pc'[u] \in AwaitsWrite
             PROVE  /\ html[u].kind = "page"
                    /\ html[u].session = cur'[u]
                    /\ html[u].captures = captures[cur'[u]]
                    /\ html[u].live => endpoint'[cur'[u]]
                    /\ \A p \in Paths : Holds(p, cur'[u]) /\ file[p].live => html[u].live
    BY DEF PageIsFresh, Holds
<1>1. pc[u] \in AwaitsWrite /\ cur'[u] = cur[u] /\ cur[u] \in Sessions
      BY DEF TypeOK
<1> QED BY <1>1 DEF PageIsFresh

(* Replacing the file leaves the other threads' pages fresh: they are pages of
   other sessions. *)
LEMMA FreshWritten ==
    ASSUME SnapshotInv, NEW t \in Threads, pc[t] \in AwaitsWrite,
           NEW to, pc' = [pc EXCEPT ![t] = to],
           NEW content \in {html[t], Torn}, content = Torn \/ to \notin AwaitsWrite,
           file' = [file EXCEPT ![PathOf[cur[t]]] = content],
           UNCHANGED <<html, captures, cur, endpoint>>
    PROVE  PageIsFresh'
<1> SUFFICES ASSUME NEW u \in Threads, pc'[u] \in AwaitsWrite
             PROVE  /\ html[u].kind = "page"
                    /\ html[u].session = cur[u]
                    /\ html[u].captures = captures[cur[u]]
                    /\ html[u].live => endpoint[cur[u]]
                    /\ \A p \in Paths : Holds(p, cur[u])' /\ file'[p].live => html[u].live
    BY DEF PageIsFresh, Holds
<1>1. pc[u] \in AwaitsWrite
      BY DEF SnapshotInv, LogInv, LocksInv, TypeOK
<1>2. u # t => cur[u] # cur[t]
      BY <1>1, HolderAlone DEF SnapshotInv, LogInv, AwaitsWrite, Writing
<1>3. ASSUME NEW p \in Paths, Holds(p, cur[u])' PROVE file'[p] = file[p]
  <2>1. file \in [Paths -> Page \cup {Absent, Torn}]
        BY DEF SnapshotInv, LogInv, LocksInv, TypeOK
  <2>2. CASE u = t /\ content = Torn
        BY <2>1, <2>2, <1>3 DEF Holds, Torn
  <2>3. CASE u # t
        BY <2>1, <2>3, <1>2, <1>3 DEF Holds, Torn, SnapshotInv, PageIsFresh
  <2>4. u = t => content = Torn
        BY DEF SnapshotInv, LogInv, LocksInv, TypeOK
  <2> QED BY <2>2, <2>3, <2>4
<1>4. \A p \in Paths : Holds(p, cur[u])' => Holds(p, cur[u])
      BY <1>3 DEF Holds
<1> QED BY <1>1, <1>3, <1>4 DEF SnapshotInv, PageIsFresh

LEMMA FreshStep == SnapshotInv /\ [Next]_vars => PageIsFresh'
<1> SUFFICES ASSUME SnapshotInv, [Next]_vars PROVE PageIsFresh'
    OBVIOUS
<1>0. TypeOK /\ LocksInv /\ PageIsFresh /\ SnapshotIsPrefix
      BY DEF SnapshotInv, LogInv, LocksInv
<1> USE <1>0 DEF shared, serving, history, locals, Goto
<1>1. ASSUME NEW t \in Threads, NEW s \in Sessions, BeginCapture(t, s) PROVE PageIsFresh'
      BY <1>1, FreshKept DEF TypeOK, BeginCapture, AwaitsWrite
<1>2. ASSUME NEW t \in Threads, LockCaptures(t) PROVE PageIsFresh'
      BY <1>2, FreshKept DEF TypeOK, LockCaptures, AwaitsWrite
<1>3. ASSUME NEW t \in Threads, Push(t) PROVE PageIsFresh'
  <2>1. /\ \A s \in Sessions \ {cur[t]} : captures'[s] = captures[s]
        /\ \A u \in Threads \ {t} : cur[u] = cur[t] => pc[u] \notin AwaitsWrite
        /\ UNCHANGED <<cur, html, file, endpoint>> /\ pc' = [pc EXCEPT ![t] = "render"]
        BY <1>3, PushGrows, HolderAlone DEF Push, AwaitsWrite, Writing
  <2> QED BY <2>1 DEF PageIsFresh, AwaitsWrite, TypeOK, Holds
<1>4. ASSUME NEW t \in Threads, Render(t) PROVE PageIsFresh'
  <2>1. /\ UNCHANGED <<cur, captures, file, endpoint>>
        /\ html' = [html EXCEPT ![t] = RenderHtml(cur[t])]
        /\ pc' = [pc EXCEPT ![t] = "temp"]
        BY <1>4 DEF Render
  <2>2. \A u \in Threads \ {t} : html'[u] = html[u] /\ pc'[u] = pc[u]
        BY <2>1 DEF TypeOK
  <2>3. html'[t] = RenderHtml(cur[t]) /\ cur[t] \in Sessions
        BY <2>1 DEF TypeOK
  <2>4. \A p \in Paths : Holds(p, cur[t]) /\ file[p].live => endpoint[cur[t]]
        BY <2>3 DEF SnapshotIsPrefix
  <2>5. ASSUME NEW u \in Threads, pc'[u] \in AwaitsWrite
        PROVE  /\ html'[u].kind = "page"
               /\ html'[u].session = cur[u]
               /\ html'[u].captures = captures[cur[u]]
               /\ html'[u].live => endpoint[cur[u]]
               /\ \A p \in Paths : Holds(p, cur[u]) /\ file[p].live => html'[u].live
    <3>1. CASE u = t
          BY <3>1, <2>3, <2>4 DEF RenderHtml
    <3>2. CASE u # t
          BY <3>2, <2>2, <2>5 DEF PageIsFresh
    <3> QED BY <3>1, <3>2
  <2> QED BY <2>1, <2>5 DEF PageIsFresh, Holds
<1>5. ASSUME NEW t \in Threads, WriteTemp(t) PROVE PageIsFresh'
  <2>1. /\ UNCHANGED <<html, captures, file, cur, endpoint>> /\ pc[t] = "temp"
        /\ \E to \in Steps : pc' = [pc EXCEPT ![t] = to]
        BY <1>5 DEF WriteTemp, WriteEnds, Steps
  <2> QED BY <2>1, FreshKept DEF AwaitsWrite
<1>6. ASSUME NEW t \in Threads, Rename(t) PROVE PageIsFresh'
  <2>1. CASE pc[t] = "rename" /\ WriteEnds(t, TRUE)
             /\ file' = [file EXCEPT ![PathOf[cur[t]]] = html[t]]
    <3> DEFINE to == IF viewLock[cur[t]] = t THEN "open" ELSE "report"
    <3>1. to \notin AwaitsWrite /\ pc[t] \in AwaitsWrite /\ pc' = [pc EXCEPT ![t] = to]
          BY <2>1 DEF AwaitsWrite, WriteEnds
    <3>2. UNCHANGED <<html, captures, cur, endpoint>>
          BY <2>1 DEF WriteEnds
    <3> HIDE DEF to
    <3> QED BY <2>1, <3>1, <3>2, FreshWritten
  <2>2. CASE pc[t] = "rename" /\ pc' = [pc EXCEPT ![t] = "truncate"]
             /\ UNCHANGED <<html, captures, file, cur, endpoint>>
        BY <2>2, FreshKept DEF AwaitsWrite
  <2> QED BY <1>6, <2>1, <2>2 DEF Rename
<1>7. ASSUME NEW t \in Threads, Truncate(t) PROVE PageIsFresh'
  <2>1. CASE pc[t] = "truncate" /\ pc' = [pc EXCEPT ![t] = "fallback"]
             /\ file' = [file EXCEPT ![PathOf[cur[t]]] = Torn]
             /\ UNCHANGED <<html, captures, cur, endpoint>>
        BY <2>1, FreshWritten DEF AwaitsWrite
  <2>2. CASE pc[t] = "truncate" /\ WriteEnds(t, FALSE) /\ UNCHANGED file
    <3>1. /\ UNCHANGED <<html, captures, file, cur, endpoint>>
          /\ \E to \in Steps : pc' = [pc EXCEPT ![t] = to]
          BY <2>2 DEF WriteEnds, Steps
    <3> QED BY <2>2, <3>1, FreshKept DEF AwaitsWrite
  <2> QED BY <1>7, <2>1, <2>2 DEF Truncate
<1>8. ASSUME NEW t \in Threads, FallbackWrite(t) PROVE PageIsFresh'
  <2>1. PICK content \in {html[t], Torn}, result \in BOOLEAN :
            /\ pc[t] = "fallback" /\ WriteEnds(t, result)
            /\ file' = [file EXCEPT ![PathOf[cur[t]]] = content]
        BY <1>8 DEF FallbackWrite
  <2> DEFINE to == IF viewLock[cur[t]] = t THEN "open" ELSE "report"
  <2>2. to \notin AwaitsWrite /\ pc[t] \in AwaitsWrite /\ pc' = [pc EXCEPT ![t] = to]
        BY <2>1 DEF AwaitsWrite, WriteEnds
  <2>3. UNCHANGED <<html, captures, cur, endpoint>>
        BY <2>1 DEF WriteEnds
  <2> HIDE DEF to
  <2> QED BY <2>1, <2>2, <2>3, FreshWritten
<1>9. ASSUME NEW t \in Threads, Report(t) PROVE PageIsFresh'
  <2>1. /\ UNCHANGED <<html, captures, file, cur, endpoint>> /\ pc[t] = "report"
        /\ \E to \in {"idle", "ensure"} : pc' = [pc EXCEPT ![t] = to]
        BY <1>9 DEF Report
  <2> QED BY <2>1, FreshKept DEF AwaitsWrite
<1>10. ASSUME NEW t \in Threads, AlreadyStarted(t) PROVE PageIsFresh'
      BY <1>10, FreshKept DEF TypeOK, AlreadyStarted, AwaitsWrite
<1>11. ASSUME NEW t \in Threads, LockViewer(t) PROVE PageIsFresh'
      BY <1>11, FreshKept DEF TypeOK, LockViewer, AwaitsWrite
<1>12. ASSUME NEW t \in Threads, StartServer(t) PROVE PageIsFresh'
  <2>1. /\ UNCHANGED <<html, captures, file, cur, endpoint>> /\ pc[t] = "start"
        /\ \E to \in {"endpoint", "open"} : pc' = [pc EXCEPT ![t] = to]
        BY <1>12 DEF StartServer
  <2> QED BY <2>1, FreshKept DEF AwaitsWrite
<1>13. ASSUME NEW t \in Threads, SetEndpoint(t) PROVE PageIsFresh'
      BY <1>13, FreshKept DEF TypeOK, SetEndpoint, AwaitsWrite
<1>14. ASSUME NEW t \in Threads, Relock(t) PROVE PageIsFresh'
      BY <1>14, FreshKept DEF TypeOK, Relock, AwaitsWrite
<1>15. ASSUME NEW t \in Threads, OpenBrowser(t) PROVE PageIsFresh'
      BY <1>15, FreshKept DEF TypeOK, OpenBrowser, AwaitsWrite
<1>16. ASSUME NEW t \in Threads, CloseViewer(t) PROVE PageIsFresh'
      BY <1>16, FreshKept DEF TypeOK, CloseViewer, AwaitsWrite
<1>17. ASSUME NEW t \in Threads, Panic(t) PROVE PageIsFresh'
      BY <1>17, FreshKept DEF TypeOK, Panic, AwaitsWrite
<1>18. ASSUME NEW s \in Sessions, Accept(s) PROVE PageIsFresh'
      BY <1>18 DEF Accept, PageIsFresh, Holds
<1>19. ASSUME NEW s \in Sessions, LockAndServe(s) PROVE PageIsFresh'
      BY <1>19 DEF LockAndServe, PageIsFresh, Holds
<1>20. ASSUME NEW s \in Sessions, FinishResponse(s) PROVE PageIsFresh'
      BY <1>20 DEF FinishResponse, PageIsFresh, Holds
<1>21. ASSUME NEW s \in Sessions, ReadTimeout(s) PROVE PageIsFresh'
      BY <1>21 DEF ReadTimeout, PageIsFresh, Holds
<1>22. ASSUME UNCHANGED vars PROVE PageIsFresh'
      BY <1>22 DEF vars, PageIsFresh, Holds
<1> QED
    BY <1>1, <1>2, <1>3, <1>4, <1>5, <1>6, <1>7, <1>8, <1>9, <1>10, <1>11, <1>12,
       <1>13, <1>14, <1>15, <1>16, <1>17, <1>18, <1>19, <1>20, <1>21, <1>22
    DEF Next, ThreadStep, ServerStep

(* Steps that write no file and shorten no log keep the snapshots faithful. *)
LEMMA PrefixKept ==
    ASSUME SnapshotIsPrefix, UNCHANGED file,
           \A s \in Sessions : IsPrefixOf(captures[s], captures'[s]),
           \A s \in Sessions : endpoint[s] => endpoint'[s],
           \A s \in Sessions : server[s] # "off" => server'[s] # "off",
           TypeOK, TypeOK'
    PROVE  SnapshotIsPrefix'
<1> SUFFICES ASSUME NEW p \in Paths, NEW s \in Sessions, Holds(p, s)
             PROVE  /\ PathOf[s] = p
                    /\ IsPrefixOf(file[p].captures, captures'[s])
                    /\ file[p].live => endpoint'[s] /\ server'[s] # "off"
    BY DEF SnapshotIsPrefix, Holds, IsPrefixOf
<1>1. file[p] \in Page
  <2>1. file[p] \in Page \cup {Absent, Torn} /\ file[p].kind = "page"
        BY DEF TypeOK, Holds
  <2>2. Absent.kind # "page" /\ Torn.kind # "page"
        BY DEF Absent, Torn
  <2> QED BY <2>1, <2>2
<1>2. /\ file[p].captures \in Seq(Capture)
      /\ captures[s] \in Seq(Capture) /\ captures'[s] \in Seq(Capture)
      BY <1>1 DEF TypeOK, Page
<1>3. IsPrefixOf(file[p].captures, captures[s])
      BY DEF SnapshotIsPrefix
<1>4. IsPrefixOf(file[p].captures, captures'[s])
      BY <1>2, <1>3 DEF IsPrefixOf
<1> QED BY <1>4 DEF SnapshotIsPrefix

LEMMA PrefixQuiet ==
    ASSUME SnapshotIsPrefix, TypeOK, TypeOK', UNCHANGED <<file, captures>>,
           \A s \in Sessions : endpoint[s] => endpoint'[s],
           \A s \in Sessions : server[s] # "off" => server'[s] # "off"
    PROVE  SnapshotIsPrefix'
<1>1. \A s \in Sessions : IsPrefixOf(captures[s], captures'[s])
      BY DEF IsPrefixOf
<1> QED BY <1>1, PrefixKept

(* The page that is written is fresh, so the file is faithful again. *)
LEMMA PrefixWritten ==
    ASSUME SnapshotInv, NEW t \in Threads, pc[t] \in AwaitsWrite,
           NEW content \in {html[t], Torn},
           file' = [file EXCEPT ![PathOf[cur[t]]] = content],
           UNCHANGED <<captures, endpoint, server>>
    PROVE  SnapshotIsPrefix'
<1>1. /\ file \in [Paths -> Page \cup {Absent, Torn}]
      /\ cur[t] \in Sessions /\ PathOf[cur[t]] \in Paths
      BY PathsAssumption DEF SnapshotInv, LogInv, LocksInv, TypeOK
<1> SUFFICES ASSUME NEW p \in Paths, NEW s \in Sessions, Holds(p, s)'
             PROVE  /\ PathOf[s] = p
                    /\ IsPrefixOf(file'[p].captures, captures[s])
                    /\ file'[p].live => endpoint[s] /\ server[s] # "off"
    BY DEF SnapshotIsPrefix, IsPrefixOf, Holds
<1>2. CASE p # PathOf[cur[t]]
      BY <1>1, <1>2 DEF Holds, SnapshotInv, SnapshotIsPrefix
<1>3. CASE p = PathOf[cur[t]]
  <2>1. file'[p] = html[t] /\ cur[t] = s
        BY <1>1, <1>3 DEF Holds, Torn, SnapshotInv, PageIsFresh
  <2>2. html[t].captures = captures[s] /\ (html[t].live => endpoint[s])
        BY <2>1 DEF SnapshotInv, PageIsFresh
  <2>3. IsPrefixOf(html[t].captures, captures[s])
        BY <2>2 DEF IsPrefixOf
  <2> QED BY <1>3, <2>1, <2>2, <2>3 DEF SnapshotInv, EndpointServed
<1> QED BY <1>2, <1>3

LEMMA PrefixStep == SnapshotInv /\ [Next]_vars => SnapshotIsPrefix'
<1> SUFFICES ASSUME SnapshotInv, [Next]_vars PROVE SnapshotIsPrefix'
    OBVIOUS
<1>0. TypeOK /\ TypeOK' /\ LocksInv /\ SnapshotIsPrefix
      BY TypeStep DEF SnapshotInv, LogInv, LocksInv
<1> USE <1>0 DEF shared, serving, history, locals, Goto
<1>1. ASSUME NEW t \in Threads, NEW s \in Sessions, BeginCapture(t, s) PROVE SnapshotIsPrefix'
      BY <1>1, PrefixQuiet DEF BeginCapture
<1>2. ASSUME NEW t \in Threads, LockCaptures(t) PROVE SnapshotIsPrefix'
      BY <1>2, PrefixQuiet DEF LockCaptures
<1>3. ASSUME NEW t \in Threads, Push(t) PROVE SnapshotIsPrefix'
  <2>1. \A s \in Sessions : IsPrefixOf(captures[s], captures'[s])
        BY <1>3, PushGrows DEF IsPrefixOf
  <2> QED BY <1>3, <2>1, PrefixKept DEF Push
<1>4. ASSUME NEW t \in Threads, Render(t) PROVE SnapshotIsPrefix'
      BY <1>4, PrefixQuiet DEF Render
<1>5. ASSUME NEW t \in Threads, WriteTemp(t) PROVE SnapshotIsPrefix'
      BY <1>5, PrefixQuiet DEF WriteTemp, WriteEnds
<1>6. ASSUME NEW t \in Threads, Rename(t) PROVE SnapshotIsPrefix'
  <2>1. CASE pc[t] = "rename" /\ WriteEnds(t, TRUE)
             /\ file' = [file EXCEPT ![PathOf[cur[t]]] = html[t]]
        BY <2>1, PrefixWritten DEF AwaitsWrite, WriteEnds
  <2>2. CASE UNCHANGED <<shared, serving>>
        BY <2>2, PrefixQuiet
  <2> QED BY <1>6, <2>1, <2>2 DEF Rename
<1>7. ASSUME NEW t \in Threads, Truncate(t) PROVE SnapshotIsPrefix'
  <2>1. CASE pc[t] = "truncate" /\ file' = [file EXCEPT ![PathOf[cur[t]]] = Torn]
             /\ UNCHANGED <<captures, endpoint, server>>
        BY <2>1, PrefixWritten DEF AwaitsWrite
  <2>2. CASE WriteEnds(t, FALSE) /\ UNCHANGED file
        BY <2>2, PrefixQuiet DEF WriteEnds
  <2> QED BY <1>7, <2>1, <2>2 DEF Truncate
<1>8. ASSUME NEW t \in Threads, FallbackWrite(t) PROVE SnapshotIsPrefix'
  <2>1. PICK content \in {html[t], Torn}, result \in BOOLEAN :
            /\ pc[t] = "fallback" /\ WriteEnds(t, result)
            /\ file' = [file EXCEPT ![PathOf[cur[t]]] = content]
        BY <1>8 DEF FallbackWrite
  <2> QED BY <2>1, PrefixWritten DEF AwaitsWrite, WriteEnds
<1>9. ASSUME NEW t \in Threads, Report(t) PROVE SnapshotIsPrefix'
      BY <1>9, PrefixQuiet DEF Report
<1>10. ASSUME NEW t \in Threads, AlreadyStarted(t) PROVE SnapshotIsPrefix'
      BY <1>10, PrefixQuiet DEF AlreadyStarted
<1>11. ASSUME NEW t \in Threads, LockViewer(t) PROVE SnapshotIsPrefix'
      BY <1>11, PrefixQuiet DEF LockViewer
<1>12. ASSUME NEW t \in Threads, StartServer(t) PROVE SnapshotIsPrefix'
  <2>1. /\ UNCHANGED <<file, captures, endpoint>>
        /\ \A s \in Sessions : server[s] # "off" => server'[s] # "off"
        BY <1>12 DEF TypeOK, StartServer
  <2> QED BY <2>1, PrefixQuiet
<1>13. ASSUME NEW t \in Threads, SetEndpoint(t) PROVE SnapshotIsPrefix'
  <2>1. /\ UNCHANGED <<file, captures, server>>
        /\ \A s \in Sessions : endpoint[s] => endpoint'[s]
        BY <1>13 DEF TypeOK, SetEndpoint, serving
  <2> QED BY <2>1, PrefixQuiet
<1>14. ASSUME NEW t \in Threads, Relock(t) PROVE SnapshotIsPrefix'
      BY <1>14, PrefixQuiet DEF Relock
<1>15. ASSUME NEW t \in Threads, OpenBrowser(t) PROVE SnapshotIsPrefix'
      BY <1>15, PrefixQuiet DEF OpenBrowser
<1>16. ASSUME NEW t \in Threads, CloseViewer(t) PROVE SnapshotIsPrefix'
      BY <1>16, PrefixQuiet DEF CloseViewer
<1>17. ASSUME NEW t \in Threads, Panic(t) PROVE SnapshotIsPrefix'
      BY <1>17, PrefixQuiet DEF Panic
<1>18. ASSUME NEW s \in Sessions, Accept(s) PROVE SnapshotIsPrefix'
  <2>1. /\ UNCHANGED <<file, captures, endpoint>>
        /\ \A r \in Sessions : server[r] # "off" => server'[r] # "off"
        BY <1>18, EnvironmentAssumption DEF TypeOK, RequestKinds, Accept, shared
  <2> QED BY <2>1, PrefixQuiet
<1>19. ASSUME NEW s \in Sessions, LockAndServe(s) PROVE SnapshotIsPrefix'
      BY <1>19, PrefixQuiet, EnvironmentAssumption DEF TypeOK, RequestKinds, LockAndServe
<1>20. ASSUME NEW s \in Sessions, FinishResponse(s) PROVE SnapshotIsPrefix'
      BY <1>20, PrefixQuiet, EnvironmentAssumption DEF TypeOK, RequestKinds, FinishResponse
<1>21. ASSUME NEW s \in Sessions, ReadTimeout(s) PROVE SnapshotIsPrefix'
      BY <1>21, PrefixQuiet, EnvironmentAssumption DEF TypeOK, RequestKinds, ReadTimeout
<1>22. ASSUME UNCHANGED vars PROVE SnapshotIsPrefix'
      BY <1>22, PrefixQuiet DEF vars
<1> QED
    BY <1>1, <1>2, <1>3, <1>4, <1>5, <1>6, <1>7, <1>8, <1>9, <1>10, <1>11, <1>12,
       <1>13, <1>14, <1>15, <1>16, <1>17, <1>18, <1>19, <1>20, <1>21, <1>22
    DEF Next, ThreadStep, ServerStep

LEMMA SnapshotInit == Init => SnapshotInv
BY LogInit DEF Init, SnapshotInv, PageIsFresh, AwaitsWrite, EndpointServed,
               SnapshotIsPrefix, Holds, Absent, ResponseIsCurrent

LEMMA SnapshotStep == SnapshotInv /\ [Next]_vars => SnapshotInv'
BY LogStep, EndpointStep, ResponseStep, FreshStep, PrefixStep DEF SnapshotInv

(* A page in a snapshot file shows a prefix of its session's log, and is live
   only if that session's server was started: at every moment, so wherever a
   crash stops the program. *)
THEOREM SnapshotShowsPrefix == Spec => []SnapshotIsPrefix
<1>1. Init => SnapshotInv BY SnapshotInit
<1>2. SnapshotInv /\ [Next]_vars => SnapshotInv' BY SnapshotStep
<1>3. SnapshotInv => SnapshotIsPrefix BY DEF SnapshotInv
<1> QED BY <1>1, <1>2, <1>3, PTL DEF Spec

(* A response being written shows the log as it is. *)
THEOREM ResponsesAreCurrent == Spec => []ResponseIsCurrent
<1>1. Init => SnapshotInv BY SnapshotInit
<1>2. SnapshotInv /\ [Next]_vars => SnapshotInv' BY SnapshotStep
<1>3. SnapshotInv => ResponseIsCurrent BY DEF SnapshotInv
<1> QED BY <1>1, <1>2, <1>3, PTL DEF Spec

-----------------------------------------------------------------------------
(* Two writers of a snapshot never finish in the wrong order, and the last one
   leaves the whole log. *)

(* One file, one session: what the property says of a step. *)
Advances(p, s) ==
    Holds(p, s) /\ Holds(p, s)' =>
        /\ IsPrefixOf(file[p].captures, file'[p].captures)
        /\ file[p].live => file'[p].live

LEMMA PrefixReflexive == \A p \in Paths : IsPrefixOf(file[p].captures, file[p].captures)
<1>1. SUFFICES ASSUME NEW p \in Paths PROVE IsPrefixOf(file[p].captures, file[p].captures)
      OBVIOUS
<1> QED BY DEF IsPrefixOf

(* What replaces a page is torn, or a page that shows the whole log. *)
LEMMA WriteAdvances ==
    ASSUME SnapshotInv, NEW t \in Threads, pc[t] \in AwaitsWrite,
           NEW content \in {html[t], Torn},
           file' = [file EXCEPT ![PathOf[cur[t]]] = content],
           NEW p \in Paths, NEW s \in Sessions
    PROVE  Advances(p, s)
<1> SUFFICES ASSUME Holds(p, s), Holds(p, s)'
             PROVE  /\ IsPrefixOf(file[p].captures, file'[p].captures)
                    /\ file[p].live => file'[p].live
    BY DEF Advances
<1>1. file \in [Paths -> Page \cup {Absent, Torn}]
      BY DEF SnapshotInv, LogInv, LocksInv, TypeOK
<1>2. CASE p # PathOf[cur[t]]
      BY <1>1, <1>2, PrefixReflexive
<1>3. CASE p = PathOf[cur[t]]
  <2>1. file'[p] = html[t] /\ cur[t] = s
        BY <1>1, <1>3 DEF Holds, Torn, SnapshotInv, PageIsFresh
  <2>2. html[t].captures = captures[s] /\ (file[p].live => html[t].live)
        BY <2>1 DEF SnapshotInv, PageIsFresh
  <2>3. IsPrefixOf(file[p].captures, captures[s])
        BY DEF SnapshotInv, SnapshotIsPrefix
  <2> QED BY <2>1, <2>2, <2>3
<1> QED BY <1>2, <1>3

(* Only the writing half of write_html touches the file. *)
LEMMA OnlyWritesChangeFiles ==
    ASSUME [Next]_vars
    PROVE  \/ UNCHANGED file
           \/ \E t \in Threads : \E content \in {html[t], Torn} :
                 /\ pc[t] \in AwaitsWrite
                 /\ file' = [file EXCEPT ![PathOf[cur[t]]] = content]
<1> DEFINE Goal ==
        \/ UNCHANGED file
        \/ \E t \in Threads : \E content \in {html[t], Torn} :
              /\ pc[t] \in AwaitsWrite
              /\ file' = [file EXCEPT ![PathOf[cur[t]]] = content]
<1> USE DEF shared, serving, history, locals, Goto
<1>1. ASSUME NEW t \in Threads, Rename(t) \/ Truncate(t) \/ FallbackWrite(t) PROVE Goal
  <2>1. CASE Rename(t) BY <2>1 DEF Rename, WriteEnds, AwaitsWrite
  <2>2. CASE Truncate(t) BY <2>2 DEF Truncate, WriteEnds, AwaitsWrite
  <2>3. CASE FallbackWrite(t) BY <2>3 DEF FallbackWrite, WriteEnds, AwaitsWrite
  <2> QED BY <1>1, <2>1, <2>2, <2>3
<1>2. ASSUME NEW t \in Threads, ThreadStep(t), ~(Rename(t) \/ Truncate(t) \/ FallbackWrite(t))
      PROVE  UNCHANGED file
      BY <1>2 DEF ThreadStep, LockCaptures, Push, Render, WriteTemp, WriteEnds, Report,
         AlreadyStarted, LockViewer, StartServer, SetEndpoint, Relock, OpenBrowser,
         CloseViewer, Panic
<1>3. ASSUME NEW t \in Threads, NEW s \in Sessions, BeginCapture(t, s) PROVE UNCHANGED file
      BY <1>3 DEF BeginCapture
<1>4. ASSUME NEW s \in Sessions, Accept(s) \/ ServerStep(s) PROVE UNCHANGED file
      BY <1>4 DEF ServerStep, Accept, LockAndServe, FinishResponse, ReadTimeout
<1>5. ASSUME UNCHANGED vars PROVE UNCHANGED file
      BY <1>5 DEF vars
<1> QED BY <1>1, <1>2, <1>3, <1>4, <1>5 DEF Next

LEMMA StepAdvances ==
    SnapshotInv /\ [Next]_vars => \A p \in Paths, s \in Sessions : Advances(p, s)
<1> SUFFICES ASSUME SnapshotInv, [Next]_vars, NEW p \in Paths, NEW s \in Sessions
             PROVE  Advances(p, s)
    OBVIOUS
<1>1. CASE UNCHANGED file
      BY <1>1, PrefixReflexive DEF Advances
<1>2. CASE \E t \in Threads : \E content \in {html[t], Torn} :
              /\ pc[t] \in AwaitsWrite
              /\ file' = [file EXCEPT ![PathOf[cur[t]]] = content]
      BY <1>2, WriteAdvances
<1> QED BY <1>1, <1>2, OnlyWritesChangeFiles

(* A page in a snapshot file is only ever replaced, for the same session, by one
   that shows at least its captures and is live if it was: the appends and the
   start-up's second write, each under the captures guard, end in the order in
   which they rendered (write_snapshot, ensure_viewer_started). *)
THEOREM SnapshotOrder == Spec => SnapshotNeverRegresses
<1>1. Init => SnapshotInv BY SnapshotInit
<1>2. SnapshotInv /\ [Next]_vars => SnapshotInv' BY SnapshotStep
<1>3. SnapshotInv /\ [Next]_vars =>
        [\A p \in Paths, s \in Sessions : Advances(p, s)]_vars
      BY StepAdvances
<1>4. [\A p \in Paths, s \in Sessions : Advances(p, s)]_vars <=>
      [\A p \in Paths, s \in Sessions :
          Holds(p, s) /\ Holds(p, s)' =>
              /\ IsPrefixOf(file[p].captures, file'[p].captures)
              /\ file[p].live => file'[p].live]_vars
      BY DEF Advances
<1> QED BY <1>1, <1>2, <1>3, <1>4, PTL DEF Spec, SnapshotNeverRegresses

-----------------------------------------------------------------------------
(* The snapshot is current after the last capture's write succeeded. *)

Newest(s) == captures[s][Len(captures[s])]

(* A call appends once, and a thread's calls one after the other: if the last
   capture of a log is of its thread's latest call, that thread is still there,
   past its push, or done with it. *)
LastCall ==
    \A s \in Sessions, t \in Threads : captures[s] # << >> /\ Newest(s).by = t =>
        /\ Newest(s).nth <= made[t]
        /\ Newest(s).nth = made[t] => cur[t] = s /\ pc[t] \notin {"append", "push"}

(* Between push and the end of append's own write. *)
Appending(t) == pc[t] \in Writing /\ viewLock[cur[t]] # t

AppendIsLast ==
    \A t \in Threads : Appending(t) => captures[cur[t]] # << >> /\ Newest(cur[t]).by = t

FallbackAfterRename ==
    \A t \in Threads : pc[t] \in {"truncate", "fallback"} => "rename" \in Faults

OwnPath(s) == \A r \in Sessions \ {s} : PathOf[r] # PathOf[s]

LastWritten(s) ==
    captures[s] # << >> /\ made[Newest(s).by] = Newest(s).nth /\ ok[Newest(s).by]

Current(s) ==
    \/ Holds(PathOf[s], s) /\ file[PathOf[s]].captures = captures[s]
    \/ file[PathOf[s]] = Torn /\ "rename" \in Faults

(* While the start-up writes the page again the file may be torn, never older. *)
FileIsCurrent ==
    \A s \in Sessions :
        /\ OwnPath(s) /\ LastWritten(s)
        /\ \A t \in Threads : cur[t] = s => ~Appending(t)
        => Current(s)

LastInv == LogInv /\ LastCall /\ AppendIsLast /\ FallbackAfterRename
CurrentInv == SnapshotInv /\ LastInv /\ FileIsCurrent

LEMMA LastTyped ==
    ASSUME TypeOK, NEW s \in Sessions, captures[s] # << >>
    PROVE  Newest(s) \in Capture /\ Newest(s).by \in Threads /\ Newest(s).nth \in Nat
<1>1. captures[s] \in Seq(Capture) /\ captures[s] # << >>
      BY DEF TypeOK
<1>2. Newest(s) \in Capture
      BY <1>1 DEF Newest
<1> QED BY <1>2 DEF Capture

LEMMA PushedIsLast ==
    ASSUME LocksInv, NEW t \in Threads, Push(t)
    PROVE  /\ captures'[cur[t]] # << >>
           /\ Newest(cur[t])'.by = t /\ Newest(cur[t])'.nth = made[t]
           /\ \A s \in Sessions \ {cur[t]} : captures'[s] = captures[s]
<1> DEFINE c == [sequence |-> number[t], by |-> t, nth |-> made[t]]
           log == captures[cur[t]]
<1>1. c \in Capture /\ cur[t] \in Sessions /\ log \in Seq(Capture)
      BY DEF LocksInv, TypeOK, Capture
<1>2. captures'[cur[t]] = Append(log, c)
      BY <1>1 DEF Push, LocksInv, TypeOK
<1>3. Append(log, c) # << >> /\ Append(log, c)[Len(Append(log, c))] = c
      BY <1>1
<1>4. cur' = cur
      BY DEF Push, locals
<1> QED BY <1>2, <1>3, <1>4, PushGrows DEF Newest

(* What the steps of write_snapshot have in common. *)
LEMMA WritingMoves ==
    ASSUME TypeOK, NEW t \in Threads,
           WriteTemp(t) \/ Rename(t) \/ Truncate(t) \/ FallbackWrite(t)
    PROVE  /\ pc[t] \in AwaitsWrite
           /\ \E to \in {"rename", "truncate", "fallback", "open", "report"} :
                 /\ pc' = [pc EXCEPT ![t] = to]
                 /\ to = "open" => viewLock[cur[t]] = t
                 /\ to \in {"truncate", "fallback"} =>
                        "rename" \in Faults \/ pc[t] \in {"truncate", "fallback"}
           /\ UNCHANGED <<captures, viewer, viewLock, endpoint, serving, history,
                          cur, made, number, html>>
<1> USE DEF TypeOK, WriteEnds, AwaitsWrite, shared, serving, history, locals, Goto
<1>1. CASE WriteTemp(t) BY <1>1 DEF WriteTemp
<1>2. CASE Rename(t) BY <1>2 DEF Rename
<1>3. CASE Truncate(t) BY <1>3 DEF Truncate
<1>4. CASE FallbackWrite(t) BY <1>4 DEF FallbackWrite
<1> QED BY <1>1, <1>2, <1>3, <1>4

(* A step that neither begins a call nor pushes. *)
LEMMA LastCallKept ==
    ASSUME TypeOK, LastCall, NEW t \in Threads, NEW to, pc' = [pc EXCEPT ![t] = to],
           to \in {"append", "push"} => pc[t] \in {"append", "push"},
           UNCHANGED <<captures, made, cur>>
    PROVE  LastCall'
<1>1. \A u \in Threads : pc'[u] \in {"append", "push"} => pc[u] \in {"append", "push"}
      BY DEF TypeOK
<1> QED BY <1>1 DEF LastCall, Newest

LEMMA LastCallStep == LastInv /\ [Next]_vars => LastCall'
<1> SUFFICES ASSUME LastInv, [Next]_vars PROVE LastCall'
    OBVIOUS
<1>0. LocksInv /\ TypeOK /\ LastCall
      BY DEF LastInv, LogInv, LocksInv
<1> USE <1>0 DEF shared, serving, history, locals, Goto

<1>1. ASSUME NEW t \in Threads, NEW s \in Sessions, BeginCapture(t, s) PROVE LastCall'
  <2>1. /\ UNCHANGED captures /\ made[t] \in Nat /\ made'[t] = made[t] + 1
        /\ \A u \in Threads \ {t} : UNCHANGED <<made[u], cur[u], pc[u]>>
        BY <1>1 DEF TypeOK, BeginCapture
  <2>2. \A r \in Sessions : Newest(r)' = Newest(r)
        BY <2>1 DEF Newest
  <2>3. ASSUME NEW r \in Sessions, captures[r] # << >>, Newest(r).by = t
        PROVE  Newest(r).nth < made'[t]
        BY <2>1, <2>3, LastTyped DEF LastCall
  <2>4. ASSUME NEW r \in Sessions, NEW u \in Threads, captures[r] # << >>, Newest(r).by = u
        PROVE  /\ Newest(r).nth <= made'[u]
               /\ Newest(r).nth = made'[u] => cur'[u] = r /\ pc'[u] \notin {"append", "push"}
    <3>1. CASE u = t
          BY <2>1, <2>3, <2>4, <3>1, LastTyped
    <3>2. CASE u # t
          BY <2>1, <2>4, <3>2 DEF LastCall
    <3> QED BY <3>1, <3>2
  <2> QED BY <2>1, <2>2, <2>4 DEF LastCall
<1>2. ASSUME NEW t \in Threads, LockCaptures(t) PROVE LastCall'
      BY <1>2, LastCallKept DEF LockCaptures
<1>3. ASSUME NEW t \in Threads, Push(t) PROVE LastCall'
  <2>1. /\ UNCHANGED <<made, cur>> /\ pc' = [pc EXCEPT ![t] = "render"]
        /\ \A s \in Sessions \ {cur[t]} : Newest(s)' = Newest(s)
        BY <1>3, PushedIsLast DEF Push, Newest
  <2>2. ASSUME NEW s \in Sessions, NEW u \in Threads, captures'[s] # << >>, Newest(s)'.by = u
        PROVE  /\ Newest(s)'.nth <= made[u]
               /\ Newest(s)'.nth = made[u] => cur[u] = s /\ pc'[u] \notin {"append", "push"}
    <3>1. CASE s = cur[t]
          BY <1>3, <2>1, <2>2, <3>1, PushedIsLast DEF TypeOK
    <3>2. CASE s # cur[t]
      <4>1. captures[s] # << >> /\ Newest(s)' = Newest(s) /\ Newest(s).by = u
            BY <1>3, <2>1, <2>2, <3>2, PushedIsLast
      <4>2. /\ Newest(s).nth <= made[u]
            /\ Newest(s).nth = made[u] => cur[u] = s /\ pc[u] \notin {"append", "push"}
            BY <4>1 DEF LastCall
      <4>3. pc'[u] \in {"append", "push"} => pc[u] \in {"append", "push"}
            BY <2>1 DEF TypeOK
      <4> QED BY <4>1, <4>2, <4>3
    <3> QED BY <3>1, <3>2
  <2> QED BY <2>1, <2>2 DEF LastCall
<1>4. ASSUME NEW t \in Threads, Render(t) PROVE LastCall'
      BY <1>4, LastCallKept DEF Render
<1>5. ASSUME NEW t \in Threads, WriteTemp(t) PROVE LastCall'
  <2>1. PICK to \in Steps \ {"append", "push"} : pc' = [pc EXCEPT ![t] = to]
        BY <1>5, WritingMoves DEF Steps
  <2> QED BY <1>5, <2>1, WritingMoves, LastCallKept
<1>6. ASSUME NEW t \in Threads, Rename(t) PROVE LastCall'
  <2>1. PICK to \in Steps \ {"append", "push"} : pc' = [pc EXCEPT ![t] = to]
        BY <1>6, WritingMoves DEF Steps
  <2> QED BY <1>6, <2>1, WritingMoves, LastCallKept
<1>7. ASSUME NEW t \in Threads, Truncate(t) PROVE LastCall'
  <2>1. PICK to \in Steps \ {"append", "push"} : pc' = [pc EXCEPT ![t] = to]
        BY <1>7, WritingMoves DEF Steps
  <2> QED BY <1>7, <2>1, WritingMoves, LastCallKept
<1>8. ASSUME NEW t \in Threads, FallbackWrite(t) PROVE LastCall'
  <2>1. PICK to \in Steps \ {"append", "push"} : pc' = [pc EXCEPT ![t] = to]
        BY <1>8, WritingMoves DEF Steps
  <2> QED BY <1>8, <2>1, WritingMoves, LastCallKept
<1>9. ASSUME NEW t \in Threads, Report(t) PROVE LastCall'
  <2>1. PICK to \in Steps \ {"append", "push"} : pc' = [pc EXCEPT ![t] = to]
        BY <1>9 DEF Report, Steps
  <2> QED BY <1>9, <2>1, LastCallKept DEF Report
<1>10. ASSUME NEW t \in Threads, AlreadyStarted(t) PROVE LastCall'
      BY <1>10, LastCallKept DEF AlreadyStarted
<1>11. ASSUME NEW t \in Threads, LockViewer(t) PROVE LastCall'
      BY <1>11, LastCallKept DEF LockViewer
<1>12. ASSUME NEW t \in Threads, StartServer(t) PROVE LastCall'
  <2>1. PICK to \in Steps \ {"append", "push"} : pc' = [pc EXCEPT ![t] = to]
        BY <1>12 DEF StartServer, Steps
  <2> QED BY <1>12, <2>1, LastCallKept DEF StartServer
<1>13. ASSUME NEW t \in Threads, SetEndpoint(t) PROVE LastCall'
      BY <1>13, LastCallKept DEF SetEndpoint
<1>14. ASSUME NEW t \in Threads, Relock(t) PROVE LastCall'
      BY <1>14, LastCallKept DEF Relock
<1>15. ASSUME NEW t \in Threads, OpenBrowser(t) PROVE LastCall'
      BY <1>15, LastCallKept DEF OpenBrowser
<1>16. ASSUME NEW t \in Threads, CloseViewer(t) PROVE LastCall'
      BY <1>16, LastCallKept DEF CloseViewer
<1>17. ASSUME NEW t \in Threads, Panic(t) PROVE LastCall'
      BY <1>17, LastCallKept DEF Panic
<1>18. ASSUME NEW s \in Sessions, Accept(s) PROVE LastCall'
      BY <1>18 DEF Accept, LastCall, Newest
<1>19. ASSUME NEW s \in Sessions, LockAndServe(s) PROVE LastCall'
      BY <1>19 DEF LockAndServe, LastCall, Newest
<1>20. ASSUME NEW s \in Sessions, FinishResponse(s) PROVE LastCall'
      BY <1>20 DEF FinishResponse, LastCall, Newest
<1>21. ASSUME NEW s \in Sessions, ReadTimeout(s) PROVE LastCall'
      BY <1>21 DEF ReadTimeout, LastCall, Newest
<1>22. ASSUME UNCHANGED vars PROVE LastCall'
      BY <1>22 DEF vars, LastCall, Newest
<1> QED
    BY <1>1, <1>2, <1>3, <1>4, <1>5, <1>6, <1>7, <1>8, <1>9, <1>10, <1>11, <1>12,
       <1>13, <1>14, <1>15, <1>16, <1>17, <1>18, <1>19, <1>20, <1>21, <1>22
    DEF Next, ThreadStep, ServerStep

(* A step that neither pushes nor takes or drops a guard on the viewer. *)
LEMMA AppendKept ==
    ASSUME TypeOK, AppendIsLast, FallbackAfterRename, NEW t \in Threads, NEW to,
           pc' = [pc EXCEPT ![t] = to],
           to \in Writing => pc[t] \in Writing,
           to \in {"truncate", "fallback"} =>
               "rename" \in Faults \/ pc[t] \in {"truncate", "fallback"},
           UNCHANGED <<captures, viewLock, cur>>
    PROVE  AppendIsLast' /\ FallbackAfterRename'
<1>1. \A u \in Threads : pc'[u] \in Writing => pc[u] \in Writing
      BY DEF TypeOK
<1>2. AppendIsLast'
      BY <1>1 DEF AppendIsLast, Appending, Newest
<1>3. FallbackAfterRename'
      BY DEF TypeOK, FallbackAfterRename
<1> QED BY <1>2, <1>3

LEMMA WritingKeepsAppend ==
    ASSUME LastInv, NEW t \in Threads,
           WriteTemp(t) \/ Rename(t) \/ Truncate(t) \/ FallbackWrite(t)
    PROVE  AppendIsLast' /\ FallbackAfterRename'
<1>1. TypeOK /\ AppendIsLast /\ FallbackAfterRename
      BY DEF LastInv, LogInv, LocksInv
<1>2. PICK to \in {"rename", "truncate", "fallback", "open", "report"} :
          /\ pc' = [pc EXCEPT ![t] = to]
          /\ to \in {"truncate", "fallback"} =>
                 "rename" \in Faults \/ pc[t] \in {"truncate", "fallback"}
      BY <1>1, WritingMoves
<1>3. pc[t] \in Writing /\ UNCHANGED <<captures, viewLock, cur>>
      BY <1>1, WritingMoves DEF AwaitsWrite, Writing
<1> QED BY <1>1, <1>2, <1>3, AppendKept

LEMMA AppendStep == LastInv /\ [Next]_vars => AppendIsLast' /\ FallbackAfterRename'
<1> SUFFICES ASSUME LastInv, [Next]_vars PROVE AppendIsLast' /\ FallbackAfterRename'
    OBVIOUS
<1> DEFINE Goal == AppendIsLast' /\ FallbackAfterRename'
<1> USE DEF LastInv, LogInv, LocksInv, AppendIsLast, Appending, FallbackAfterRename, Writing,
        Newest, shared, serving, history, locals, Goto

<1>1. ASSUME NEW t \in Threads, NEW s \in Sessions, BeginCapture(t, s) PROVE Goal
      BY <1>1 DEF TypeOK, BeginCapture
<1>2. ASSUME NEW t \in Threads, LockCaptures(t) PROVE Goal
      BY <1>2 DEF TypeOK, LockCaptures
<1>3. ASSUME NEW t \in Threads, Push(t) PROVE Goal
  <2>1. /\ UNCHANGED <<cur, viewLock>> /\ pc' = [pc EXCEPT ![t] = "render"] /\ cur[t] \in Sessions
        /\ \A u \in Threads \ {t} : cur[u] = cur[t] => pc[u] \notin Writing
        BY <1>3, HolderAlone DEF TypeOK, Push
  <2>2. \A s \in Sessions \ {cur[t]} : captures'[s] = captures[s] /\ Newest(s)' = Newest(s)
        BY <1>3, PushedIsLast
  <2>3. captures'[cur[t]] # << >> /\ Newest(cur[t])'.by = t
        BY <1>3, PushedIsLast
  <2>4. ASSUME NEW u \in Threads, pc'[u] \in Writing, viewLock[cur[u]] # u
        PROVE  captures'[cur[u]] # << >> /\ Newest(cur[u])'.by = u
    <3>1. CASE u = t
          BY <2>3, <3>1
    <3>2. CASE u # t
      <4>1. cur[u] \in Sessions \ {cur[t]} /\ pc[u] \in Writing
            BY <2>1, <2>4, <3>2 DEF TypeOK
      <4>2. Appending(u)
            BY <2>4, <4>1
      <4>3. captures[cur[u]] # << >> /\ Newest(cur[u]).by = u
            BY <4>2
      <4> QED BY <2>1, <2>2, <4>1, <4>3
    <3> QED BY <3>1, <3>2
  <2> QED BY <2>1, <2>4 DEF TypeOK
<1>4. ASSUME NEW t \in Threads, Render(t) PROVE Goal
      BY <1>4 DEF TypeOK, Render
<1>5. ASSUME NEW t \in Threads, WriteTemp(t) PROVE Goal
      BY <1>5, WritingKeepsAppend
<1>6. ASSUME NEW t \in Threads, Rename(t) PROVE Goal
      BY <1>6, WritingKeepsAppend
<1>7. ASSUME NEW t \in Threads, Truncate(t) PROVE Goal
      BY <1>7, WritingKeepsAppend
<1>8. ASSUME NEW t \in Threads, FallbackWrite(t) PROVE Goal
      BY <1>8, WritingKeepsAppend
<1>9. ASSUME NEW t \in Threads, Report(t) PROVE Goal
      BY <1>9 DEF TypeOK, Report
<1>10. ASSUME NEW t \in Threads, AlreadyStarted(t) PROVE Goal
      BY <1>10 DEF TypeOK, AlreadyStarted
<1>11. ASSUME NEW t \in Threads, LockViewer(t) PROVE Goal
  <2>1. /\ UNCHANGED <<captures, cur>> /\ pc' = [pc EXCEPT ![t] = "start"]
        /\ viewLock' = [viewLock EXCEPT ![cur[t]] = t] /\ viewLock[cur[t]] = NoThread
        BY <1>11 DEF LockViewer, ViewerLockFree
  <2>2. \A u \in Threads : pc'[u] \in Writing /\ viewLock'[cur[u]] # u => Appending(u)
        BY <2>1, ThreadsAssumption DEF TypeOK
  <2> QED BY <2>1, <2>2 DEF TypeOK
<1>12. ASSUME NEW t \in Threads, StartServer(t) PROVE Goal
  <2>1. PICK to \in {"endpoint", "open"} : pc' = [pc EXCEPT ![t] = to]
        BY <1>12 DEF StartServer
  <2>2. pc[t] = "start" /\ UNCHANGED <<captures, viewLock, cur>>
        BY <1>12 DEF StartServer
  <2> QED BY <2>1, <2>2, AppendKept
<1>13. ASSUME NEW t \in Threads, SetEndpoint(t) PROVE Goal
      BY <1>13 DEF TypeOK, SetEndpoint
<1>14. ASSUME NEW t \in Threads, Relock(t) PROVE Goal
  <2>1. pc[t] = "relock" /\ viewLock[cur[t]] = t
        BY <1>14 DEF TypeOK, Relock, ViewerLockHeld, StartingUp
  <2> QED BY <1>14, <2>1 DEF TypeOK, Relock
<1>15. ASSUME NEW t \in Threads, OpenBrowser(t) PROVE Goal
      BY <1>15 DEF TypeOK, OpenBrowser
<1>16. ASSUME NEW t \in Threads, CloseViewer(t) PROVE Goal
  <2>1. viewLock[cur[t]] = t
        BY <1>16 DEF TypeOK, CloseViewer, ViewerLockHeld, StartingUp
  <2> QED BY <1>16, <2>1 DEF TypeOK, CloseViewer
<1>17. ASSUME NEW t \in Threads, Panic(t) PROVE Goal
      BY <1>17 DEF TypeOK, Panic
<1>18. ASSUME NEW s \in Sessions, Accept(s) PROVE Goal
      BY <1>18 DEF TypeOK, Accept
<1>19. ASSUME NEW s \in Sessions, LockAndServe(s) PROVE Goal
      BY <1>19 DEF TypeOK, LockAndServe
<1>20. ASSUME NEW s \in Sessions, FinishResponse(s) PROVE Goal
      BY <1>20 DEF TypeOK, FinishResponse
<1>21. ASSUME NEW s \in Sessions, ReadTimeout(s) PROVE Goal
      BY <1>21 DEF TypeOK, ReadTimeout
<1>22. ASSUME UNCHANGED vars PROVE Goal
      BY <1>22 DEF TypeOK, vars
<1> QED
    BY <1>1, <1>2, <1>3, <1>4, <1>5, <1>6, <1>7, <1>8, <1>9, <1>10, <1>11, <1>12,
       <1>13, <1>14, <1>15, <1>16, <1>17, <1>18, <1>19, <1>20, <1>21, <1>22
    DEF Next, ThreadStep, ServerStep

(* Steps that write nothing, and push nothing. *)
LEMMA CurrentKept ==
    ASSUME CurrentInv, UNCHANGED <<captures, file>>,
           \A s \in Sessions : OwnPath(s) /\ LastWritten(s)' => LastWritten(s),
           \A s \in Sessions, t \in Threads :
              LastWritten(s)' /\ cur[t] = s /\ Appending(t) => cur'[t] = s /\ Appending(t)'
    PROVE  FileIsCurrent'
<1> SUFFICES ASSUME NEW s \in Sessions, OwnPath(s), LastWritten(s)',
                    \A t \in Threads : cur'[t] = s => ~Appending(t)'
             PROVE  Current(s)'
    BY DEF FileIsCurrent, OwnPath
<1>1. Current(s)
      BY DEF CurrentInv, FileIsCurrent
<1> QED BY <1>1 DEF Current, Holds

(* A write that failed with the file left as it was. *)
LEMMA CurrentUnwritten ==
    ASSUME CurrentInv, NEW t \in Threads, WriteEnds(t, FALSE), UNCHANGED file
    PROVE  FileIsCurrent'
<1> USE DEF CurrentInv, SnapshotInv, LastInv, LogInv, LocksInv
<1>1. /\ UNCHANGED <<captures, file, made, cur, viewLock>> /\ ~ok'[t]
      /\ \A u \in Threads \ {t} : ok'[u] = ok[u] /\ pc'[u] = pc[u]
      BY DEF TypeOK, WriteEnds
<1>2. \A s \in Sessions : LastWritten(s)' => LastWritten(s) /\ Newest(s).by # t
  <2> SUFFICES ASSUME NEW s \in Sessions, LastWritten(s)'
               PROVE  LastWritten(s) /\ Newest(s).by # t
      OBVIOUS
  <2>1. /\ captures[s] # << >> /\ Newest(s)' = Newest(s)
        /\ made[Newest(s).by] = Newest(s).nth /\ ok'[Newest(s).by]
        BY <1>1 DEF LastWritten, Newest
  <2>2. Newest(s).by \in Threads
        BY <2>1, LastTyped
  <2> QED BY <1>1, <2>1, <2>2 DEF LastWritten
<1>3. ASSUME NEW s \in Sessions, NEW u \in Threads, LastWritten(s)', cur[u] = s, Appending(u)
      PROVE  cur'[u] = s /\ Appending(u)'
  <2>1. Newest(s).by = u
        BY <1>3 DEF AppendIsLast
  <2> QED BY <1>1, <1>2, <1>3, <2>1 DEF Appending
<1> QED BY <1>1, <1>2, <1>3, CurrentKept

(* A page that is written, or torn on the way, over the file of t's session. *)
LEMMA CurrentWritten ==
    ASSUME CurrentInv, NEW t \in Threads, pc[t] \in AwaitsWrite,
           NEW to, pc' = [pc EXCEPT ![t] = to],
           NEW content \in {html[t], Torn}, content = html[t] \/ "rename" \in Faults,
           file' = [file EXCEPT ![PathOf[cur[t]]] = content],
           \A u \in Threads \ {t} : ok'[u] = ok[u],
           UNCHANGED <<captures, made, cur, viewLock>>
    PROVE  FileIsCurrent'
<1> USE DEF CurrentInv, SnapshotInv, LastInv, LogInv, LocksInv
<1> SUFFICES ASSUME NEW s \in Sessions, OwnPath(s), LastWritten(s)',
                    \A u \in Threads : cur[u] = s => ~Appending(u)'
             PROVE  Current(s)'
    BY DEF FileIsCurrent, OwnPath
<1>1. /\ cur[t] \in Sessions /\ PathOf[s] \in Paths /\ file \in [Paths -> Page \cup {Absent, Torn}]
      /\ \A u \in Threads \ {t} : pc'[u] = pc[u]
      BY PathsAssumption DEF TypeOK
<1>2. CASE s = cur[t]
  <2>1. file'[PathOf[s]] = content
        BY <1>1, <1>2
  <2>2. CASE content = html[t]
        BY <1>2, <2>1, <2>2 DEF PageIsFresh, Current, Holds
  <2>3. CASE content = Torn /\ "rename" \in Faults
        BY <2>1, <2>3 DEF Current
  <2> QED BY <2>2, <2>3
<1>3. CASE s # cur[t]
  <2>1. PathOf[s] # PathOf[cur[t]]
        BY <1>1, <1>3 DEF OwnPath
  <2>2. file'[PathOf[s]] = file[PathOf[s]]
        BY <1>1, <2>1
  <2>3. /\ captures[s] # << >> /\ Newest(s)' = Newest(s)
        /\ made[Newest(s).by] = Newest(s).nth /\ ok'[Newest(s).by]
        BY DEF LastWritten, Newest
  <2>4. Newest(s).by \in Threads /\ Newest(s).by # t
        BY <1>3, <2>3, LastTyped DEF LastCall
  <2>5. LastWritten(s)
        BY <2>3, <2>4 DEF LastWritten
  <2>6. ASSUME NEW u \in Threads, cur[u] = s PROVE ~Appending(u)
    <3>1. u # t /\ ~Appending(u)'
          BY <1>3, <2>6
    <3> QED BY <1>1, <3>1 DEF Appending
  <2>7. Current(s)
        BY <2>5, <2>6 DEF FileIsCurrent
  <2> QED BY <2>2, <2>7 DEF Current, Holds
<1> QED BY <1>2, <1>3

LEMMA FileIsCurrentStep == CurrentInv /\ [Next]_vars => FileIsCurrent'
<1> SUFFICES ASSUME CurrentInv, [Next]_vars PROVE FileIsCurrent'
    OBVIOUS
<1>0. LocksInv /\ TypeOK
      BY DEF CurrentInv, SnapshotInv, LogInv, LocksInv
<1> USE <1>0 DEF shared, serving, history, locals, Goto

<1>1. ASSUME NEW t \in Threads, NEW s \in Sessions, BeginCapture(t, s) PROVE FileIsCurrent'
  <2>1. /\ UNCHANGED <<captures, file, viewLock, ok>> /\ made[t] \in Nat /\ made'[t] = made[t] + 1
        /\ pc[t] = "idle"
        /\ \A u \in Threads \ {t} : UNCHANGED <<made[u], cur[u], pc[u]>>
        BY <1>1 DEF TypeOK, BeginCapture
  <2>2. ASSUME NEW r \in Sessions, LastWritten(r)' PROVE LastWritten(r)
    <3>1. /\ captures[r] # << >> /\ Newest(r)' = Newest(r)
          /\ made'[Newest(r).by] = Newest(r).nth /\ ok[Newest(r).by]
          BY <2>1, <2>2 DEF LastWritten, Newest
    <3>2. Newest(r).by \in Threads /\ Newest(r).nth \in Nat /\ Newest(r).nth <= made[Newest(r).by]
          BY <3>1, LastTyped DEF CurrentInv, LastInv, LastCall
    <3>3. Newest(r).by # t
          BY <2>1, <3>1, <3>2
    <3> QED BY <2>1, <3>1, <3>2, <3>3 DEF LastWritten
  <2>3. \A u \in Threads : Appending(u) => cur'[u] = cur[u] /\ Appending(u)'
        BY <2>1 DEF Appending, Writing
  <2> QED BY <2>1, <2>2, <2>3, CurrentKept
<1>2. ASSUME NEW t \in Threads, LockCaptures(t) PROVE FileIsCurrent'
      BY <1>2, CurrentKept DEF LastWritten, Newest, Appending, Writing, TypeOK, LockCaptures
<1>3. ASSUME NEW t \in Threads, Push(t) PROVE FileIsCurrent'
  <2>1. /\ UNCHANGED <<cur, viewLock, file, made, ok>> /\ pc'[t] = "render" /\ cur[t] \in Sessions
        /\ \A u \in Threads \ {t} : pc'[u] = pc[u]
        BY <1>3 DEF TypeOK, Push
  <2>2. \A s \in Sessions \ {cur[t]} : captures'[s] = captures[s]
        BY <1>3, PushedIsLast
  <2>3. Appending(t)'
        BY <1>3, <2>1 DEF Push, Appending, Writing, StartingUp, ViewerLockHeld, LocksInv
  <2>4. SUFFICES ASSUME NEW s \in Sessions, OwnPath(s), LastWritten(s)',
                        \A u \in Threads : cur[u] = s => ~Appending(u)'
                 PROVE  Current(s)'
        BY <2>1 DEF FileIsCurrent, OwnPath
  <2>5. s # cur[t] /\ captures'[s] = captures[s]
        BY <2>2, <2>3, <2>4
  <2>6. LastWritten(s)
        BY <2>1, <2>4, <2>5 DEF LastWritten, Newest
  <2>7. ASSUME NEW u \in Threads, cur[u] = s PROVE ~Appending(u)
    <3>1. u # t /\ ~Appending(u)'
          BY <2>4, <2>5, <2>7
    <3> QED BY <2>1, <3>1 DEF Appending
  <2>8. Current(s)
        BY <2>4, <2>6, <2>7 DEF CurrentInv, FileIsCurrent
  <2> QED BY <2>1, <2>5, <2>8 DEF Current, Holds
<1>4. ASSUME NEW t \in Threads, Render(t) PROVE FileIsCurrent'
      BY <1>4, CurrentKept DEF LastWritten, Newest, Appending, Writing, TypeOK, Render
<1>5. ASSUME NEW t \in Threads, WriteTemp(t) PROVE FileIsCurrent'
  <2>1. CASE /\ UNCHANGED <<shared, serving, history, locals>>
             /\ pc[t] = "temp" /\ pc' = [pc EXCEPT ![t] = "rename"]
        BY <2>1, CurrentKept DEF LastWritten, Newest, Appending, Writing, TypeOK
  <2>2. CASE WriteEnds(t, FALSE) /\ UNCHANGED file
        BY <2>2, CurrentUnwritten
  <2> QED BY <1>5, <2>1, <2>2 DEF WriteTemp
<1>6. ASSUME NEW t \in Threads, Rename(t) PROVE FileIsCurrent'
  <2>1. CASE pc[t] = "rename" /\ WriteEnds(t, TRUE)
             /\ file' = [file EXCEPT ![PathOf[cur[t]]] = html[t]]
    <3>1. PICK to \in Steps : pc' = [pc EXCEPT ![t] = to]
          BY <2>1 DEF WriteEnds, Steps
    <3>2. /\ \A u \in Threads \ {t} : ok'[u] = ok[u]
          /\ UNCHANGED <<captures, made, cur, viewLock>> /\ pc[t] \in AwaitsWrite
          BY <2>1 DEF WriteEnds, TypeOK, AwaitsWrite
    <3>3. PICK content \in {html[t], Torn} :
              content = html[t] /\ file' = [file EXCEPT ![PathOf[cur[t]]] = content]
          BY <2>1
    <3> QED BY <3>1, <3>2, <3>3, CurrentWritten
  <2>2. CASE /\ UNCHANGED <<shared, serving, history, locals>>
             /\ pc[t] = "rename" /\ pc' = [pc EXCEPT ![t] = "truncate"]
        BY <2>2, CurrentKept DEF LastWritten, Newest, Appending, Writing, TypeOK
  <2> QED BY <1>6, <2>1, <2>2 DEF Rename
<1>7. ASSUME NEW t \in Threads, Truncate(t) PROVE FileIsCurrent'
  <2>1. CASE /\ UNCHANGED <<captures, made, cur, viewLock, ok>>
             /\ pc[t] = "truncate" /\ pc' = [pc EXCEPT ![t] = "fallback"]
             /\ file' = [file EXCEPT ![PathOf[cur[t]]] = Torn]
    <3>1. "rename" \in Faults
          BY <2>1 DEF CurrentInv, LastInv, FallbackAfterRename
    <3> QED BY <2>1, <3>1, CurrentWritten DEF AwaitsWrite
  <2>2. CASE WriteEnds(t, FALSE) /\ UNCHANGED file
        BY <2>2, CurrentUnwritten
  <2> QED BY <1>7, <2>1, <2>2 DEF Truncate
<1>8. ASSUME NEW t \in Threads, FallbackWrite(t) PROVE FileIsCurrent'
  <2>1. PICK content \in {html[t], Torn}, result \in BOOLEAN :
            /\ pc[t] = "fallback" /\ WriteEnds(t, result)
            /\ file' = [file EXCEPT ![PathOf[cur[t]]] = content]
        BY <1>8 DEF FallbackWrite
  <2>2. content = html[t] \/ "rename" \in Faults
        BY <2>1 DEF CurrentInv, LastInv, FallbackAfterRename
  <2>3. /\ \E to \in Steps : pc' = [pc EXCEPT ![t] = to]
        /\ \A u \in Threads \ {t} : ok'[u] = ok[u]
        /\ UNCHANGED <<captures, made, cur, viewLock>>
        BY <2>1 DEF WriteEnds, Steps, TypeOK
  <2> QED BY <2>1, <2>2, <2>3, CurrentWritten DEF AwaitsWrite
<1>9. ASSUME NEW t \in Threads, Report(t) PROVE FileIsCurrent'
      BY <1>9, CurrentKept DEF LastWritten, Newest, Appending, Writing, TypeOK, Report
<1>10. ASSUME NEW t \in Threads, AlreadyStarted(t) PROVE FileIsCurrent'
      BY <1>10, CurrentKept DEF LastWritten, Newest, Appending, Writing, TypeOK, AlreadyStarted
<1>11. ASSUME NEW t \in Threads, LockViewer(t) PROVE FileIsCurrent'
      BY <1>11, CurrentKept DEF LastWritten, Newest, Appending, Writing, TypeOK, LockViewer
<1>12. ASSUME NEW t \in Threads, StartServer(t) PROVE FileIsCurrent'
  <2>1. PICK to \in {"endpoint", "open"} : pc' = [pc EXCEPT ![t] = to]
        BY <1>12 DEF StartServer
  <2>2. pc[t] = "start" /\ UNCHANGED <<captures, file, viewLock, cur, made, ok>>
        BY <1>12 DEF StartServer
  <2>3. \A u \in Threads : Appending(u) => Appending(u)'
        BY <2>1, <2>2 DEF Appending, Writing, TypeOK
  <2> QED BY <2>2, <2>3, CurrentKept DEF LastWritten, Newest
<1>13. ASSUME NEW t \in Threads, SetEndpoint(t) PROVE FileIsCurrent'
      BY <1>13, CurrentKept DEF LastWritten, Newest, Appending, Writing, TypeOK, SetEndpoint
<1>14. ASSUME NEW t \in Threads, Relock(t) PROVE FileIsCurrent'
      BY <1>14, CurrentKept DEF LastWritten, Newest, Appending, Writing, TypeOK, Relock
<1>15. ASSUME NEW t \in Threads, OpenBrowser(t) PROVE FileIsCurrent'
      BY <1>15, CurrentKept DEF LastWritten, Newest, Appending, Writing, TypeOK, OpenBrowser
<1>16. ASSUME NEW t \in Threads, CloseViewer(t) PROVE FileIsCurrent'
  <2>1. \A u \in Threads : Appending(u) => Appending(u)'
    <3>1. /\ UNCHANGED cur /\ pc[t] = "close" /\ \A u \in Threads \ {t} : pc'[u] = pc[u]
          /\ \A s \in Sessions : viewLock'[s] \in {viewLock[s], NoThread}
          BY <1>16 DEF TypeOK, CloseViewer
    <3> QED BY <3>1, ThreadsAssumption DEF Appending, Writing, TypeOK
  <2> QED BY <1>16, <2>1, CurrentKept DEF LastWritten, Newest, CloseViewer
<1>17. ASSUME NEW t \in Threads, Panic(t) PROVE FileIsCurrent'
  <2>1. \A u \in Threads : Appending(u) => Appending(u)'
    <3>1. /\ UNCHANGED cur /\ \A u \in Threads \ {t} : pc'[u] = pc[u]
          /\ pc[t] \in {"report", "open", "close"}
          BY <1>17 DEF TypeOK, Panic
    <3>2. \A s \in Sessions : viewLock'[s] \in {viewLock[s], NoThread}
          BY <1>17 DEF TypeOK, Panic
    <3> QED BY <3>1, <3>2, ThreadsAssumption DEF Appending, Writing, TypeOK
  <2> QED BY <1>17, <2>1, CurrentKept DEF LastWritten, Newest, Panic
<1>18. ASSUME NEW s \in Sessions, Accept(s) PROVE FileIsCurrent'
      BY <1>18, CurrentKept DEF LastWritten, Newest, Appending, Writing, TypeOK, Accept
<1>19. ASSUME NEW s \in Sessions, LockAndServe(s) PROVE FileIsCurrent'
      BY <1>19, CurrentKept DEF LastWritten, Newest, Appending, Writing, TypeOK, LockAndServe
<1>20. ASSUME NEW s \in Sessions, FinishResponse(s) PROVE FileIsCurrent'
      BY <1>20, CurrentKept DEF LastWritten, Newest, Appending, Writing, TypeOK, FinishResponse
<1>21. ASSUME NEW s \in Sessions, ReadTimeout(s) PROVE FileIsCurrent'
      BY <1>21, CurrentKept DEF LastWritten, Newest, Appending, Writing, TypeOK, ReadTimeout
<1>22. ASSUME UNCHANGED vars PROVE FileIsCurrent'
      BY <1>22, CurrentKept DEF LastWritten, Newest, Appending, Writing, TypeOK, vars
<1> QED
    BY <1>1, <1>2, <1>3, <1>4, <1>5, <1>6, <1>7, <1>8, <1>9, <1>10, <1>11, <1>12,
       <1>13, <1>14, <1>15, <1>16, <1>17, <1>18, <1>19, <1>20, <1>21, <1>22
    DEF Next, ThreadStep, ServerStep

LEMMA LastInit == Init => LastInv
BY LogInit DEF Init, LastInv, LastCall, AppendIsLast, Appending, Writing, FallbackAfterRename

LEMMA LastStep == LastInv /\ [Next]_vars => LastInv'
BY LogStep, LastCallStep, AppendStep DEF LastInv

LEMMA CurrentInit == Init => CurrentInv
BY SnapshotInit, LastInit DEF Init, CurrentInv, FileIsCurrent, LastWritten

LEMMA CurrentStep == CurrentInv /\ [Next]_vars => CurrentInv'
BY SnapshotStep, LastStep, FileIsCurrentStep DEF CurrentInv

LEMMA CurrentShown == CurrentInv => SnapshotIsCurrent
<1> SUFFICES ASSUME CurrentInv, NEW s \in Sessions, OwnPath(s),
                    capLock[s] \in {NoThread, Viewer}, LastWritten(s)
             PROVE  Current(s)
    BY DEF SnapshotIsCurrent, OwnPath, LastWritten, Newest, Current
<1>1. \A t \in Threads : cur[t] = s => ~Appending(t)
      BY ThreadsAssumption
      DEF CurrentInv, SnapshotInv, LogInv, LocksInv, CapturesLockHeld, Appending
<1> QED BY <1>1 DEF CurrentInv, FileIsCurrent

(* When the write of a session's last capture succeeded and nobody holds the
   guard, a file of the session's own shows the whole log: write_snapshot runs
   under the guard its page was rendered under, and the start-up's second
   write can at worst tear the file, where fs::rename fails (append,
   ensure_viewer_started). *)
THEOREM SnapshotStaysCurrent == Spec => []SnapshotIsCurrent
<1>1. Init => CurrentInv BY CurrentInit
<1>2. CurrentInv /\ [Next]_vars => CurrentInv' BY CurrentStep
<1>3. CurrentInv => SnapshotIsCurrent BY CurrentShown
<1> QED BY <1>1, <1>2, <1>3, PTL DEF Spec

-----------------------------------------------------------------------------
(* What the user sees when the viewer opens: a live page, before the capture
   returns. *)

EndpointOnceStarted == \A s \in Sessions : endpoint[s] <=> viewer[s] = "Started"

OpenedOnceOpen == \A s \in Sessions : opened[s] # "nothing" <=> opens[s] # 0

(* From the moment the start-up takes the captures guard again, every page
   waiting to be written is live: those rendered before the endpoint was set
   were written first, as the guard could not be taken otherwise. *)
PagesLive ==
    \A s \in Sessions :
        viewer[s] = "Started" /\ (\A u \in Threads : cur[u] = s => pc[u] # "relock") =>
            \A t \in Threads : cur[t] = s /\ pc[t] \in AwaitsWrite => html[t].live

(* ... and so is the file, once that thread has written it. *)
FileLive ==
    \A s \in Sessions :
        /\ viewer[s] = "Started" /\ Holds(PathOf[s], s)
        /\ \/ opened[s] = "file"
           \/ \E t \in Threads : cur[t] = s /\ pc[t] = "open" /\ ok[t]
        => file[PathOf[s]].live

SomebodyPanicked == \E u \in Threads : pc[u] = "panicked"

(* Between the state change and the browser, the viewer guard is held. *)
OpensBeforeUnlock ==
    /\ \A s \in Sessions : viewer[s] # "NotStarted" =>
          \/ opens[s] # 0 \/ SomebodyPanicked
          \/ viewLock[s] \in Threads /\ pc[viewLock[s]] # "close"
    /\ \A t \in Threads : pc[t] = "close" => opens[cur[t]] # 0

ViewerInv ==
    SnapshotInv /\ EndpointOnceStarted /\ OpenedOnceOpen /\ PagesLive /\ FileLive

LEMMA OnceStep == LocksInv /\ EndpointOnceStarted /\ OpenedOnceOpen /\ [Next]_vars =>
                      EndpointOnceStarted' /\ OpenedOnceOpen'
<1> SUFFICES ASSUME LocksInv, EndpointOnceStarted, OpenedOnceOpen, [Next]_vars
             PROVE  EndpointOnceStarted' /\ OpenedOnceOpen'
    OBVIOUS
<1> DEFINE Goal == EndpointOnceStarted' /\ OpenedOnceOpen'
<1> USE DEF LocksInv, EndpointOnceStarted, OpenedOnceOpen, shared, serving, history, locals, Goto

<1>1. ASSUME NEW t \in Threads, NEW s \in Sessions, BeginCapture(t, s) PROVE Goal
      BY <1>1 DEF TypeOK, BeginCapture
<1>2. ASSUME NEW t \in Threads, LockCaptures(t) PROVE Goal
      BY <1>2 DEF TypeOK, LockCaptures
<1>3. ASSUME NEW t \in Threads, Push(t) PROVE Goal
      BY <1>3 DEF TypeOK, Push
<1>4. ASSUME NEW t \in Threads, Render(t) PROVE Goal
      BY <1>4 DEF TypeOK, Render
<1>5. ASSUME NEW t \in Threads, WriteTemp(t) PROVE Goal
      BY <1>5 DEF TypeOK, WriteTemp, WriteEnds
<1>6. ASSUME NEW t \in Threads, Rename(t) PROVE Goal
      BY <1>6 DEF TypeOK, Rename, WriteEnds
<1>7. ASSUME NEW t \in Threads, Truncate(t) PROVE Goal
      BY <1>7 DEF TypeOK, Truncate, WriteEnds
<1>8. ASSUME NEW t \in Threads, FallbackWrite(t) PROVE Goal
      BY <1>8 DEF TypeOK, FallbackWrite, WriteEnds
<1>9. ASSUME NEW t \in Threads, Report(t) PROVE Goal
      BY <1>9 DEF TypeOK, Report
<1>10. ASSUME NEW t \in Threads, AlreadyStarted(t) PROVE Goal
      BY <1>10 DEF TypeOK, AlreadyStarted
<1>11. ASSUME NEW t \in Threads, LockViewer(t) PROVE Goal
      BY <1>11 DEF TypeOK, LockViewer
<1>12. ASSUME NEW t \in Threads, StartServer(t) PROVE Goal
  <2>1. /\ cur[t] \in Sessions /\ viewer[cur[t]] = "NotStarted"
        /\ UNCHANGED <<endpoint, opens, opened>>
        BY <1>12 DEF TypeOK, StartServer, StartUpOrder
  <2>2. UNCHANGED viewer \/ viewer' = [viewer EXCEPT ![cur[t]] = "SnapshotOnly"]
        BY <1>12 DEF StartServer
  <2> QED BY <2>1, <2>2 DEF TypeOK
<1>13. ASSUME NEW t \in Threads, SetEndpoint(t) PROVE Goal
      BY <1>13 DEF TypeOK, SetEndpoint
<1>14. ASSUME NEW t \in Threads, Relock(t) PROVE Goal
      BY <1>14 DEF TypeOK, Relock
<1>15. ASSUME NEW t \in Threads, OpenBrowser(t) PROVE Goal
      BY <1>15 DEF TypeOK, OpenBrowser
<1>16. ASSUME NEW t \in Threads, CloseViewer(t) PROVE Goal
      BY <1>16 DEF TypeOK, CloseViewer
<1>17. ASSUME NEW t \in Threads, Panic(t) PROVE Goal
      BY <1>17 DEF TypeOK, Panic
<1>18. ASSUME NEW s \in Sessions, Accept(s) PROVE Goal
      BY <1>18 DEF TypeOK, Accept
<1>19. ASSUME NEW s \in Sessions, LockAndServe(s) PROVE Goal
      BY <1>19 DEF TypeOK, LockAndServe
<1>20. ASSUME NEW s \in Sessions, FinishResponse(s) PROVE Goal
      BY <1>20 DEF TypeOK, FinishResponse
<1>21. ASSUME NEW s \in Sessions, ReadTimeout(s) PROVE Goal
      BY <1>21 DEF TypeOK, ReadTimeout
<1>22. ASSUME UNCHANGED vars PROVE Goal
      BY <1>22 DEF TypeOK, vars
<1> QED
    BY <1>1, <1>2, <1>3, <1>4, <1>5, <1>6, <1>7, <1>8, <1>9, <1>10, <1>11, <1>12,
       <1>13, <1>14, <1>15, <1>16, <1>17, <1>18, <1>19, <1>20, <1>21, <1>22
    DEF Next, ThreadStep, ServerStep

(* A step that renders nothing and starts no viewer. *)
LEMMA PagesLiveKept ==
    ASSUME TypeOK, PagesLive, NEW t \in Threads, NEW to, pc' = [pc EXCEPT ![t] = to],
           pc[t] # "relock", to \in AwaitsWrite => pc[t] \in AwaitsWrite,
           \A s \in Sessions : viewer'[s] = "Started" => viewer[s] = "Started",
           UNCHANGED <<html, cur>>
    PROVE  PagesLive'
<1>1. \A u \in Threads : /\ pc'[u] \in AwaitsWrite => pc[u] \in AwaitsWrite
                         /\ pc[u] = "relock" => pc'[u] = "relock"
      BY DEF TypeOK
<1> QED BY <1>1 DEF PagesLive

LEMMA PagesLiveStep == ViewerInv /\ [Next]_vars => PagesLive'
<1> SUFFICES ASSUME ViewerInv, [Next]_vars PROVE PagesLive'
    OBVIOUS
<1> USE DEF ViewerInv, SnapshotInv, LogInv, LocksInv, PagesLive, AwaitsWrite,
        shared, serving, history, locals, Goto

<1>1. ASSUME NEW t \in Threads, NEW s \in Sessions, BeginCapture(t, s) PROVE PagesLive'
      BY <1>1 DEF TypeOK, BeginCapture
<1>2. ASSUME NEW t \in Threads, LockCaptures(t) PROVE PagesLive'
      BY <1>2 DEF TypeOK, LockCaptures
<1>3. ASSUME NEW t \in Threads, Push(t) PROVE PagesLive'
      BY <1>3 DEF TypeOK, Push
<1>4. ASSUME NEW t \in Threads, Render(t) PROVE PagesLive'
  <2>1. /\ UNCHANGED <<cur, viewer>> /\ cur[t] \in Sessions
        /\ html'[t].live = endpoint[cur[t]] /\ pc' = [pc EXCEPT ![t] = "temp"] /\ pc[t] = "render"
        /\ \A u \in Threads \ {t} : html'[u] = html[u]
        BY <1>4 DEF TypeOK, Render, RenderHtml
  <2>2. ASSUME NEW r \in Sessions, NEW u \in Threads, viewer[r] = "Started",
               \A v \in Threads : cur[v] = r => pc'[v] # "relock",
               cur[u] = r, pc'[u] \in AwaitsWrite
        PROVE  html'[u].live
    <3>1. CASE u = t
          BY <2>1, <2>2, <3>1 DEF EndpointOnceStarted
    <3>2. CASE u # t
          BY <2>1, <2>2, <3>2 DEF TypeOK
    <3> QED BY <3>1, <3>2
  <2> QED BY <2>1, <2>2
<1>5. ASSUME NEW t \in Threads, WriteTemp(t) PROVE PagesLive'
      BY <1>5, WritingMoves, PagesLiveKept
<1>6. ASSUME NEW t \in Threads, Rename(t) PROVE PagesLive'
      BY <1>6, WritingMoves, PagesLiveKept
<1>7. ASSUME NEW t \in Threads, Truncate(t) PROVE PagesLive'
      BY <1>7, WritingMoves, PagesLiveKept
<1>8. ASSUME NEW t \in Threads, FallbackWrite(t) PROVE PagesLive'
      BY <1>8, WritingMoves, PagesLiveKept
<1>9. ASSUME NEW t \in Threads, Report(t) PROVE PagesLive'
  <2>1. PICK to \in {"idle", "ensure"} : pc' = [pc EXCEPT ![t] = to]
        BY <1>9 DEF Report
  <2>2. UNCHANGED <<html, cur, viewer>> /\ pc[t] = "report"
        BY <1>9 DEF Report
  <2> QED BY <2>1, <2>2, PagesLiveKept
<1>10. ASSUME NEW t \in Threads, AlreadyStarted(t) PROVE PagesLive'
      BY <1>10 DEF TypeOK, AlreadyStarted
<1>11. ASSUME NEW t \in Threads, LockViewer(t) PROVE PagesLive'
      BY <1>11 DEF TypeOK, LockViewer
<1>12. ASSUME NEW t \in Threads, StartServer(t) PROVE PagesLive'
  <2>1. PICK to \in {"endpoint", "open"} : pc' = [pc EXCEPT ![t] = to]
        BY <1>12 DEF StartServer
  <2>2. /\ UNCHANGED <<html, cur>> /\ pc[t] = "start" /\ cur[t] \in Sessions
        /\ viewer' = viewer \/ viewer' = [viewer EXCEPT ![cur[t]] = "SnapshotOnly"]
        BY <1>12 DEF TypeOK, StartServer
  <2>3. \A r \in Sessions : viewer'[r] = "Started" => viewer[r] = "Started"
        BY <2>2 DEF TypeOK
  <2> QED BY <2>1, <2>2, <2>3, PagesLiveKept
<1>13. ASSUME NEW t \in Threads, SetEndpoint(t) PROVE PagesLive'
      BY <1>13 DEF TypeOK, SetEndpoint
<1>14. ASSUME NEW t \in Threads, Relock(t) PROVE PagesLive'
  <2>1. /\ cur[t] \in Sessions /\ UNCHANGED <<cur, html, viewer>>
        /\ pc' = [pc EXCEPT ![t] = "render"]
        /\ \A u \in Threads : cur[u] = cur[t] => pc[u] \notin AwaitsWrite
        BY <1>14, ThreadsAssumption DEF TypeOK, Relock, CapturesLockHeld, Writing
  <2>2. ASSUME NEW r \in Sessions, NEW u \in Threads, viewer[r] = "Started",
               \A v \in Threads : cur[v] = r => pc'[v] # "relock",
               cur[u] = r, pc'[u] \in AwaitsWrite
        PROVE  html[u].live
        BY <2>1, <2>2 DEF TypeOK
  <2> QED BY <2>1, <2>2
<1>15. ASSUME NEW t \in Threads, OpenBrowser(t) PROVE PagesLive'
      BY <1>15 DEF TypeOK, OpenBrowser
<1>16. ASSUME NEW t \in Threads, CloseViewer(t) PROVE PagesLive'
      BY <1>16 DEF TypeOK, CloseViewer
<1>17. ASSUME NEW t \in Threads, Panic(t) PROVE PagesLive'
      BY <1>17 DEF TypeOK, Panic
<1>18. ASSUME NEW s \in Sessions, Accept(s) PROVE PagesLive'
      BY <1>18 DEF Accept
<1>19. ASSUME NEW s \in Sessions, LockAndServe(s) PROVE PagesLive'
      BY <1>19 DEF LockAndServe
<1>20. ASSUME NEW s \in Sessions, FinishResponse(s) PROVE PagesLive'
      BY <1>20 DEF FinishResponse
<1>21. ASSUME NEW s \in Sessions, ReadTimeout(s) PROVE PagesLive'
      BY <1>21 DEF ReadTimeout
<1>22. ASSUME UNCHANGED vars PROVE PagesLive'
      BY <1>22 DEF TypeOK, vars
<1> QED
    BY <1>1, <1>2, <1>3, <1>4, <1>5, <1>6, <1>7, <1>8, <1>9, <1>10, <1>11, <1>12,
       <1>13, <1>14, <1>15, <1>16, <1>17, <1>18, <1>19, <1>20, <1>21, <1>22
    DEF Next, ThreadStep, ServerStep

(* Nothing is written: only a successful write may reach "open" with ok set. *)
LEMMA FileLiveKept ==
    ASSUME ViewerInv, NEW t \in Threads, NEW to, pc' = [pc EXCEPT ![t] = to],
           UNCHANGED <<file, cur, opened, viewer>>,
           to = "open" => ~ok'[t],
           \A u \in Threads \ {t} : ok'[u] = ok[u]
    PROVE  FileLive'
<1> USE DEF ViewerInv, SnapshotInv, LogInv, LocksInv, FileLive, Holds
<1> SUFFICES ASSUME NEW s \in Sessions, viewer[s] = "Started", Holds(PathOf[s], s),
                    \/ opened[s] = "file"
                    \/ \E u \in Threads : cur[u] = s /\ pc'[u] = "open" /\ ok'[u]
             PROVE  file[PathOf[s]].live
    OBVIOUS
<1>1. \A u \in Threads : pc'[u] = "open" /\ ok'[u] => pc[u] = "open" /\ ok[u]
      BY DEF TypeOK
<1> QED BY <1>1

(* The page that is written is live if the viewer is about to be opened. *)
LEMMA FileLiveWritten ==
    ASSUME ViewerInv, NEW t \in Threads, pc[t] \in AwaitsWrite,
           NEW to, pc' = [pc EXCEPT ![t] = to],
           to = "open" => viewLock[cur[t]] = t,
           NEW content \in {html[t], Torn},
           file' = [file EXCEPT ![PathOf[cur[t]]] = content],
           UNCHANGED <<cur, opened, viewer>>,
           \A u \in Threads \ {t} : ok'[u] = ok[u]
    PROVE  FileLive'
<1> USE DEF ViewerInv, SnapshotInv, LogInv, LocksInv
<1> SUFFICES ASSUME NEW s \in Sessions, viewer[s] = "Started", Holds(PathOf[s], s)',
                    \/ opened[s] = "file"
                    \/ \E u \in Threads : cur[u] = s /\ pc'[u] = "open" /\ ok'[u]
             PROVE  file'[PathOf[s]].live
    BY DEF FileLive, Holds
<1>1. /\ PathOf[s] \in Paths /\ PathOf[cur[t]] \in Paths /\ cur[t] \in Sessions
      /\ \A u \in Threads \ {t} : pc'[u] = pc[u]
      /\ pc'[t] = to
      BY PathsAssumption DEF TypeOK
<1>2. CASE PathOf[s] # PathOf[cur[t]]
  <2>1. file'[PathOf[s]] = file[PathOf[s]] /\ Holds(PathOf[s], s)
        BY <1>1, <1>2 DEF TypeOK, Holds
  <2>2. \A u \in Threads : cur[u] = s => u # t
        BY <1>2
  <2> QED BY <1>1, <2>1, <2>2 DEF FileLive
<1>3. CASE PathOf[s] = PathOf[cur[t]]
  <2>1. file'[PathOf[s]] = html[t] /\ cur[t] = s
        BY <1>1, <1>3 DEF TypeOK, Holds, Torn, PageIsFresh
  <2>2. ASSUME NEW u \in Threads, cur[u] = s, pc[u] = "relock" PROVE FALSE
    <3>1. viewLock[s] = u /\ opens[s] = 0 /\ u # t
          BY <2>2 DEF ViewerLockHeld, StartingUp, StartUpOrder, AwaitsWrite
    <3>2. opened[s] = "nothing"
          BY <3>1 DEF OpenedOnceOpen
    <3>3. PICK v \in Threads : cur[v] = s /\ pc'[v] = "open"
          BY <3>2
    <3>4. viewLock[s] = v
          BY <1>1, <2>1, <3>3 DEF ViewerLockHeld, StartingUp
    <3>5. pc[v] = "relock"
          BY <2>2, <3>1, <3>4
    <3> QED BY <1>1, <3>1, <3>3, <3>4, <3>5
  <2> QED BY <2>1, <2>2 DEF PagesLive
<1> QED BY <1>2, <1>3

LEMMA FileLiveStep == ViewerInv /\ [Next]_vars => FileLive'
<1> SUFFICES ASSUME ViewerInv, [Next]_vars PROVE FileLive'
    OBVIOUS
<1> USE DEF ViewerInv, SnapshotInv, LogInv, LocksInv, FileLive, Holds,
        shared, serving, history, locals, Goto

<1>1. ASSUME NEW t \in Threads, NEW s \in Sessions, BeginCapture(t, s) PROVE FileLive'
      BY <1>1 DEF TypeOK, BeginCapture
<1>2. ASSUME NEW t \in Threads, LockCaptures(t) PROVE FileLive'
      BY <1>2 DEF TypeOK, LockCaptures
<1>3. ASSUME NEW t \in Threads, Push(t) PROVE FileLive'
      BY <1>3 DEF TypeOK, Push
<1>4. ASSUME NEW t \in Threads, Render(t) PROVE FileLive'
      BY <1>4 DEF TypeOK, Render
<1>5. ASSUME NEW t \in Threads, WriteTemp(t) PROVE FileLive'
  <2>1. CASE pc[t] = "temp" /\ pc' = [pc EXCEPT ![t] = "rename"]
             /\ UNCHANGED <<shared, serving, history, locals>>
        BY <2>1, FileLiveKept
  <2>2. CASE WriteEnds(t, FALSE) /\ UNCHANGED file
    <3>1. ~ok'[t] /\ \A u \in Threads \ {t} : ok'[u] = ok[u]
          BY <2>2 DEF TypeOK, WriteEnds
    <3> QED BY <2>2, <3>1, FileLiveKept DEF WriteEnds
  <2> QED BY <1>5, <2>1, <2>2 DEF WriteTemp
<1>6. ASSUME NEW t \in Threads, Rename(t) PROVE FileLive'
  <2>1. CASE pc[t] = "rename" /\ WriteEnds(t, TRUE)
             /\ file' = [file EXCEPT ![PathOf[cur[t]]] = html[t]]
    <3> DEFINE to == IF viewLock[cur[t]] = t THEN "open" ELSE "report"
    <3>1. /\ pc[t] \in AwaitsWrite /\ pc' = [pc EXCEPT ![t] = to]
          /\ to = "open" => viewLock[cur[t]] = t
          /\ UNCHANGED <<cur, opened, viewer>>
          /\ \A u \in Threads \ {t} : ok'[u] = ok[u]
          BY <2>1 DEF TypeOK, WriteEnds, AwaitsWrite
    <3> HIDE DEF to
    <3> QED BY <2>1, <3>1, FileLiveWritten
  <2>2. CASE pc[t] = "rename" /\ pc' = [pc EXCEPT ![t] = "truncate"]
             /\ UNCHANGED <<shared, serving, history, locals>>
        BY <2>2, FileLiveKept
  <2> QED BY <1>6, <2>1, <2>2 DEF Rename
<1>7. ASSUME NEW t \in Threads, Truncate(t) PROVE FileLive'
  <2>1. CASE pc[t] = "truncate" /\ pc' = [pc EXCEPT ![t] = "fallback"]
             /\ file' = [file EXCEPT ![PathOf[cur[t]]] = Torn]
             /\ UNCHANGED <<cur, opened, viewer, ok>>
        BY <2>1, FileLiveWritten DEF AwaitsWrite
  <2>2. CASE WriteEnds(t, FALSE) /\ UNCHANGED file
    <3>1. ~ok'[t] /\ \A u \in Threads \ {t} : ok'[u] = ok[u]
          BY <2>2 DEF TypeOK, WriteEnds
    <3> QED BY <2>2, <3>1, FileLiveKept DEF WriteEnds
  <2> QED BY <1>7, <2>1, <2>2 DEF Truncate
<1>8. ASSUME NEW t \in Threads, FallbackWrite(t) PROVE FileLive'
  <2>1. PICK content \in {html[t], Torn}, result \in BOOLEAN :
            /\ pc[t] = "fallback" /\ WriteEnds(t, result)
            /\ file' = [file EXCEPT ![PathOf[cur[t]]] = content]
        BY <1>8 DEF FallbackWrite
  <2> DEFINE to == IF viewLock[cur[t]] = t THEN "open" ELSE "report"
  <2>2. /\ pc[t] \in AwaitsWrite /\ pc' = [pc EXCEPT ![t] = to]
        /\ to = "open" => viewLock[cur[t]] = t
        /\ UNCHANGED <<cur, opened, viewer>>
        /\ \A u \in Threads \ {t} : ok'[u] = ok[u]
        BY <2>1 DEF TypeOK, WriteEnds, AwaitsWrite
  <2> HIDE DEF to
  <2> QED BY <2>1, <2>2, FileLiveWritten
<1>9. ASSUME NEW t \in Threads, Report(t) PROVE FileLive'
      BY <1>9 DEF TypeOK, Report
<1>10. ASSUME NEW t \in Threads, AlreadyStarted(t) PROVE FileLive'
      BY <1>10 DEF TypeOK, AlreadyStarted
<1>11. ASSUME NEW t \in Threads, LockViewer(t) PROVE FileLive'
      BY <1>11 DEF TypeOK, LockViewer
<1>12. ASSUME NEW t \in Threads, StartServer(t) PROVE FileLive'
      BY <1>12 DEF TypeOK, StartServer
<1>13. ASSUME NEW t \in Threads, SetEndpoint(t) PROVE FileLive'
  <2>1. /\ cur[t] \in Sessions /\ UNCHANGED <<file, opened, cur, ok>>
        /\ pc' = [pc EXCEPT ![t] = "relock"] /\ pc[t] = "endpoint" /\ viewLock[cur[t]] = t
        /\ \A r \in Sessions \ {cur[t]} : viewer'[r] = viewer[r]
        BY <1>13 DEF TypeOK, SetEndpoint, ViewerLockHeld, StartingUp
  <2>2. opened[cur[t]] = "nothing"
        BY <2>1 DEF StartUpOrder, OpenedOnceOpen
  <2>3. \A u \in Threads : pc'[u] = "open" => pc[u] = "open" /\ cur[u] # cur[t]
        BY <2>1 DEF TypeOK, ViewerLockHeld, StartingUp
  <2> QED BY <2>1, <2>2, <2>3
<1>14. ASSUME NEW t \in Threads, Relock(t) PROVE FileLive'
      BY <1>14 DEF TypeOK, Relock
<1>15. ASSUME NEW t \in Threads, OpenBrowser(t) PROVE FileLive'
      BY <1>15 DEF TypeOK, OpenBrowser
<1>16. ASSUME NEW t \in Threads, CloseViewer(t) PROVE FileLive'
      BY <1>16 DEF TypeOK, CloseViewer
<1>17. ASSUME NEW t \in Threads, Panic(t) PROVE FileLive'
      BY <1>17 DEF TypeOK, Panic
<1>18. ASSUME NEW s \in Sessions, Accept(s) PROVE FileLive'
      BY <1>18 DEF TypeOK, Accept
<1>19. ASSUME NEW s \in Sessions, LockAndServe(s) PROVE FileLive'
      BY <1>19 DEF TypeOK, LockAndServe
<1>20. ASSUME NEW s \in Sessions, FinishResponse(s) PROVE FileLive'
      BY <1>20 DEF TypeOK, FinishResponse
<1>21. ASSUME NEW s \in Sessions, ReadTimeout(s) PROVE FileLive'
      BY <1>21 DEF TypeOK, ReadTimeout
<1>22. ASSUME UNCHANGED vars PROVE FileLive'
      BY <1>22 DEF TypeOK, vars
<1> QED
    BY <1>1, <1>2, <1>3, <1>4, <1>5, <1>6, <1>7, <1>8, <1>9, <1>10, <1>11, <1>12,
       <1>13, <1>14, <1>15, <1>16, <1>17, <1>18, <1>19, <1>20, <1>21, <1>22
    DEF Next, ThreadStep, ServerStep

(* Steps that neither open the browser nor touch the viewer or its guard. *)
LEMMA OpensKept ==
    ASSUME TypeOK, OpensBeforeUnlock, NEW t \in Threads, NEW to, to # "close",
           pc[t] # "panicked", pc' = [pc EXCEPT ![t] = to],
           UNCHANGED <<cur, viewer, opens, viewLock>>
    PROVE  OpensBeforeUnlock'
BY DEF TypeOK, OpensBeforeUnlock, SomebodyPanicked

(* A step of the start-up that changes the state of its own session's viewer. *)
LEMMA OpensGuarded ==
    ASSUME TypeOK, OpensBeforeUnlock, NEW t \in Threads, NEW to, to # "close",
           pc[t] # "panicked", pc' = [pc EXCEPT ![t] = to], viewLock[cur[t]] = t,
           UNCHANGED <<cur, opens, viewLock>>,
           \A r \in Sessions \ {cur[t]} : viewer'[r] = viewer[r]
    PROVE  OpensBeforeUnlock'
<1> USE DEF TypeOK, OpensBeforeUnlock, SomebodyPanicked
<1>1. pc'[t] = to /\ \A u \in Threads \ {t} : pc'[u] = pc[u]
      OBVIOUS
<1>2. ASSUME NEW r \in Sessions, viewer'[r] # "NotStarted"
      PROVE  \/ opens[r] # 0
             \/ \E u \in Threads : pc'[u] = "panicked"
             \/ viewLock[r] \in Threads /\ pc'[viewLock[r]] # "close"
  <2>1. CASE r = cur[t]
        BY <1>1, <2>1
  <2>2. CASE r # cur[t]
        BY <1>1, <1>2, <2>2
  <2> QED BY <2>1, <2>2
<1> QED BY <1>1, <1>2

LEMMA OpensStep == LocksInv /\ OpensBeforeUnlock /\ [Next]_vars => OpensBeforeUnlock'
<1> SUFFICES ASSUME LocksInv, OpensBeforeUnlock, [Next]_vars PROVE OpensBeforeUnlock'
    OBVIOUS
<1> USE DEF LocksInv, OpensBeforeUnlock, SomebodyPanicked, shared, serving, history, locals, Goto

<1>1. ASSUME NEW t \in Threads, NEW s \in Sessions, BeginCapture(t, s) PROVE OpensBeforeUnlock'
      BY <1>1 DEF TypeOK, BeginCapture
<1>2. ASSUME NEW t \in Threads, LockCaptures(t) PROVE OpensBeforeUnlock'
      BY <1>2 DEF TypeOK, LockCaptures
<1>3. ASSUME NEW t \in Threads, Push(t) PROVE OpensBeforeUnlock'
      BY <1>3 DEF TypeOK, Push
<1>4. ASSUME NEW t \in Threads, Render(t) PROVE OpensBeforeUnlock'
      BY <1>4 DEF TypeOK, Render
<1>5. ASSUME NEW t \in Threads, WriteTemp(t) PROVE OpensBeforeUnlock'
      BY <1>5, WritingMoves, OpensKept DEF AwaitsWrite
<1>6. ASSUME NEW t \in Threads, Rename(t) PROVE OpensBeforeUnlock'
      BY <1>6, WritingMoves, OpensKept DEF AwaitsWrite
<1>7. ASSUME NEW t \in Threads, Truncate(t) PROVE OpensBeforeUnlock'
      BY <1>7, WritingMoves, OpensKept DEF AwaitsWrite
<1>8. ASSUME NEW t \in Threads, FallbackWrite(t) PROVE OpensBeforeUnlock'
      BY <1>8, WritingMoves, OpensKept DEF AwaitsWrite
<1>9. ASSUME NEW t \in Threads, Report(t) PROVE OpensBeforeUnlock'
      BY <1>9 DEF TypeOK, Report
<1>10. ASSUME NEW t \in Threads, AlreadyStarted(t) PROVE OpensBeforeUnlock'
      BY <1>10 DEF TypeOK, AlreadyStarted
<1>11. ASSUME NEW t \in Threads, LockViewer(t) PROVE OpensBeforeUnlock'
      BY <1>11 DEF TypeOK, LockViewer
<1>12. ASSUME NEW t \in Threads, StartServer(t) PROVE OpensBeforeUnlock'
  <2>1. PICK to \in {"endpoint", "open"} : pc' = [pc EXCEPT ![t] = to]
        BY <1>12 DEF StartServer
  <2>2. /\ cur[t] \in Sessions /\ viewLock[cur[t]] = t /\ UNCHANGED <<cur, opens, viewLock>>
        /\ pc[t] = "start"
        /\ \A r \in Sessions \ {cur[t]} : viewer'[r] = viewer[r]
        BY <1>12 DEF TypeOK, StartServer, ViewerLockHeld, StartingUp
  <2> QED BY <2>1, <2>2, OpensGuarded
<1>13. ASSUME NEW t \in Threads, SetEndpoint(t) PROVE OpensBeforeUnlock'
  <2>1. /\ cur[t] \in Sessions /\ viewLock[cur[t]] = t /\ UNCHANGED <<cur, opens, viewLock>>
        /\ pc[t] = "endpoint" /\ pc' = [pc EXCEPT ![t] = "relock"]
        /\ \A r \in Sessions \ {cur[t]} : viewer'[r] = viewer[r]
        BY <1>13 DEF TypeOK, SetEndpoint, ViewerLockHeld, StartingUp
  <2> QED BY <2>1, OpensGuarded
<1>14. ASSUME NEW t \in Threads, Relock(t) PROVE OpensBeforeUnlock'
      BY <1>14 DEF TypeOK, Relock
<1>15. ASSUME NEW t \in Threads, OpenBrowser(t) PROVE OpensBeforeUnlock'
  <2>1. /\ cur[t] \in Sessions /\ UNCHANGED <<cur, viewer, viewLock>> /\ opens[cur[t]] = 0
        /\ pc[t] = "open" /\ pc' = [pc EXCEPT ![t] = "close"]
        /\ opens' = [opens EXCEPT ![cur[t]] = opens[cur[t]] + 1]
        BY <1>15 DEF TypeOK, OpenBrowser, StartUpOrder
  <2>2. opens'[cur[t]] = 1 /\ \A r \in Sessions \ {cur[t]} : opens'[r] = opens[r]
        BY <2>1 DEF TypeOK
  <2>3. ASSUME NEW r \in Sessions, viewer[r] # "NotStarted", opens'[r] = 0
        PROVE  \/ \E u \in Threads : pc'[u] = "panicked"
               \/ viewLock[r] \in Threads /\ pc'[viewLock[r]] # "close"
    <3>1. r # cur[t] /\ opens[r] = 0
          BY <2>2, <2>3
    <3>2. CASE \E u \in Threads : pc[u] = "panicked"
          BY <2>1, <3>2 DEF TypeOK
    <3>3. CASE viewLock[r] \in Threads /\ pc[viewLock[r]] # "close"
      <4>1. cur[viewLock[r]] = r
            BY <3>3 DEF ViewerLockHeld
      <4> QED BY <2>1, <3>1, <3>3, <4>1 DEF TypeOK
    <3> QED BY <2>3, <3>1, <3>2, <3>3
  <2>4. ASSUME NEW u \in Threads, pc'[u] = "close" PROVE opens'[cur[u]] # 0
    <3>1. CASE cur[u] = cur[t]
          BY <2>2, <3>1
    <3>2. CASE cur[u] # cur[t]
          BY <2>1, <2>2, <2>4, <3>2 DEF TypeOK
    <3> QED BY <3>1, <3>2
  <2> QED BY <2>1, <2>3, <2>4
<1>16. ASSUME NEW t \in Threads, CloseViewer(t) PROVE OpensBeforeUnlock'
      BY <1>16 DEF TypeOK, CloseViewer
<1>17. ASSUME NEW t \in Threads, Panic(t) PROVE OpensBeforeUnlock'
      BY <1>17 DEF TypeOK, Panic
<1>18. ASSUME NEW s \in Sessions, Accept(s) PROVE OpensBeforeUnlock'
      BY <1>18 DEF TypeOK, Accept
<1>19. ASSUME NEW s \in Sessions, LockAndServe(s) PROVE OpensBeforeUnlock'
      BY <1>19 DEF TypeOK, LockAndServe
<1>20. ASSUME NEW s \in Sessions, FinishResponse(s) PROVE OpensBeforeUnlock'
      BY <1>20 DEF TypeOK, FinishResponse
<1>21. ASSUME NEW s \in Sessions, ReadTimeout(s) PROVE OpensBeforeUnlock'
      BY <1>21 DEF TypeOK, ReadTimeout
<1>22. ASSUME UNCHANGED vars PROVE OpensBeforeUnlock'
      BY <1>22 DEF TypeOK, vars
<1> QED
    BY <1>1, <1>2, <1>3, <1>4, <1>5, <1>6, <1>7, <1>8, <1>9, <1>10, <1>11, <1>12,
       <1>13, <1>14, <1>15, <1>16, <1>17, <1>18, <1>19, <1>20, <1>21, <1>22
    DEF Next, ThreadStep, ServerStep

LEMMA ViewerInit == Init => ViewerInv /\ OpensBeforeUnlock
BY SnapshotInit
   DEF Init, ViewerInv, EndpointOnceStarted, OpenedOnceOpen, PagesLive, FileLive,
       OpensBeforeUnlock, AwaitsWrite, Holds, Absent

LEMMA ViewerStep == ViewerInv /\ [Next]_vars => ViewerInv'
BY SnapshotStep, OnceStep, PagesLiveStep, FileLiveStep DEF ViewerInv, SnapshotInv, LogInv

(* When the browser was sent to the snapshot and the server runs, the page in
   the file polls it: an append that rendered its page before the endpoint was
   set cannot overwrite the page the start-up rendered with it
   (ensure_viewer_started). *)
THEOREM OpenedIsLive == Spec => []OpenedSnapshotIsLive
<1>1. Init => ViewerInv BY ViewerInit
<1>2. ViewerInv /\ [Next]_vars => ViewerInv' BY ViewerStep
<1>3. ViewerInv => OpenedSnapshotIsLive
      BY DEF ViewerInv, FileLive, OpenedSnapshotIsLive
<1> QED BY <1>1, <1>2, <1>3, PTL DEF Spec

(* What the property says of a step of one thread. *)
ReturnsOpened(t) ==
    pc[t] = "ensure" /\ pc'[t] = "idle"
        => opens[cur[t]] = 1 \/ \E u \in Threads : pc[u] = "panicked"

(* The only step from "ensure" to "idle" finds the viewer guard free. *)
LEMMA OnlyAlreadyStartedReturns ==
    ASSUME TypeOK, [Next]_vars, NEW t \in Threads, pc[t] = "ensure", pc'[t] = "idle"
    PROVE  AlreadyStarted(t)
<1> USE DEF TypeOK, shared, serving, history, locals, Goto
<1>1. ASSUME NEW u \in Threads, ThreadStep(u) PROVE pc[t] = pc'[t] \/ u = t
      BY <1>1 DEF ThreadStep, LockCaptures, Push, Render, WriteTemp, Rename, Truncate,
         FallbackWrite, WriteEnds, Report, AlreadyStarted, LockViewer, StartServer,
         SetEndpoint, Relock, OpenBrowser, CloseViewer, Panic
<1>2. ThreadStep(t) => AlreadyStarted(t)
      BY DEF ThreadStep, LockCaptures, Push, Render, WriteTemp, Rename, Truncate,
         FallbackWrite, WriteEnds, Report, LockViewer, StartServer,
         SetEndpoint, Relock, OpenBrowser, CloseViewer, Panic
<1>3. ASSUME NEW u \in Threads, NEW s \in Sessions, BeginCapture(u, s) PROVE pc[t] = pc'[t]
      BY <1>3 DEF BeginCapture
<1>4. ASSUME NEW s \in Sessions, Accept(s) \/ ServerStep(s) PROVE pc[t] = pc'[t]
      BY <1>4 DEF ServerStep, Accept, LockAndServe, FinishResponse, ReadTimeout
<1>5. ASSUME UNCHANGED vars PROVE pc[t] = pc'[t]
      BY <1>5 DEF vars
<1> QED BY <1>1, <1>2, <1>3, <1>4, <1>5 DEF Next

LEMMA StepReturnsOpened ==
    LocksInv /\ OpensBeforeUnlock /\ [Next]_vars => \A t \in Threads : ReturnsOpened(t)
<1> SUFFICES ASSUME LocksInv, OpensBeforeUnlock, [Next]_vars, NEW t \in Threads,
                    pc[t] = "ensure", pc'[t] = "idle"
             PROVE  opens[cur[t]] = 1 \/ \E u \in Threads : pc[u] = "panicked"
    BY DEF ReturnsOpened
<1>1. viewLock[cur[t]] = NoThread /\ viewer[cur[t]] # "NotStarted" /\ cur[t] \in Sessions
      BY OnlyAlreadyStartedReturns DEF LocksInv, TypeOK, AlreadyStarted, ViewerLockFree
<1>2. opens[cur[t]] # 0 \/ SomebodyPanicked
      BY <1>1, ThreadsAssumption DEF OpensBeforeUnlock
<1>3. opens[cur[t]] \in Nat /\ opens[cur[t]] <= 1
      BY <1>1 DEF LocksInv, TypeOK, StartedAtMostOnce
<1> QED BY <1>2, <1>3 DEF SomebodyPanicked

(* A capture that finds the viewer started returns after open_browser was
   called, also when another thread does that, unless a thread panicked: that
   thread holds the viewer guard from before the state changes until then. *)
THEOREM ReturnsOnceOpened == Spec => ReturnsAfterOpening
<1> DEFINE Inv == LocksInv /\ OpensBeforeUnlock
<1>1. Init => Inv BY LocksInit, ViewerInit
<1>2. Inv /\ [Next]_vars => Inv' BY LocksStep, OpensStep
<1>3. Inv /\ [Next]_vars => [\A t \in Threads : ReturnsOpened(t)]_vars
      BY StepReturnsOpened
<1>4. [\A t \in Threads : ReturnsOpened(t)]_vars <=>
      [\A t \in Threads :
          pc[t] = "ensure" /\ pc'[t] = "idle"
              => opens[cur[t]] = 1 \/ \E u \in Threads : pc[u] = "panicked"]_vars
      BY DEF ReturnsOpened
<1> QED BY <1>1, <1>2, <1>3, <1>4, PTL DEF Spec, ReturnsAfterOpening

-----------------------------------------------------------------------------
(* Session implements CaptureLog, where no two sessions share a file: every step
   of a thread or a server is a step of the abstract log or a stutter. *)

BeforePush == {"idle", "panicked", "append", "push"}

(* A call that is past its push has recorded something in its session's log. *)
HasRecorded == \A t \in Threads : pc[t] \notin BeforePush => captures[cur[t]] # << >>

RefinesInv == ViewerInv /\ LastInv /\ HasRecorded

LEMMA RecordedStep == LocksInv /\ HasRecorded /\ [Next]_vars => HasRecorded'
<1> SUFFICES ASSUME LocksInv, HasRecorded, [Next]_vars PROVE HasRecorded'
    OBVIOUS
<1> USE DEF LocksInv, HasRecorded, BeforePush, shared, serving, history, locals, Goto

<1>1. ASSUME NEW t \in Threads, NEW s \in Sessions, BeginCapture(t, s) PROVE HasRecorded'
      BY <1>1 DEF TypeOK, BeginCapture
<1>2. ASSUME NEW t \in Threads, LockCaptures(t) PROVE HasRecorded'
      BY <1>2 DEF TypeOK, LockCaptures
<1>3. ASSUME NEW t \in Threads, Push(t) PROVE HasRecorded'
  <2>1. /\ UNCHANGED cur /\ pc' = [pc EXCEPT ![t] = "render"]
        /\ \A s \in Sessions \ {cur[t]} : captures'[s] = captures[s]
        BY <1>3, PushGrows DEF Push
  <2>2. Len(captures'[cur[t]]) = Len(captures[cur[t]]) + 1 /\ Len(captures[cur[t]]) \in Nat
        BY <1>3, PushGrows
  <2>3. captures'[cur[t]] # << >>
        BY <2>2
  <2> QED BY <2>1, <2>3 DEF TypeOK
<1>4. ASSUME NEW t \in Threads, Render(t) PROVE HasRecorded'
      BY <1>4 DEF TypeOK, Render
<1>5. ASSUME NEW t \in Threads, WriteTemp(t) PROVE HasRecorded'
      BY <1>5 DEF TypeOK, WriteTemp, WriteEnds
<1>6. ASSUME NEW t \in Threads, Rename(t) PROVE HasRecorded'
      BY <1>6 DEF TypeOK, Rename, WriteEnds
<1>7. ASSUME NEW t \in Threads, Truncate(t) PROVE HasRecorded'
      BY <1>7 DEF TypeOK, Truncate, WriteEnds
<1>8. ASSUME NEW t \in Threads, FallbackWrite(t) PROVE HasRecorded'
      BY <1>8 DEF TypeOK, FallbackWrite, WriteEnds
<1>9. ASSUME NEW t \in Threads, Report(t) PROVE HasRecorded'
      BY <1>9 DEF TypeOK, Report
<1>10. ASSUME NEW t \in Threads, AlreadyStarted(t) PROVE HasRecorded'
      BY <1>10 DEF TypeOK, AlreadyStarted
<1>11. ASSUME NEW t \in Threads, LockViewer(t) PROVE HasRecorded'
      BY <1>11 DEF TypeOK, LockViewer
<1>12. ASSUME NEW t \in Threads, StartServer(t) PROVE HasRecorded'
      BY <1>12 DEF TypeOK, StartServer
<1>13. ASSUME NEW t \in Threads, SetEndpoint(t) PROVE HasRecorded'
      BY <1>13 DEF TypeOK, SetEndpoint
<1>14. ASSUME NEW t \in Threads, Relock(t) PROVE HasRecorded'
      BY <1>14 DEF TypeOK, Relock
<1>15. ASSUME NEW t \in Threads, OpenBrowser(t) PROVE HasRecorded'
      BY <1>15 DEF TypeOK, OpenBrowser
<1>16. ASSUME NEW t \in Threads, CloseViewer(t) PROVE HasRecorded'
      BY <1>16 DEF TypeOK, CloseViewer
<1>17. ASSUME NEW t \in Threads, Panic(t) PROVE HasRecorded'
      BY <1>17 DEF TypeOK, Panic
<1>18. ASSUME NEW s \in Sessions, Accept(s) PROVE HasRecorded'
      BY <1>18 DEF TypeOK, Accept
<1>19. ASSUME NEW s \in Sessions, LockAndServe(s) PROVE HasRecorded'
      BY <1>19 DEF TypeOK, LockAndServe
<1>20. ASSUME NEW s \in Sessions, FinishResponse(s) PROVE HasRecorded'
      BY <1>20 DEF TypeOK, FinishResponse
<1>21. ASSUME NEW s \in Sessions, ReadTimeout(s) PROVE HasRecorded'
      BY <1>21 DEF TypeOK, ReadTimeout
<1>22. ASSUME UNCHANGED vars PROVE HasRecorded'
      BY <1>22 DEF TypeOK, vars
<1> QED
    BY <1>1, <1>2, <1>3, <1>4, <1>5, <1>6, <1>7, <1>8, <1>9, <1>10, <1>11, <1>12,
       <1>13, <1>14, <1>15, <1>16, <1>17, <1>18, <1>19, <1>20, <1>21, <1>22
    DEF Next, ThreadStep, ServerStep

LEMMA RefinesInit == Init => RefinesInv
BY ViewerInit, LastInit DEF Init, RefinesInv, HasRecorded, BeforePush

LEMMA RefinesStep == RefinesInv /\ [Next]_vars => RefinesInv'
BY ViewerStep, LastStep, RecordedStep DEF RefinesInv, LastInv, LogInv

-----------------------------------------------------------------------------
(* The refinement mapping. *)

ShownBar == [s \in Sessions |-> Shown(s)]
BrowserBar == [s \in Sessions |-> opened[s] # "nothing"]
CallBar == [t \in Threads |-> CallState(pc[t])]

LEMMA CallStates ==
    /\ \A step \in {"idle", "panicked"} : CallState(step) = "none"
    /\ \A step \in {"append", "push"} : CallState(step) = "pending"
    /\ \A step \in Steps \ BeforePush : CallState(step) = "recorded"
BY DEF CallState, Steps, BeforePush

(* A move of one thread moves its call, and nobody else's. *)
LEMMA CallMoves ==
    ASSUME TypeOK, NEW t \in Threads, NEW to \in Steps, pc' = [pc EXCEPT ![t] = to]
    PROVE  CallBar' = [CallBar EXCEPT ![t] = CallState(to)]
BY DEF TypeOK, CallBar

LEMMA CallStays ==
    ASSUME TypeOK, NEW t \in Threads, NEW to \in Steps, pc' = [pc EXCEPT ![t] = to],
           CallState(to) = CallState(pc[t])
    PROVE  CallBar' = CallBar
BY DEF TypeOK, CallBar

LEMMA ShownStays == ASSUME UNCHANGED file PROVE ShownBar' = ShownBar
BY DEF ShownBar, Shown, Holds

(* Writing the file of t's session shows its whole log, or tears it; the other
   sessions' files are other files. *)
LEMMA ShownWritten ==
    ASSUME RefinesInv, NEW t \in Threads, pc[t] \in AwaitsWrite,
           \A r, s \in Sessions : PathOf[r] = PathOf[s] => r = s,
           NEW content \in {html[t], Torn},
           file' = [file EXCEPT ![PathOf[cur[t]]] = content]
    PROVE  ShownBar' = [ShownBar EXCEPT ![cur[t]] =
                           IF content = Torn THEN << >> ELSE captures[cur[t]]]
<1> USE DEF RefinesInv, ViewerInv, SnapshotInv, LogInv, LocksInv
<1>1. /\ cur[t] \in Sessions /\ file \in [Paths -> Page \cup {Absent, Torn}]
      /\ \A s \in Sessions : PathOf[s] \in Paths
      BY PathsAssumption DEF TypeOK
<1>2. \A s \in Sessions \ {cur[t]} : file'[PathOf[s]] = file[PathOf[s]]
      BY <1>1
<1>3. \A s \in Sessions \ {cur[t]} : Shown(s)' = Shown(s)
      BY <1>2 DEF Shown, Holds
<1>4. file'[PathOf[cur[t]]] = content
      BY <1>1
<1>5. html[t].kind = "page" /\ html[t].session = cur[t] /\ html[t].captures = captures[cur[t]]
      BY DEF PageIsFresh
<1>6. ASSUME NEW s \in Sessions, s = cur[t]
      PROVE  Shown(s)' = IF content = Torn THEN << >> ELSE captures[cur[t]]
      BY <1>4, <1>5, <1>6 DEF Shown, Holds, Torn
<1> QED BY <1>1, <1>3, <1>6 DEF ShownBar

(* The abstract variables, under the mapping. *)
AbstractVars == <<captures, ShownBar, BrowserBar, CallBar, cur, made>>


(* A step that shows nothing new and leaves the call where it was. *)
LEMMA Stutters ==
    ASSUME TypeOK, NEW t \in Threads, NEW to \in Steps, pc' = [pc EXCEPT ![t] = to],
           CallState(to) = CallState(pc[t]), UNCHANGED <<captures, file, opened, cur, made>>
    PROVE  UNCHANGED AbstractVars
BY CallStays, ShownStays DEF AbstractVars, BrowserBar

LEMMA ReturnsCall ==
    ASSUME TypeOK, NEW t \in Threads, pc[t] \notin BeforePush,
           NEW to \in {"idle", "panicked"}, pc' = [pc EXCEPT ![t] = to],
           UNCHANGED <<captures, file, opened, cur, made>>
    PROVE  Log!Return(t)
<1>1. to \in Steps /\ pc[t] \in Steps /\ CallState(to) = "none" /\ CallState(pc[t]) = "recorded"
      BY CallStates DEF TypeOK, Steps
<1>2. CallBar' = [CallBar EXCEPT ![t] = "none"] /\ CallBar[t] = "recorded"
      BY <1>1, CallMoves DEF CallBar
<1> QED BY <1>2, ShownStays DEF Log!Return, CallBar, ShownBar, BrowserBar

(* A write publishes the log, or tears the snapshot where rename fails. *)
LEMMA Publishes ==
    ASSUME RefinesInv, NEW t \in Threads, pc[t] \in AwaitsWrite,
           \A r, s \in Sessions : PathOf[r] = PathOf[s] => r = s,
           NEW content \in {html[t], Torn}, content = Torn => "rename" \in Faults,
           file' = [file EXCEPT ![PathOf[cur[t]]] = content],
           NEW to \in Steps \ BeforePush, pc' = [pc EXCEPT ![t] = to],
           UNCHANGED <<captures, opened, cur, made>>
    PROVE  \E s \in Sessions : Log!Publish(s) \/ Log!Tear(s)
<1> USE DEF RefinesInv, ViewerInv, SnapshotInv, LogInv, LocksInv
<1>1. cur[t] \in Sessions /\ CallBar' = CallBar /\ BrowserBar' = BrowserBar
  <2>1. to \in Steps /\ pc[t] \in Steps \ BeforePush /\ CallState(to) = CallState(pc[t])
        BY CallStates DEF TypeOK, AwaitsWrite, BeforePush
  <2>2. CallBar' = CallBar
        BY <2>1, CallStays
  <2> QED BY <2>2 DEF TypeOK, BrowserBar
<1>2. CASE content = Torn
  <2>1. ShownBar' = [ShownBar EXCEPT ![cur[t]] = << >>]
        BY <1>2, ShownWritten
  <2>2. Log!Tear(cur[t])
        BY <1>1, <1>2, <2>1 DEF Log!Tear, CallBar, ShownBar, BrowserBar
  <2> QED BY <1>1, <2>2
<1>3. CASE content # Torn
  <2>1. ShownBar' = [ShownBar EXCEPT ![cur[t]] = captures[cur[t]]]
        BY <1>3, ShownWritten
  <2>2. Log!Publish(cur[t])
        BY <1>1, <2>1 DEF Log!Publish, CallBar, ShownBar, BrowserBar
  <2> QED BY <1>1, <2>2
<1> QED BY <1>2, <1>3


LEMMA StepRefines ==
    ASSUME \A r, s \in Sessions : PathOf[r] = PathOf[s] => r = s,
           RefinesInv, [Next]_vars
    PROVE  Log!Next \/ UNCHANGED AbstractVars
<1> DEFINE Goal == Log!Next \/ UNCHANGED AbstractVars
<1>0. LocksInv /\ TypeOK /\ LogInv
      BY DEF RefinesInv, ViewerInv, SnapshotInv, LogInv, LocksInv
<1> USE <1>0 DEF shared, serving, history, locals, Goto

<1>1. ASSUME NEW t \in Threads, NEW s \in Sessions, BeginCapture(t, s) PROVE Goal
  <2>1. CallBar' = [CallBar EXCEPT ![t] = "pending"] /\ CallBar[t] = "none"
    <3>1. pc[t] = "idle" /\ pc' = [pc EXCEPT ![t] = "append"]
          BY <1>1 DEF BeginCapture
    <3>2. CallBar' = [CallBar EXCEPT ![t] = CallState("append")]
          BY <3>1, CallMoves DEF Steps
    <3> QED BY <3>1, <3>2, CallStates DEF CallBar
  <2>2. ShownBar' = ShownBar /\ BrowserBar' = BrowserBar
        BY <1>1, ShownStays DEF BeginCapture, BrowserBar
  <2>3. Log!Invoke(t, s)
        BY <1>1, <2>1, <2>2 DEF BeginCapture, Log!Invoke, CallBar, ShownBar, BrowserBar
  <2> QED BY <2>3 DEF Log!Next
<1>2. ASSUME NEW t \in Threads, LockCaptures(t) PROVE Goal
  <2>1. /\ pc[t] = "append" /\ pc' = [pc EXCEPT ![t] = "push"]
        /\ UNCHANGED <<captures, file, opened, cur, made>>
        BY <1>2 DEF LockCaptures
  <2>2. CallState("push") = CallState("append")
        BY CallStates DEF Steps, BeforePush
  <2> QED BY <2>1, <2>2, Stutters DEF Steps
<1>3. ASSUME NEW t \in Threads, Push(t) PROVE Goal
  <2>1. CallBar' = [CallBar EXCEPT ![t] = "recorded"] /\ CallBar[t] = "pending"
    <3>1. pc[t] = "push" /\ pc' = [pc EXCEPT ![t] = "render"]
          BY <1>3 DEF Push
    <3>2. CallBar' = [CallBar EXCEPT ![t] = CallState("render")] /\ CallState("render") = "recorded"
          BY <3>1, CallMoves, CallStates DEF Steps, BeforePush
    <3>3. CallBar[t] = "pending"
          BY <3>1, CallStates DEF CallBar
    <3> QED BY <3>2, <3>3
  <2>2. ShownBar' = ShownBar /\ BrowserBar' = BrowserBar
        BY <1>3, ShownStays DEF Push, BrowserBar
  <2>3. number[t] = Len(captures[cur[t]]) + 1
        BY <1>3 DEF Push, LogInv, NumberIsNext
  <2>4. captures' = [captures EXCEPT ![cur[t]] = Append(captures[cur[t]],
            [sequence |-> Len(captures[cur[t]]) + 1, by |-> t, nth |-> made[t]])]
        BY <1>3, <2>3 DEF Push
  <2>5. Log!Record(t)
        BY <1>3, <2>1, <2>2, <2>4 DEF Push, Log!Record, CallBar, ShownBar, BrowserBar
  <2> QED BY <2>5 DEF Log!Next
<1>4. ASSUME NEW t \in Threads, Render(t) PROVE Goal
  <2>1. /\ pc[t] = "render" /\ pc' = [pc EXCEPT ![t] = "temp"]
        /\ UNCHANGED <<captures, file, opened, cur, made>>
        BY <1>4 DEF Render
  <2>2. CallState("temp") = CallState("render")
        BY CallStates DEF Steps, BeforePush
  <2> QED BY <2>1, <2>2, Stutters DEF Steps
<1>5. ASSUME NEW t \in Threads, WriteTemp(t) PROVE Goal
  <2>1. PICK to \in Steps \ BeforePush : pc' = [pc EXCEPT ![t] = to]
        BY <1>5, WritingMoves DEF Steps, BeforePush
  <2>2. pc[t] \in Steps \ BeforePush /\ UNCHANGED <<captures, file, opened, cur, made>>
        BY <1>5, WritingMoves DEF WriteTemp, WriteEnds, AwaitsWrite, Steps, BeforePush
  <2> QED BY <2>1, <2>2, CallStates, Stutters
<1>6. ASSUME NEW t \in Threads, Rename(t) PROVE Goal
  <2>1. PICK to \in Steps \ BeforePush : pc' = [pc EXCEPT ![t] = to]
        BY <1>6, WritingMoves DEF Steps, BeforePush
  <2>2. /\ UNCHANGED <<captures, opened, cur, made>>
        /\ pc[t] \in Steps \ BeforePush /\ pc[t] \in AwaitsWrite
        BY <1>6, WritingMoves DEF AwaitsWrite, Steps, BeforePush
  <2>3. CASE UNCHANGED file
        BY <2>1, <2>2, <2>3, CallStates, Stutters
  <2>4. CASE file' = [file EXCEPT ![PathOf[cur[t]]] = html[t]]
    <3>1. html[t] # Torn
          BY <2>2 DEF Torn, RefinesInv, ViewerInv, SnapshotInv, PageIsFresh
    <3>2. PICK content \in {html[t], Torn} :
              content # Torn /\ file' = [file EXCEPT ![PathOf[cur[t]]] = content]
          BY <2>4, <3>1
    <3> QED BY <2>1, <2>2, <3>2, Publishes DEF Log!Next
  <2> QED BY <1>6, <2>3, <2>4 DEF Rename
<1>7. ASSUME NEW t \in Threads, Truncate(t) PROVE Goal
  <2>1. PICK to \in Steps \ BeforePush : pc' = [pc EXCEPT ![t] = to]
        BY <1>7, WritingMoves DEF Steps, BeforePush
  <2>2. /\ UNCHANGED <<captures, opened, cur, made>>
        /\ pc[t] \in Steps \ BeforePush /\ pc[t] \in AwaitsWrite /\ "rename" \in Faults
        BY <1>7, WritingMoves
        DEF Truncate, AwaitsWrite, Steps, BeforePush, RefinesInv, LastInv, FallbackAfterRename
  <2>3. CASE UNCHANGED file
        BY <2>1, <2>2, <2>3, CallStates, Stutters
  <2>4. CASE file' = [file EXCEPT ![PathOf[cur[t]]] = Torn]
        BY <2>1, <2>2, <2>4, Publishes DEF Log!Next
  <2> QED BY <1>7, <2>3, <2>4 DEF Truncate
<1>8. ASSUME NEW t \in Threads, FallbackWrite(t) PROVE Goal
  <2>1. PICK to \in Steps \ BeforePush : pc' = [pc EXCEPT ![t] = to]
        BY <1>8, WritingMoves DEF Steps, BeforePush
  <2>2. /\ UNCHANGED <<captures, opened, cur, made>>
        /\ pc[t] \in AwaitsWrite /\ "rename" \in Faults
        BY <1>8, WritingMoves DEF FallbackWrite, RefinesInv, LastInv, FallbackAfterRename
  <2>3. PICK content \in {html[t], Torn} : file' = [file EXCEPT ![PathOf[cur[t]]] = content]
        BY <1>8 DEF FallbackWrite
  <2> QED BY <2>1, <2>2, <2>3, Publishes DEF Log!Next
<1>9. ASSUME NEW t \in Threads, Report(t) PROVE Goal
  <2>1. /\ pc[t] = "report" /\ UNCHANGED <<captures, file, opened, cur, made>>
        /\ \/ pc' = [pc EXCEPT ![t] = "idle"]
           \/ pc' = [pc EXCEPT ![t] = "ensure"]
        BY <1>9 DEF Report
  <2>2. CASE pc' = [pc EXCEPT ![t] = "idle"]
        BY <2>1, <2>2, ReturnsCall DEF BeforePush, Log!Next
  <2>3. CASE pc' = [pc EXCEPT ![t] = "ensure"]
        BY <2>1, <2>3, CallStates, Stutters DEF BeforePush, Steps
  <2> QED BY <2>1, <2>2, <2>3
<1>10. ASSUME NEW t \in Threads, AlreadyStarted(t) PROVE Goal
      BY <1>10, ReturnsCall DEF AlreadyStarted, BeforePush, Log!Next
<1>11. ASSUME NEW t \in Threads, LockViewer(t) PROVE Goal
  <2>1. /\ pc[t] = "ensure" /\ pc' = [pc EXCEPT ![t] = "start"]
        /\ UNCHANGED <<captures, file, opened, cur, made>>
        BY <1>11 DEF LockViewer
  <2>2. CallState("start") = CallState("ensure")
        BY CallStates DEF Steps, BeforePush
  <2> QED BY <2>1, <2>2, Stutters DEF Steps
<1>12. ASSUME NEW t \in Threads, StartServer(t) PROVE Goal
  <2>1. PICK to \in {"endpoint", "open"} : pc' = [pc EXCEPT ![t] = to]
        BY <1>12 DEF StartServer
  <2>2. pc[t] = "start" /\ UNCHANGED <<captures, file, opened, cur, made>>
        BY <1>12 DEF StartServer
  <2> QED BY <2>1, <2>2, CallStates, Stutters DEF BeforePush, Steps
<1>13. ASSUME NEW t \in Threads, SetEndpoint(t) PROVE Goal
  <2>1. /\ pc[t] = "endpoint" /\ pc' = [pc EXCEPT ![t] = "relock"]
        /\ UNCHANGED <<captures, file, opened, cur, made>>
        BY <1>13 DEF SetEndpoint
  <2>2. CallState("relock") = CallState("endpoint")
        BY CallStates DEF Steps, BeforePush
  <2> QED BY <2>1, <2>2, Stutters DEF Steps
<1>14. ASSUME NEW t \in Threads, Relock(t) PROVE Goal
  <2>1. /\ pc[t] = "relock" /\ pc' = [pc EXCEPT ![t] = "render"]
        /\ UNCHANGED <<captures, file, opened, cur, made>>
        BY <1>14 DEF Relock
  <2>2. CallState("render") = CallState("relock")
        BY CallStates DEF Steps, BeforePush
  <2> QED BY <2>1, <2>2, Stutters DEF Steps
<1>15. ASSUME NEW t \in Threads, OpenBrowser(t) PROVE Goal
  <2>1. /\ cur[t] \in Sessions /\ pc[t] = "open" /\ pc' = [pc EXCEPT ![t] = "close"]
        /\ UNCHANGED <<captures, file, cur, made>>
        /\ \A s \in Sessions \ {cur[t]} : opened'[s] = opened[s]
        /\ opened'[cur[t]] # "nothing"
        BY <1>15 DEF OpenBrowser, TypeOK
  <2>2. opened[cur[t]] = "nothing" /\ captures[cur[t]] # << >>
        BY <2>1
        DEF RefinesInv, ViewerInv, LocksInv, StartUpOrder, OpenedOnceOpen, HasRecorded,
            BeforePush
  <2>3. CallBar' = CallBar /\ ShownBar' = ShownBar
    <3>1. CallState("close") = CallState("open") /\ "close" \in Steps
          BY CallStates DEF BeforePush, Steps
    <3> QED BY <2>1, <3>1, CallStays, ShownStays
  <2>4. BrowserBar' = [BrowserBar EXCEPT ![cur[t]] = TRUE] /\ ~BrowserBar[cur[t]]
        BY <2>1, <2>2 DEF BrowserBar
  <2>5. PICK s \in Sessions : s = cur[t]
        BY <2>1
  <2>6. Log!OpenViewer(s)
        BY <2>1, <2>2, <2>3, <2>4, <2>5 DEF Log!OpenViewer, CallBar, ShownBar, BrowserBar
  <2> QED BY <2>6 DEF Log!Next
<1>16. ASSUME NEW t \in Threads, CloseViewer(t) PROVE Goal
      BY <1>16, ReturnsCall DEF CloseViewer, BeforePush, Log!Next
<1>17. ASSUME NEW t \in Threads, Panic(t) PROVE Goal
      BY <1>17, ReturnsCall DEF Panic, BeforePush, Log!Next
<1>18. ASSUME NEW s \in Sessions, Accept(s) PROVE Goal
      BY <1>18, ShownStays DEF Accept, AbstractVars, CallBar, BrowserBar
<1>19. ASSUME NEW s \in Sessions, LockAndServe(s) PROVE Goal
      BY <1>19, ShownStays DEF LockAndServe, AbstractVars, CallBar, BrowserBar
<1>20. ASSUME NEW s \in Sessions, FinishResponse(s) PROVE Goal
      BY <1>20, ShownStays DEF FinishResponse, AbstractVars, CallBar, BrowserBar
<1>21. ASSUME NEW s \in Sessions, ReadTimeout(s) PROVE Goal
      BY <1>21, ShownStays DEF ReadTimeout, AbstractVars, CallBar, BrowserBar
<1>22. ASSUME UNCHANGED vars PROVE Goal
      BY <1>22, ShownStays DEF vars, AbstractVars, CallBar, BrowserBar
<1> QED
    BY <1>1, <1>2, <1>3, <1>4, <1>5, <1>6, <1>7, <1>8, <1>9, <1>10, <1>11, <1>12,
       <1>13, <1>14, <1>15, <1>16, <1>17, <1>18, <1>19, <1>20, <1>21, <1>22
    DEF Next, ThreadStep, ServerStep

LEMMA LogInitially == Init => Log!Init
<1> SUFFICES ASSUME Init PROVE Log!Init
    OBVIOUS
<1>1. \A s \in Sessions : Shown(s) = << >>
      BY PathsAssumption DEF Init, Shown, Holds, Absent
<1>2. \A t \in Threads : CallState(pc[t]) = "none"
      BY CallStates DEF Init
<1> QED BY <1>1, <1>2 DEF Init, Log!Init

(* Captures are linearizable, the snapshot always shows a whole log of some
   earlier moment and only moves forward, and the browser opens once, after
   something was captured: session.rs implements CaptureLog wherever each
   session has a snapshot file to itself (as it has unless two sessions are
   created under one SPYTIAL_OUTPUT_PATH). *)
THEOREM SessionImplementsLog ==
    ASSUME \A r, s \in Sessions : PathOf[r] = PathOf[s] => r = s
    PROVE  Spec => ImplementsLog
<1>1. Init => RefinesInv BY RefinesInit
<1>2. RefinesInv /\ [Next]_vars => RefinesInv' BY RefinesStep
<1>3. Init => Log!Init BY LogInitially
<1>4. RefinesInv /\ [Next]_vars => [Log!Next]_(Log!logVars)
      BY StepRefines DEF AbstractVars, ShownBar, BrowserBar, CallBar, Log!logVars
<1> QED BY <1>1, <1>2, <1>3, <1>4, PTL DEF Spec, ImplementsLog, Log!Spec
=============================================================================
