-------------------------- MODULE SessionPageProofs --------------------------
(* To the page, the program is what ViewerPage says of it: the composition of
   session and page implements the page's own specification, for any finite
   number of threads, any sessions and files, with every fault enabled. *)
EXTENDS SessionPage, SessionProofs, FiniteSetTheorems

Begun == {"append", "push"}               \* a call that has recorded nothing yet
NotPushed == {"idle", "panicked"} \cup Begun

(* A page shows something, and nothing that was not recorded. *)
ShowsSome(p) ==
    p.kind = "page" => Len(p.captures) \in 1 .. Len(captures[p.session])

(* Where a call is past its push, a page was rendered, or a browser was asked to
   open one, there is a capture. *)
SomethingRecorded ==
    /\ \A t \in Threads : pc[t] \notin NotPushed => captures[cur[t]] # << >>
    /\ \A s \in Sessions : opened[s] # "nothing" => captures[s] # << >>
    /\ \A t \in Threads : ShowsSome(html[t])
    /\ \A p \in Paths : ShowsSome(file[p])
    /\ asked = "page" => captures[Tab] # << >>

(* A log has each call at most once, so that the calls bound its length. *)
CallsOnce ==
    /\ \A t \in Threads : /\ made[t] <= CapturesPerThread
                          /\ pc[t] \in Begun => made[t] >= 1
    /\ \A s \in Sessions : \A i \in 1 .. Len(captures[s]) :
          /\ captures[s][i].nth \in 1 .. made[captures[s][i].by]
          /\ captures[s][i].nth = made[captures[s][i].by]
                => pc[captures[s][i].by] \notin Begun
    /\ \A s \in Sessions : \A i, j \in 1 .. Len(captures[s]) :
          captures[s][i].by = captures[s][j].by /\ captures[s][i].nth = captures[s][j].nth
             => i = j

ComposedInv == TypeOK /\ SomethingRecorded /\ CallsOnce

LEMMA LogBounded ==
    ASSUME IsFiniteSet(Threads), NEW log \in Seq(Capture),
           \A i \in 1 .. Len(log) : log[i].nth \in 1 .. CapturesPerThread,
           \A i, j \in 1 .. Len(log) :
              log[i].by = log[j].by /\ log[i].nth = log[j].nth => i = j
    PROVE  Len(log) <= Cardinality(Threads) * CapturesPerThread
<1> DEFINE call == [i \in 1 .. Len(log) |-> <<log[i].by, log[i].nth>>]
           Calls == Threads \X (1 .. CapturesPerThread)
<1>1. \A i \in 1 .. Len(log) : log[i].by \in Threads
  <2>1. \A i \in 1 .. Len(log) : log[i] \in Capture
        OBVIOUS
  <2> QED BY <2>1 DEF Capture
<1>2. call \in Injection(1 .. Len(log), Calls)
  <2>1. call \in [1 .. Len(log) -> Calls]
        BY <1>1
  <2>2. ASSUME NEW i \in 1 .. Len(log), NEW j \in 1 .. Len(log), call[i] = call[j]
        PROVE  i = j
        BY <2>2
  <2> HIDE DEF call, Calls
  <2> QED BY <2>1, <2>2 DEF Injection, IsInjective
<1>3. /\ IsFiniteSet(1 .. CapturesPerThread)
      /\ Cardinality(1 .. CapturesPerThread) = CapturesPerThread
  <2>1. /\ IsFiniteSet(1 .. CapturesPerThread)
        /\ Cardinality(1 .. CapturesPerThread)
              = IF 1 > CapturesPerThread THEN 0 ELSE CapturesPerThread - 1 + 1
        BY BoundsAssumption, FS_Interval
  <2> QED BY <2>1, BoundsAssumption
<1>4. /\ IsFiniteSet(Calls)
      /\ Cardinality(Calls) = Cardinality(Threads) * CapturesPerThread
      BY <1>3, FS_Product
<1>5. Cardinality(1 .. Len(log)) = Len(log)
  <2>1. Len(log) \in Nat
        OBVIOUS
  <2>2. Cardinality(1 .. Len(log)) = IF 1 > Len(log) THEN 0 ELSE Len(log) - 1 + 1
        BY <2>1, FS_Interval
  <2> QED BY <2>1, <2>2
<1> HIDE DEF call, Calls
<1> QED BY <1>2, <1>4, <1>5, FS_Injection

-----------------------------------------------------------------------------
(* What the steps of threads and servers do to what the page can see *)

Unrecorded == UNCHANGED <<captures, opened, made, cur>>

(* No call begins, and none gets past its push. *)
Onward == \A t \in Threads : /\ pc'[t] \in Begun => pc[t] \in Begun
                             /\ pc'[t] \notin NotPushed => pc[t] \notin NotPushed

Writes(t) ==
    /\ \E content \in {html[t], Torn} : file' = [file EXCEPT ![PathOf[cur[t]]] = content]
    /\ Unrecorded /\ Onward /\ UNCHANGED html

Quiet == Unrecorded /\ Onward /\ UNCHANGED <<html, file>>

LEMMA StepKinds ==
    ASSUME TypeOK, [Next]_vars \/ AcceptPage
    PROVE  \/ Quiet
           \/ \E t \in Threads :
                 \/ \E s \in Sessions : BeginCapture(t, s)
                 \/ Push(t) \/ Render(t) \/ Writes(t) \/ OpenBrowser(t)
<1> USE DEF TypeOK, Quiet, Writes, Unrecorded, Onward, Begun, NotPushed, WriteEnds, Goto,
            shared, serving, history, locals
<1>1. ASSUME NEW t \in Threads, LockCaptures(t) PROVE Quiet
      BY <1>1 DEF LockCaptures
<1>2. ASSUME NEW t \in Threads, WriteTemp(t) PROVE Quiet
      BY <1>2 DEF WriteTemp
<1>3. ASSUME NEW t \in Threads, Rename(t) PROVE Quiet \/ Writes(t)
      BY <1>3 DEF Rename
<1>4. ASSUME NEW t \in Threads, Truncate(t) PROVE Quiet \/ Writes(t)
      BY <1>4 DEF Truncate
<1>5. ASSUME NEW t \in Threads, FallbackWrite(t) PROVE Writes(t)
      BY <1>5 DEF FallbackWrite
<1>6. ASSUME NEW t \in Threads, Report(t) PROVE Quiet
      BY <1>6 DEF Report
<1>7. ASSUME NEW t \in Threads, AlreadyStarted(t) PROVE Quiet
      BY <1>7 DEF AlreadyStarted
<1>8. ASSUME NEW t \in Threads, LockViewer(t) PROVE Quiet
      BY <1>8 DEF LockViewer
<1>9. ASSUME NEW t \in Threads, StartServer(t) PROVE Quiet
      BY <1>9 DEF StartServer
<1>10. ASSUME NEW t \in Threads, SetEndpoint(t) PROVE Quiet
      BY <1>10 DEF SetEndpoint
<1>11. ASSUME NEW t \in Threads, Relock(t) PROVE Quiet
      BY <1>11 DEF Relock
<1>12. ASSUME NEW t \in Threads, CloseViewer(t) PROVE Quiet
      BY <1>12 DEF CloseViewer
<1>13. ASSUME NEW t \in Threads, Panic(t) PROVE Quiet
      BY <1>13 DEF Panic
<1>14. ASSUME NEW s \in Sessions,
              Accept(s) \/ LockAndServe(s) \/ FinishResponse(s) \/ ReadTimeout(s)
       PROVE  Quiet
      BY <1>14 DEF Accept, LockAndServe, FinishResponse, ReadTimeout
<1>15. CASE AcceptPage
      BY <1>15 DEF AcceptPage
<1>16. CASE UNCHANGED vars
      BY <1>16 DEF vars
<1> QED
    BY <1>1, <1>2, <1>3, <1>4, <1>5, <1>6, <1>7, <1>8, <1>9, <1>10, <1>11, <1>12,
       <1>13, <1>14, <1>15, <1>16
    DEF Next, ThreadStep, ServerStep

LEMMA PushOne ==
    ASSUME TypeOK, NEW t \in Threads, Push(t)
    PROVE  /\ cur[t] \in Sessions /\ pc[t] = "push"
           /\ pc' = [pc EXCEPT ![t] = "render"]
           /\ UNCHANGED <<opened, made, cur, html, file>>
           /\ Len(captures[cur[t]]) \in Nat
           /\ Len(captures'[cur[t]]) = Len(captures[cur[t]]) + 1
           /\ captures'[cur[t]][Len(captures[cur[t]]) + 1].by = t
           /\ captures'[cur[t]][Len(captures[cur[t]]) + 1].nth = made[t]
           /\ \A i \in 1 .. Len(captures[cur[t]]) :
                 captures'[cur[t]][i] = captures[cur[t]][i]
           /\ \A s \in Sessions \ {cur[t]} : captures'[s] = captures[s]
<1> DEFINE c == [sequence |-> number[t], by |-> t, nth |-> made[t]]
           log == captures[cur[t]]
<1>1. c \in Capture /\ cur[t] \in Sessions /\ log \in Seq(Capture)
      BY DEF TypeOK, Capture
<1>2. captures' = [captures EXCEPT ![cur[t]] = Append(log, c)]
      BY <1>1 DEF Push, TypeOK
<1>3. /\ captures'[cur[t]] = Append(log, c)
      /\ \A s \in Sessions \ {cur[t]} : captures'[s] = captures[s]
      BY <1>1, <1>2 DEF TypeOK
<1>4. /\ Len(log) \in Nat /\ Len(Append(log, c)) = Len(log) + 1
      /\ Append(log, c)[Len(log) + 1] = c
      /\ \A i \in 1 .. Len(log) : Append(log, c)[i] = log[i]
      BY <1>1
<1>5. /\ pc[t] = "push" /\ pc' = [pc EXCEPT ![t] = "render"]
      /\ UNCHANGED <<opened, made, cur, html, file>>
      BY DEF Push, Goto, history, locals
<1> HIDE DEF log
<1>6. c.by = t /\ c.nth = made[t]
      OBVIOUS
<1> HIDE DEF c
<1> QED BY <1>1, <1>3, <1>4, <1>5, <1>6 DEF log

LEMMA SomeKept ==
    ASSUME NEW p, ShowsSome(p), Len(captures[p.session]) \in Nat,
           Len(captures'[p.session]) \in Nat,
           Len(captures[p.session]) <= Len(captures'[p.session])
    PROVE  ShowsSome(p)'
BY DEF ShowsSome

-----------------------------------------------------------------------------
(* The steps keep the invariant. *)

LEMMA LogsGrow ==
    ASSUME TypeOK, TypeOK', [Next]_vars \/ AcceptPage
    PROVE  \A s \in Sessions : /\ Len(captures[s]) \in Nat /\ Len(captures'[s]) \in Nat
                               /\ Len(captures[s]) <= Len(captures'[s])
<1>1. \A s \in Sessions : Len(captures[s]) \in Nat /\ Len(captures'[s]) \in Nat
      BY DEF TypeOK
<1>2. CASE captures' = captures
      BY <1>1, <1>2
<1>3. ASSUME NEW t \in Threads, Push(t)
      PROVE  \A s \in Sessions : Len(captures[s]) <= Len(captures'[s])
  <2>1. /\ Len(captures'[cur[t]]) = Len(captures[cur[t]]) + 1 /\ cur[t] \in Sessions
        /\ \A s \in Sessions \ {cur[t]} : captures'[s] = captures[s]
        BY <1>3, PushOne
  <2> QED BY <1>1, <2>1
<1>4. captures' = captures \/ \E t \in Threads : Push(t)
      BY StepKinds DEF Quiet, Writes, Unrecorded, BeginCapture, Render, OpenBrowser, shared
<1> QED BY <1>1, <1>2, <1>3, <1>4

(* What pages are in the files and in the threads' hands after a step *)
LEMMA ShownStep ==
    ASSUME TypeOK, TypeOK', SomethingRecorded, [Next]_vars \/ AcceptPage
    PROVE  /\ \A t \in Threads : ShowsSome(html[t])'
           /\ \A p \in Paths : ShowsSome(file[p])'
<1>1. \A p \in Page : ShowsSome(p) => ShowsSome(p)'
  <2> SUFFICES ASSUME NEW p \in Page, ShowsSome(p) PROVE ShowsSome(p)'
      OBVIOUS
  <2>1. p.session \in Sessions
        BY DEF Page
  <2> QED BY <2>1, LogsGrow, SomeKept
<1>2. /\ \A t \in Threads : html[t] \in Page \cup {Absent}
      /\ \A p \in Paths : file[p] \in Page \cup {Absent, Torn}
      /\ \A t \in Threads : html'[t] \in Page \cup {Absent}
      /\ \A p \in Paths : file'[p] \in Page \cup {Absent, Torn}
      BY DEF TypeOK
<1>3. /\ \A p : p \in {Absent, Torn} => p.kind # "page"
      BY DEF Absent, Torn
<1>4. ASSUME NEW p \in Page \cup {Absent, Torn}, ShowsSome(p) PROVE ShowsSome(p)'
  <2>1. CASE p \in Page
        BY <1>1, <1>4, <2>1
  <2>2. CASE p \in {Absent, Torn}
        BY <1>3, <2>2 DEF ShowsSome
  <2> QED BY <2>1, <2>2
<1>5. CASE UNCHANGED <<html, file>>
  <2>1. ASSUME NEW t \in Threads PROVE ShowsSome(html[t])'
    <3>1. ShowsSome(html[t]) /\ html'[t] = html[t] /\ html[t] \in Page \cup {Absent, Torn}
          BY <1>2, <1>5 DEF SomethingRecorded
    <3> QED BY <1>4, <3>1 DEF ShowsSome
  <2>2. ASSUME NEW p \in Paths PROVE ShowsSome(file[p])'
    <3>1. ShowsSome(file[p]) /\ file'[p] = file[p]
          BY <1>5 DEF SomethingRecorded
    <3> QED BY <1>2, <1>4, <3>1 DEF ShowsSome
  <2> QED BY <2>1, <2>2
<1>6. ASSUME NEW t \in Threads, Writes(t)
      PROVE  /\ \A u \in Threads : ShowsSome(html[u])'
             /\ \A p \in Paths : ShowsSome(file[p])'
  <2>1. PICK content \in {html[t], Torn} : file' = [file EXCEPT ![PathOf[cur[t]]] = content]
        BY <1>6 DEF Writes
  <2>2. /\ html' = html /\ \A p \in Paths : file'[p] \in {file[p], content}
        BY <1>6, <2>1 DEF Writes, TypeOK
  <2>3. ShowsSome(content) /\ content \in Page \cup {Absent, Torn}
    <3>1. Torn.kind # "page" /\ Torn \in Page \cup {Absent, Torn}
          BY <1>3
    <3>2. CASE content = Torn
          BY <3>1, <3>2 DEF ShowsSome
    <3>3. CASE content = html[t]
          BY <1>2, <3>3 DEF SomethingRecorded
    <3> QED BY <3>2, <3>3
  <2>4. ASSUME NEW u \in Threads PROVE ShowsSome(html[u])'
    <3>1. ShowsSome(html[u]) /\ html'[u] = html[u] /\ html[u] \in Page \cup {Absent, Torn}
          BY <1>2, <2>2 DEF SomethingRecorded
    <3> QED BY <1>4, <3>1 DEF ShowsSome
  <2>5. ASSUME NEW p \in Paths PROVE ShowsSome(file[p])'
    <3>1. CASE file'[p] = file[p]
      <4>1. ShowsSome(file[p])
            BY DEF SomethingRecorded
      <4> QED BY <1>2, <1>4, <3>1, <4>1 DEF ShowsSome
    <3>2. CASE file'[p] = content
          BY <1>4, <2>3, <3>2 DEF ShowsSome
    <3> QED BY <2>2, <3>1, <3>2
  <2> QED BY <2>4, <2>5
<1>7. ASSUME NEW t \in Threads, Render(t)
      PROVE  /\ \A u \in Threads : ShowsSome(html[u])'
             /\ \A p \in Paths : ShowsSome(file[p])'
  <2>1. /\ UNCHANGED <<captures, file>> /\ html' = [html EXCEPT ![t] = RenderHtml(cur[t])]
        /\ pc[t] = "render" /\ cur[t] \in Sessions
        BY <1>7 DEF Render, Goto, shared, TypeOK
  <2>2. captures[cur[t]] # << >> /\ captures[cur[t]] \in Seq(Capture)
        BY <2>1 DEF SomethingRecorded, NotPushed, Begun, TypeOK
  <2>3. Len(captures[cur[t]]) \in 1 .. Len(captures[cur[t]])
        BY <2>2
  <2>4. ASSUME NEW u \in Threads PROVE ShowsSome(html[u])'
    <3>1. CASE u = t
      <4>1. html'[u] = RenderHtml(cur[t])
            BY <2>1, <3>1 DEF TypeOK
      <4>2. html'[u].session = cur[t] /\ html'[u].captures = captures[cur[t]]
            BY <4>1 DEF RenderHtml
      <4> QED BY <2>1, <2>3, <4>2 DEF ShowsSome
    <3>2. CASE u # t
      <4>1. ShowsSome(html[u]) /\ html'[u] = html[u] /\ html[u] \in Page \cup {Absent, Torn}
            BY <1>2, <2>1, <3>2 DEF SomethingRecorded, TypeOK
      <4> QED BY <1>4, <4>1 DEF ShowsSome
    <3> QED BY <3>1, <3>2
  <2>5. ASSUME NEW p \in Paths PROVE ShowsSome(file[p])'
    <3>1. ShowsSome(file[p]) /\ file'[p] = file[p]
          BY <2>1 DEF SomethingRecorded
    <3> QED BY <1>2, <1>4, <3>1 DEF ShowsSome
  <2> QED BY <2>4, <2>5
<1>8. ASSUME NEW t \in Threads,
             (\E s \in Sessions : BeginCapture(t, s)) \/ Push(t) \/ OpenBrowser(t)
      PROVE  UNCHANGED <<html, file>>
      BY <1>8, PushOne DEF BeginCapture, OpenBrowser, shared, locals
<1> QED BY <1>5, <1>6, <1>7, <1>8, StepKinds DEF Quiet

LEMMA SomethingStep ==
    ASSUME TypeOK, TypeOK', SomethingRecorded, [Next]_vars \/ AcceptPage
    PROVE  /\ \A t \in Threads : pc'[t] \notin NotPushed => captures'[cur'[t]] # << >>
           /\ \A s \in Sessions : opened'[s] # "nothing" => captures'[s] # << >>
           /\ captures[Tab] # << >> => captures'[Tab] # << >>
<1>1. \A s \in Sessions : captures[s] # << >> => captures'[s] # << >>
  <2> SUFFICES ASSUME NEW s \in Sessions, captures[s] # << >> PROVE captures'[s] # << >>
      OBVIOUS
  <2>1. captures[s] \in Seq(Capture) /\ captures'[s] \in Seq(Capture)
        BY DEF TypeOK
  <2>2. Len(captures[s]) <= Len(captures'[s])
        BY LogsGrow
  <2> QED BY <2>1, <2>2
<1>2. \A t \in Threads : cur[t] \in Sessions /\ cur'[t] \in Sessions
      BY DEF TypeOK
<1>3. CASE Unrecorded /\ Onward
      BY <1>2, <1>3 DEF Unrecorded, Onward, SomethingRecorded
<1>4. ASSUME NEW t \in Threads, NEW s \in Sessions, BeginCapture(t, s)
      PROVE  /\ UNCHANGED opened
             /\ \A u \in Threads : pc'[u] \notin NotPushed =>
                   pc[u] \notin NotPushed /\ cur'[u] = cur[u]
      BY <1>4 DEF BeginCapture, NotPushed, Begun, Goto, history, TypeOK
<1>5. ASSUME NEW t \in Threads, Push(t)
      PROVE  /\ UNCHANGED opened
             /\ \A u \in Threads : pc'[u] \notin NotPushed =>
                   /\ u = t \/ pc[u] \notin NotPushed
                   /\ cur'[u] = cur[u]
             /\ captures'[cur[t]] # << >>
  <2>1. /\ UNCHANGED <<opened, cur>> /\ pc' = [pc EXCEPT ![t] = "render"]
        /\ Len(captures[cur[t]]) \in Nat
        /\ Len(captures'[cur[t]]) = Len(captures[cur[t]]) + 1
        BY <1>5, PushOne
  <2>2. captures'[cur[t]] # << >>
        BY <2>1
  <2> QED BY <2>1, <2>2 DEF TypeOK
<1>6. ASSUME NEW t \in Threads, Render(t) PROVE Unrecorded /\ Onward
      BY <1>6 DEF Render, Unrecorded, Onward, Begun, NotPushed, Goto, shared, history, TypeOK
<1>7. ASSUME NEW t \in Threads, OpenBrowser(t)
      PROVE  /\ UNCHANGED <<captures, cur>> /\ pc[t] \notin NotPushed
             /\ \A u \in Threads : pc'[u] \notin NotPushed => pc[u] \notin NotPushed
             /\ \A s \in Sessions \ {cur[t]} : opened'[s] = opened[s]
      BY <1>7 DEF OpenBrowser, Goto, Begun, NotPushed, shared, locals, TypeOK
<1>8. captures[Tab] # << >> => captures'[Tab] # << >>
      BY <1>1, SessionPageAssumption
<1>9. CASE \E t \in Threads : \E s \in Sessions : BeginCapture(t, s)
      BY <1>1, <1>2, <1>4, <1>8, <1>9 DEF SomethingRecorded
<1>10. CASE \E t \in Threads : Push(t)
  <2>1. PICK t \in Threads : Push(t)
        BY <1>10
  <2> QED BY <1>1, <1>2, <1>5, <1>8, <2>1 DEF SomethingRecorded
<1>11. CASE \E t \in Threads : OpenBrowser(t)
  <2>1. PICK t \in Threads : OpenBrowser(t)
        BY <1>11
  <2> QED BY <1>2, <1>7, <1>8, <2>1 DEF SomethingRecorded
<1> QED BY <1>3, <1>6, <1>9, <1>10, <1>11, StepKinds DEF Quiet, Writes

(* No two captures of a log are of one call: the one a thread is about to push
   is not there yet. *)
LEMMA CallsOnceStep ==
    ASSUME TypeOK, TypeOK', CallsOnce, [Next]_vars \/ AcceptPage
    PROVE  CallsOnce'
<1>1. \A s \in Sessions : \A i \in 1 .. Len(captures[s]) : captures[s][i].by \in Threads
  <2>1. \A s \in Sessions : \A i \in 1 .. Len(captures[s]) : captures[s][i] \in Capture
        BY DEF TypeOK
  <2> QED BY <2>1 DEF Capture
<1>2. CASE Unrecorded /\ Onward
      BY <1>1, <1>2 DEF Unrecorded, Onward, CallsOnce
<1>3. ASSUME NEW t \in Threads, NEW r \in Sessions, BeginCapture(t, r) PROVE CallsOnce'
  <2>1. /\ UNCHANGED captures /\ made[t] \in Nat /\ made'[t] = made[t] + 1
        /\ made[t] < CapturesPerThread
        /\ \A u \in Threads \ {t} : made'[u] = made[u] /\ pc'[u] = pc[u]
        BY <1>3 DEF BeginCapture, Goto, shared, TypeOK
  <2>2. ASSUME NEW u \in Threads
        PROVE  made'[u] <= CapturesPerThread /\ (pc'[u] \in Begun => made'[u] >= 1)
    <3>1. CASE u = t
          BY <2>1, <3>1, BoundsAssumption
    <3>2. CASE u # t
          BY <2>1, <3>2 DEF CallsOnce
    <3> QED BY <3>1, <3>2
  <2>3. ASSUME NEW s \in Sessions, NEW i \in 1 .. Len(captures[s])
        PROVE  /\ captures[s][i].nth \in 1 .. made'[captures[s][i].by]
               /\ captures[s][i].nth = made'[captures[s][i].by]
                     => pc'[captures[s][i].by] \notin Begun
    <3>1. captures[s][i].nth \in 1 .. made[captures[s][i].by]
          BY DEF CallsOnce
    <3>2. CASE captures[s][i].by = t
          BY <2>1, <3>1, <3>2
    <3>3. CASE captures[s][i].by # t
          BY <1>1, <2>1, <3>3 DEF CallsOnce
    <3> QED BY <3>2, <3>3
  <2> QED BY <2>1, <2>2, <2>3 DEF CallsOnce
<1>4. ASSUME NEW t \in Threads, Push(t) PROVE CallsOnce'
  <2> DEFINE n == Len(captures[cur[t]]) + 1
  <2>1. /\ cur[t] \in Sessions /\ pc[t] = "push" /\ pc' = [pc EXCEPT ![t] = "render"]
        /\ made' = made /\ n \in Nat /\ Len(captures'[cur[t]]) = n
        /\ captures'[cur[t]][n].by = t /\ captures'[cur[t]][n].nth = made[t]
        /\ \A i \in 1 .. Len(captures'[cur[t]]) :
              \/ i = n
              \/ i \in 1 .. Len(captures[cur[t]])
                    /\ captures'[cur[t]][i] = captures[cur[t]][i]
        /\ \A s \in Sessions \ {cur[t]} : captures'[s] = captures[s]
        BY <1>4, PushOne
  <2> HIDE DEF n
  <2>2. /\ \A u \in Threads : pc'[u] \in Begun => pc[u] \in Begun
        /\ pc'[t] \notin Begun /\ pc[t] \in Begun /\ made[t] \in Nat /\ made[t] >= 1
        BY <2>1 DEF TypeOK, Begun, CallsOnce
  <2>3. ASSUME NEW s \in Sessions, NEW i \in 1 .. Len(captures'[s])
        PROVE  /\ captures'[s][i].nth \in 1 .. made[captures'[s][i].by]
               /\ captures'[s][i].nth = made[captures'[s][i].by]
                     => pc'[captures'[s][i].by] \notin Begun
    <3>1. CASE s = cur[t] /\ i = n
          BY <2>1, <2>2, <3>1
    <3>2. CASE ~(s = cur[t] /\ i = n)
      <4>1. i \in 1 .. Len(captures[s]) /\ captures'[s][i] = captures[s][i]
            BY <2>1, <3>2
      <4> QED BY <1>1, <2>2, <4>1 DEF CallsOnce
    <3> QED BY <3>1, <3>2
  <2>4. ASSUME NEW i \in 1 .. Len(captures[cur[t]])
        PROVE  ~(captures[cur[t]][i].by = t /\ captures[cur[t]][i].nth = made[t])
        BY <2>1, <2>2 DEF CallsOnce
  <2>5. ASSUME NEW s \in Sessions,
               NEW i \in 1 .. Len(captures'[s]), NEW j \in 1 .. Len(captures'[s]),
               captures'[s][i].by = captures'[s][j].by,
               captures'[s][i].nth = captures'[s][j].nth
        PROVE  i = j
    <3>1. CASE s # cur[t]
          BY <2>1, <2>5, <3>1 DEF CallsOnce
    <3>2. CASE s = cur[t]
      <4>1. CASE i = n \/ j = n
            BY <2>1, <2>4, <2>5, <3>2, <4>1
      <4>2. CASE i # n /\ j # n
            BY <2>1, <2>5, <3>2, <4>2 DEF CallsOnce
      <4> QED BY <4>1, <4>2
    <3> QED BY <3>1, <3>2
  <2>6. \A u \in Threads : made'[u] <= CapturesPerThread /\ (pc'[u] \in Begun => made'[u] >= 1)
        BY <2>1, <2>2 DEF CallsOnce
  <2> QED BY <2>1, <2>3, <2>5, <2>6 DEF CallsOnce
<1>5. ASSUME NEW t \in Threads, Render(t) \/ OpenBrowser(t) PROVE CallsOnce'
  <2>1. /\ UNCHANGED <<captures, made>>
        /\ \A u \in Threads : pc'[u] \in Begun => pc[u] \in Begun
    <3>1. UNCHANGED <<captures, made>>
          BY <1>5 DEF Render, OpenBrowser, shared, locals
    <3>2. pc' \in {[pc EXCEPT ![t] = "temp"], [pc EXCEPT ![t] = "close"]}
          BY <1>5 DEF Render, OpenBrowser, Goto
    <3> QED BY <3>1, <3>2 DEF Begun, TypeOK
  <2> QED BY <1>1, <2>1 DEF CallsOnce
<1> QED BY <1>2, <1>3, <1>4, <1>5, StepKinds DEF Quiet, Writes

-----------------------------------------------------------------------------
(* The composition *)

LEMMA ComposedInit == InitPage => ComposedInv
<1> SUFFICES ASSUME InitPage PROVE ComposedInv
    OBVIOUS
<1>1. TypeOK
      BY TypeInit DEF InitPage
<1>2. SomethingRecorded
      BY DEF InitPage, Init, SomethingRecorded, ShowsSome, NotPushed, Begun, Absent
<1>3. CallsOnce
      BY BoundsAssumption DEF InitPage, Init, CallsOnce, Begun
<1> QED BY <1>1, <1>2, <1>3 DEF ComposedInv

(* Every step of the composition is one of Session's, the acceptance of a
   connection from the page, or none. *)
LEMMA SessionStep ==
    ASSUME [NextPage]_allVars
    PROVE  [Next]_vars \/ AcceptPage
<1>1. ASSUME NEW t \in Threads, Begins(t) \/ ThreadRuns(t) PROVE Next
      BY <1>1 DEF Begins, ThreadRuns, Running, Next
<1>2. ASSUME NEW s \in Sessions, AcceptOther(s) \/ Serve(s) \/ ServerRuns(s) PROVE Next
      BY <1>2 DEF AcceptOther, Serve, ServerRuns, Running, ServerStep, Next
<1>3. CASE Exit \/ OpenFile \/ Script \/ Done \/ UNCHANGED allVars
      BY <1>3 DEF Exit, OpenFile, Script, InPage, Done, allVars
<1>4. ASSUME NEW i \in 1 .. Len(inflight), PollFails(i) PROVE UNCHANGED vars
      BY <1>4 DEF PollFails, InPage
<1> QED BY <1>1, <1>2, <1>3, <1>4 DEF NextPage

LEMMA AskedStep ==
    ASSUME SomethingRecorded, [NextPage]_allVars, asked' = "page"
    PROVE  captures[Tab] # << >>
<1>1. CASE asked = "page"
      BY <1>1 DEF SomethingRecorded
<1>2. CASE AcceptPage
      BY <1>2, SessionPageAssumption DEF AcceptPage, SomethingRecorded
<1>3. ASSUME NEW t \in Threads, Begins(t) \/ ThreadRuns(t) PROVE UNCHANGED asked
      BY <1>3 DEF Begins, ThreadRuns
<1>4. ASSUME NEW s \in Sessions, AcceptOther(s) \/ Serve(s) \/ ServerRuns(s)
      PROVE  asked' \in {asked, "nobody"}
      BY <1>4 DEF AcceptOther, Serve, ServerRuns
<1>5. CASE Exit \/ OpenFile \/ Script \/ Done \/ UNCHANGED allVars
      BY <1>1, <1>5 DEF Exit, OpenFile, Script, InPage, Done, allVars
<1>6. ASSUME NEW i \in 1 .. Len(inflight), PollFails(i) PROVE UNCHANGED asked
      BY <1>6 DEF PollFails, InPage
<1> QED BY <1>1, <1>2, <1>3, <1>4, <1>5, <1>6 DEF NextPage

LEMMA ComposedStep == ComposedInv /\ [NextPage]_allVars => ComposedInv'
<1> SUFFICES ASSUME ComposedInv, [NextPage]_allVars PROVE ComposedInv'
    OBVIOUS
<1>1. /\ [Next]_vars \/ AcceptPage
      /\ TypeOK /\ SomethingRecorded /\ CallsOnce
      BY SessionStep DEF ComposedInv
<1>2. TypeOK'
  <2>1. CASE [Next]_vars
        BY <1>1, <2>1, TypeStep
  <2>2. CASE AcceptPage
        BY <1>1, <2>2 DEF AcceptPage, TypeOK, RequestKinds, shared, history, locals
  <2> QED BY <1>1, <2>1, <2>2
<1>3. SomethingRecorded'
      BY <1>1, <1>2, ShownStep, SomethingStep, AskedStep DEF SomethingRecorded
<1>4. CallsOnce'
      BY <1>1, <1>2, CallsOnceStep
<1> QED BY <1>2, <1>3, <1>4 DEF ComposedInv

-----------------------------------------------------------------------------
(* What the page sees of the steps of the program *)

LogLength == Len(captures[Tab])

LEMMA LogGrowth ==
    ASSUME IsFiniteSet(Threads), ComposedInv, ComposedInv', [Next]_vars \/ AcceptPage
    PROVE  \/ LogLength' = LogLength
           \/ LogLength' = LogLength + 1 /\ LogLength < Cardinality(Threads) * CapturesPerThread
<1>1. TypeOK /\ TypeOK' /\ CallsOnce'
      BY DEF ComposedInv
<1>2. CASE UNCHANGED captures
      BY <1>2 DEF LogLength
<1>3. ASSUME NEW t \in Threads, Push(t), cur[t] = Tab
      PROVE  LogLength' = LogLength + 1 /\ LogLength < Cardinality(Threads) * CapturesPerThread
  <2>1. LogLength \in Nat /\ LogLength' = LogLength + 1
        BY <1>1, <1>3, PushOne DEF LogLength
  <2>2. PICK log \in Seq(Capture) : log = captures'[Tab]
        BY <1>1, SessionPageAssumption DEF TypeOK
  <2>3. \A i \in 1 .. Len(log) : log[i].nth \in 1 .. CapturesPerThread
    <3> SUFFICES ASSUME NEW i \in 1 .. Len(log) PROVE log[i].nth \in 1 .. CapturesPerThread
        OBVIOUS
    <3>1. log[i] \in Capture /\ log[i].by \in Threads
      <4>1. log[i] \in Capture
            OBVIOUS
      <4> QED BY <4>1 DEF Capture
    <3>2. log[i].nth \in 1 .. made'[log[i].by]
          BY <1>1, <2>2, SessionPageAssumption DEF CallsOnce
    <3>3. made'[log[i].by] <= CapturesPerThread /\ made'[log[i].by] \in Nat
          BY <1>1, <3>1 DEF CallsOnce, TypeOK
    <3> QED BY <3>2, <3>3, BoundsAssumption
  <2>4. \A i, j \in 1 .. Len(log) :
           log[i].by = log[j].by /\ log[i].nth = log[j].nth => i = j
        BY <1>1, <2>2, SessionPageAssumption DEF CallsOnce
  <2>5. Len(log) <= Cardinality(Threads) * CapturesPerThread
        BY <2>3, <2>4, LogBounded
  <2>6. Cardinality(Threads) * CapturesPerThread \in Nat
        BY BoundsAssumption, FS_CardinalityType
  <2>7. Len(log) = LogLength'
        BY <2>2 DEF LogLength
  <2> QED BY <2>1, <2>5, <2>6, <2>7
<1>4. ASSUME NEW t \in Threads, Push(t), cur[t] # Tab PROVE LogLength' = LogLength
      BY <1>1, <1>4, PushOne, SessionPageAssumption DEF LogLength
<1>5. UNCHANGED captures \/ \E t \in Threads : Push(t)
      BY <1>1, StepKinds DEF Quiet, Writes, Unrecorded, BeginCapture, Render, OpenBrowser, shared
<1> QED BY <1>2, <1>3, <1>4, <1>5

(* A step of the program that the browser has no part in *)
LEMMA ProgramStep ==
    ASSUME IsFiniteSet(Threads), ComposedInv, ComposedInv', Next \/ AcceptPage,
           alive, UNCHANGED <<alive, script, inflight>>
    PROVE  [P!Next]_P!vars
<1>1. CASE LogLength' = LogLength
      BY <1>1 DEF LogLength, P!vars, P!graph, script, graph
<1>2. CASE LogLength' = LogLength + 1 /\ LogLength < Cardinality(Threads) * CapturesPerThread
  <2>1. P!Capture
        BY <1>2 DEF LogLength, P!Capture, P!graph, script, graph
  <2> QED BY <2>1 DEF P!Next, P!Program
<1> QED BY <1>1, <1>2, LogGrowth

LEMMA ParseStep ==
    ASSUME NEW list, NEW isLive \in BOOLEAN, Parse(list, isLive),
           UNCHANGED captures, Len(list) \in 1 .. LogLength
    PROVE  P!Next
<1>1. P!Open
      BY DEF Parse, P!Open, P!graph, graph, LogLength
<1> QED BY <1>1 DEF P!Next, P!Script

LEMMA ServeStep ==
    ASSUME IsFiniteSet(Threads), ComposedInv, ComposedInv', NEW s \in Sessions, Serve(s)
    PROVE  [P!Next]_P!vars
<1>1. /\ alive /\ LockAndServe(s) /\ UNCHANGED captures
      /\ served'[s] = captures[s] /\ TypeOK
      BY DEF Serve, LockAndServe, ComposedInv, TypeOK
<1>2. Next
      BY <1>1 DEF Next, ServerStep
<1>3. CASE UNCHANGED <<alive, script, inflight>>
      BY <1>1, <1>2, <1>3, ProgramStep
<1>4. CASE s = Tab /\ asked = "page" /\ Parse(served'[s], endpoint[s])
  <2>1. captures[Tab] # << >> /\ captures[Tab] \in Seq(Capture) /\ endpoint[Tab] \in BOOLEAN
        BY <1>1, <1>4, SessionPageAssumption DEF ComposedInv, SomethingRecorded, TypeOK
  <2>2. Len(served'[s]) \in 1 .. LogLength
        BY <1>1, <1>4, <2>1 DEF LogLength
  <2> QED BY <1>1, <1>4, <2>1, <2>2, ParseStep
<1>5. CASE s = Tab /\ UNCHANGED <<alive, script>>
           /\ \E i \in 1 .. Len(inflight) :
                 Unanswered(i) /\ inflight' = [inflight EXCEPT ![i] = Len(served'[s])]
  <2>1. P!Answer
        BY <1>1, <1>5 DEF P!Answer, Unanswered, P!graph, script, graph
  <2> QED BY <2>1 DEF P!Next, P!Program
<1> QED BY <1>3, <1>4, <1>5 DEF Serve

LEMMA FileStep ==
    ASSUME ComposedInv, OpenFile
    PROVE  P!Next
<1> DEFINE p == file[PathOf[Tab]]
<1>1. Parse(p.captures, p.live) /\ UNCHANGED captures /\ p.kind = "page" /\ p.session = Tab
      BY DEF OpenFile, Holds, vars, shared
<1>2. PathOf[Tab] \in Paths
      BY PathsAssumption, SessionPageAssumption
<1>3. p \in Page
  <2>1. p \in Page \cup {Absent, Torn}
        BY <1>2 DEF ComposedInv, TypeOK
  <2> QED BY <1>1, <2>1 DEF Absent, Torn
<1>4. ShowsSome(p)
      BY <1>2 DEF ComposedInv, SomethingRecorded
<1>5. Len(p.captures) \in 1 .. LogLength /\ p.live \in BOOLEAN
      BY <1>1, <1>3, <1>4 DEF ShowsSome, LogLength, Page
<1> HIDE DEF p
<1> QED BY <1>1, <1>5, ParseStep

(* What the browser does is what the page's own specification says. *)
LEMMA ScriptStep ==
    ASSUME Script \/ \E i \in 1 .. Len(inflight) : PollFails(i)
    PROVE  P!Next
<1>1. ASSUME NEW i \in 1 .. Len(inflight), PollFails(i) PROVE P!Next
      BY <1>1 DEF PollFails, InPage, P!Next, P!Script
<1>2. CASE Script
      BY <1>2 DEF Script, InPage, DrawingSettles, UserClicks, Delivers, P!Next, P!Script
<1> QED BY <1>1, <1>2

LEMMA PageStep ==
    ASSUME IsFiniteSet(Threads), ComposedInv, ComposedInv', [NextPage]_allVars
    PROVE  [P!Next]_P!vars
<1>1. ASSUME NEW t \in Threads, Begins(t) \/ ThreadRuns(t) PROVE [P!Next]_P!vars
  <2>1. Next /\ alive /\ UNCHANGED <<alive, script, inflight>>
        BY <1>1 DEF Begins, ThreadRuns, Running, Next
  <2> QED BY <2>1, ProgramStep
<1>2. ASSUME NEW s \in Sessions, AcceptOther(s) \/ ServerRuns(s) PROVE [P!Next]_P!vars
  <2>1. Next /\ alive /\ UNCHANGED <<alive, script, inflight>>
        BY <1>2 DEF AcceptOther, ServerRuns, Running, ServerStep, Next
  <2> QED BY <2>1, ProgramStep
<1>3. CASE AcceptPage
  <2>1. alive /\ UNCHANGED <<alive, script, inflight>>
        BY <1>3 DEF AcceptPage
  <2> QED BY <1>3, <2>1, ProgramStep
<1>4. CASE Exit
  <2>1. P!Exit
        BY <1>4 DEF Exit, P!Exit, vars, shared, P!graph, script, graph
  <2> QED BY <2>1 DEF P!Next, P!Program
<1>5. CASE Done \/ UNCHANGED allVars
      BY <1>5 DEF Done, allVars, vars, shared, script, graph, P!vars, P!graph
<1> QED
    BY <1>1, <1>2, <1>3, <1>4, <1>5, ServeStep, FileStep, ScriptStep DEF NextPage

(* To the page, the program is a log that grows by one, answers polls in their
   order, hands out first pages that show something, and may exit: ViewerPage's
   specification, whatever threads, locks and failures do. *)
THEOREM ProgramIsThePages ==
    ASSUME IsFiniteSet(Threads)
    PROVE  SpecPage => ImplementsPage
<1>1. InitPage => P!Init
      BY SessionPageAssumption DEF InitPage, Init, P!Init
<1>2. ComposedInv /\ ComposedInv' /\ [NextPage]_allVars => [P!Next]_P!vars
      BY PageStep
<1> QED BY <1>1, <1>2, ComposedInit, ComposedStep, PTL DEF SpecPage, ImplementsPage, P!Spec

-----------------------------------------------------------------------------
(* So the page's theorems hold of the composition. *)

Proved == INSTANCE PageProofs WITH
    MaxCaptures <- Cardinality(Threads) * CapturesPerThread,
    log <- Len(captures[Tab]),
    captures <- loaded

(* P and Proved are instances of one module. *)
LEMMA SameInit == P!Init => Proved!Init
BY DEF P!Init, Proved!Init

LEMMA SameStep == [P!Next]_P!vars => [Proved!Next]_Proved!vars
<1>1. P!Program => Proved!Program
      BY DEF P!Program, P!Capture, P!Answer, P!Exit,
             Proved!Program, Proved!Capture, Proved!Answer, Proved!Exit,
             P!graph, Proved!graph
<1>2. /\ P!Open => Proved!Open
      /\ P!Poll => Proved!Poll
      BY DEF P!Open, P!Poll, P!graph, Proved!Open, Proved!Poll, Proved!graph
<1>3. ASSUME NEW n, P!SelectCapture(n) PROVE Proved!SelectCapture(n)
      BY <1>3 DEF P!SelectCapture, P!QueueGraphRender, P!RenderGraph,
                  Proved!SelectCapture, Proved!QueueGraphRender, Proved!RenderGraph
<1>4. P!Load => Proved!Load
      BY <1>3 DEF P!Load, Proved!Load
<1>5. ASSUME NEW n \in 1 .. loaded, P!Click(n) PROVE Proved!Click(n)
      BY <1>3, <1>5 DEF P!Click, Proved!Click
<1>6. ASSUME NEW i \in 1 .. Len(inflight), P!Arrives(i) PROVE Proved!Arrives(i)
      BY <1>6 DEF P!Arrives, P!RemoveAt, Proved!Arrives, Proved!RemoveAt
<1>7. ASSUME NEW i \in 1 .. Len(inflight), P!Deliver(i) PROVE Proved!Deliver(i)
      BY <1>3, <1>6, <1>7 DEF P!Deliver, P!SelectNothing, P!graph,
                              Proved!Deliver, Proved!SelectNothing, Proved!graph
<1>8. ASSUME NEW i \in 1 .. Len(inflight), P!PollFails(i) PROVE Proved!PollFails(i)
      BY <1>6, <1>8 DEF P!PollFails, P!SelectNothing, P!graph,
                        Proved!PollFails, Proved!SelectNothing, Proved!graph
<1>9. UNCHANGED P!vars => UNCHANGED Proved!vars
      BY DEF P!vars, Proved!vars, P!graph, Proved!graph
<1>10. P!NothingCaptured => Proved!NothingCaptured
      BY <1>9 DEF P!NothingCaptured, Proved!NothingCaptured
<1>11. /\ P!RenderSettles => Proved!RenderSettles
       /\ P!Reset => Proved!Reset
       /\ P!ResetSettles => Proved!ResetSettles
      BY DEF P!RenderSettles, P!RenderShows, P!RenderFails, P!LoopGoesOn, P!RenderGraph,
             P!Reset, P!ResetSettles, Proved!RenderSettles, Proved!RenderShows,
             Proved!RenderFails, Proved!LoopGoesOn, Proved!RenderGraph,
             Proved!Reset, Proved!ResetSettles
<1> QED
    BY <1>1, <1>2, <1>4, <1>5, <1>7, <1>8, <1>9, <1>10, <1>11
    DEF P!Next, P!Script, Proved!Next, Proved!Script

(* In the page of a running program, whatever its threads, locks and failures
   do: when no render is in progress the page presents the selection, its graph
   or its failure, a page that follows has the latest capture selected, and a
   response never moves a selection the user made. *)
THEOREM PageAgreesWithItself ==
    ASSUME IsFiniteSet(Threads)
    PROVE  SpecPage => /\ [](P!GraphSettlesOnSelection /\ P!FollowingSelectsLatest)
                       /\ P!ResponseKeepsUserSelection
<1>1. /\ Cardinality(Threads) * CapturesPerThread \in Nat /\ MaxInFlight \in Nat
      /\ HasToolbar \in BOOLEAN
      BY FS_CardinalityType, BoundsAssumption, SessionPageAssumption
<1>2. /\ Proved!Spec => []Proved!GraphSettlesOnSelection
      /\ Proved!Spec => []Proved!FollowingSelectsLatest
      /\ Proved!Spec => Proved!ResponseKeepsUserSelection
      BY <1>1, Proved!GraphSettles, Proved!FollowsLatest, Proved!UserSelectionKept
<1>3. /\ Proved!GraphSettlesOnSelection => P!GraphSettlesOnSelection
      /\ Proved!FollowingSelectsLatest => P!FollowingSelectsLatest
      BY DEF Proved!GraphSettlesOnSelection, Proved!FollowingSelectsLatest,
             P!GraphSettlesOnSelection, P!FollowingSelectsLatest,
             Proved!OnDisplay, P!OnDisplay
<1>4. [inflight' # inflight /\ ~following => selected' = selected]_Proved!vars
      => [inflight' # inflight /\ ~following => selected' = selected]_P!vars
      BY DEF Proved!vars, P!vars, Proved!graph, P!graph
<1> QED
    BY <1>2, <1>3, <1>4, SameInit, SameStep, ProgramIsThePages, PTL
    DEF ImplementsPage, P!Spec, Proved!Spec,
        P!ResponseKeepsUserSelection, Proved!ResponseKeepsUserSelection
=============================================================================
