--------------------------- MODULE ProgramProofs ---------------------------
(* What Session promises holds in every program, whatever its values' Debug and
   Serialize call, and whoever waits for a lock waits for somebody who can go
   on, unless Debug calls dbg! itself.  For any number of threads, sessions,
   files and calls, with every fault enabled. *)
EXTENDS Program, SessionProofs, SequenceTheorems

Ats == {"eprint", "format", "export", "append", "alone", "write", "tell"}

CallerTyped ==
    /\ errLock \in Threads \cup {NoThread}
    /\ stack \in [Threads -> Seq(Call)]

(* Formatting holds the stderr lock, and nothing else does. *)
StderrHeld ==
    \A t \in Threads :
        errLock = t <=> \E i \in 1 .. Len(stack[t]) : stack[t][i].at = "format"

(* All of a thread's calls but the innermost are running user code. *)
OuterCallsNested ==
    \A t \in Threads : \A i \in 1 .. Len(stack[t]) - 1 : stack[t][i].at \in Nested

CallerInv == CallerTyped /\ StderrHeld /\ OuterCallsNested

LEMMA CallTyped == Call = [in : Sessions, at : Ats]
BY DEF Call, Ats

LEMMA FrontShape ==
    ASSUME NEW S, NEW s \in Seq(S), s # << >>
    PROVE  /\ Front(s) \in Seq(S) /\ Len(s) \in Nat \ {0} /\ Len(Front(s)) = Len(s) - 1
           /\ \A i \in 1 .. Len(s) - 1 : Front(s)[i] = s[i]
<1> PICK n \in Nat \ {0} : n = Len(s)
    OBVIOUS
<1>1. n - 1 \in Int /\ \A i \in 1 .. n - 1 : s[i] \in S
      OBVIOUS
<1>2. /\ SubSeq(s, 1, n - 1) \in Seq(S)
      /\ Len(SubSeq(s, 1, n - 1)) = IF 1 <= n - 1 THEN n - 1 - 1 + 1 ELSE 0
      /\ \A i \in 1 .. n - 1 - 1 + 1 : SubSeq(s, 1, n - 1)[i] = s[1 + i - 1]
      BY <1>1, SubSeqProperties
<1> QED BY <1>2 DEF Front

(* A call moves on: the innermost one, and nothing but its position. *)
LEMMA MoveShape ==
    ASSUME CallerTyped, NEW t \in Threads, NEW from, NEW to \in Ats, Moves(t, from, to)
    PROVE  /\ pc[t] = "idle" /\ stack' \in [Threads -> Seq(Call)]
           /\ \A u \in Threads \ {t} : stack'[u] = stack[u]
           /\ Len(stack[t]) \in Nat \ {0} /\ Len(stack'[t]) = Len(stack[t])
           /\ stack[t][Len(stack[t])].at = from
           /\ stack'[t][Len(stack[t])].at = to
           /\ \A i \in 1 .. Len(stack[t]) - 1 : stack'[t][i] = stack[t][i]
<1> PICK s : s = stack[t]
    OBVIOUS
<1>1. /\ stack \in [Threads -> Seq(Call)] /\ s \in Seq(Call) /\ s # << >> /\ pc[t] = "idle"
      /\ Last(s).at = from
      /\ stack' = [stack EXCEPT ![t] = Append(Front(@), [Last(@) EXCEPT !.at = to])]
      BY DEF CallerTyped, Moves, In
<1>2. /\ Front(s) \in Seq(Call) /\ Len(s) \in Nat \ {0} /\ Len(Front(s)) = Len(s) - 1
      /\ \A i \in 1 .. Len(s) - 1 : Front(s)[i] = s[i]
      BY ONLY <1>1, FrontShape
<1> PICK call : call = [Last(s) EXCEPT !.at = to]
    OBVIOUS
<1>3. call \in Call /\ call.at = to /\ Last(s) = s[Len(s)]
  <2>1. s[Len(s)] \in Call
        BY <1>1, <1>2
  <2> QED BY <2>1, CallTyped DEF Last
<1> PICK new : new = Append(Front(s), call)
    OBVIOUS
<1>4. /\ new \in Seq(Call) /\ Len(new) = Len(s) /\ new[Len(s)] = call
      /\ \A i \in 1 .. Len(s) - 1 : new[i] = s[i]
      BY <1>2, <1>3
<1>5. stack' = [stack EXCEPT ![t] = new]
      BY <1>1
<1> HIDE DEF Last
<1> QED BY <1>1, <1>2, <1>3, <1>4, <1>5

(* The innermost call returns. *)
LEMMA EndShape ==
    ASSUME CallerTyped, NEW t \in Threads, stack[t] # << >>, Ends(t)
    PROVE  /\ stack' \in [Threads -> Seq(Call)]
           /\ \A u \in Threads \ {t} : stack'[u] = stack[u]
           /\ Len(stack[t]) \in Nat \ {0} /\ Len(stack'[t]) = Len(stack[t]) - 1
           /\ \A i \in 1 .. Len(stack[t]) - 1 : stack'[t][i] = stack[t][i]
<1> PICK s : s = stack[t]
    OBVIOUS
<1>1. /\ stack \in [Threads -> Seq(Call)] /\ s \in Seq(Call) /\ s # << >>
      /\ stack' = [stack EXCEPT ![t] = Front(s)]
      BY DEF CallerTyped, Ends
<1>2. /\ Front(s) \in Seq(Call) /\ Len(s) \in Nat \ {0} /\ Len(Front(s)) = Len(s) - 1
      /\ \A i \in 1 .. Len(s) - 1 : Front(s)[i] = s[i]
      BY ONLY <1>1, FrontShape
<1> QED BY <1>1, <1>2

(* The program, or user code in one of its calls, makes a call. *)
LEMMA BeginShape ==
    ASSUME CallerTyped, NEW t \in Threads, NEW call \in Call,
           stack' = [stack EXCEPT ![t] = Append(@, call)]
    PROVE  /\ stack' \in [Threads -> Seq(Call)]
           /\ \A u \in Threads \ {t} : stack'[u] = stack[u]
           /\ Len(stack[t]) \in Nat /\ Len(stack'[t]) = Len(stack[t]) + 1
           /\ stack'[t][Len(stack[t]) + 1] = call
           /\ \A i \in 1 .. Len(stack[t]) : stack'[t][i] = stack[t][i]
<1> PICK s : s = stack[t]
    OBVIOUS
<1>1. /\ stack \in [Threads -> Seq(Call)] /\ s \in Seq(Call)
      /\ stack' = [stack EXCEPT ![t] = Append(s, call)]
      BY DEF CallerTyped
<1>2. /\ Append(s, call) \in Seq(Call) /\ Len(s) \in Nat /\ Len(Append(s, call)) = Len(s) + 1
      /\ Append(s, call)[Len(s) + 1] = call
      /\ \A i \in 1 .. Len(s) : Append(s, call)[i] = s[i]
      BY <1>1
<1> QED BY <1>1, <1>2

(* What a thread's step does to its calls and to the stderr lock. *)
LEMMA CallerKept ==
    ASSUME CallerInv, UNCHANGED <<errLock, stack>>
    PROVE  CallerInv'
BY DEF CallerInv, CallerTyped, StderrHeld, OuterCallsNested

(* A call moves on, and stderr goes with a call that starts or ends formatting. *)
LEMMA CallMovesOn ==
    ASSUME CallerInv, NEW t \in Threads, NEW from, NEW to \in Ats, Moves(t, from, to),
           errLock' \in Threads \cup {NoThread},
           \A u \in Threads \ {t} : errLock' = u <=> errLock = u,
           errLock' = t <=> \E i \in 1 .. Len(stack'[t]) : stack'[t][i].at = "format"
    PROVE  CallerInv'
<1>1. CallerTyped
      BY DEF CallerInv
<1>2. /\ stack' \in [Threads -> Seq(Call)]
      /\ \A u \in Threads \ {t} : stack'[u] = stack[u]
      /\ Len(stack'[t]) = Len(stack[t])
      /\ \A i \in 1 .. Len(stack[t]) - 1 : stack'[t][i] = stack[t][i]
      BY <1>1, MoveShape
<1>3. StderrHeld'
  <2>1. ASSUME NEW u \in Threads \ {t}
        PROVE  errLock' = u <=> \E i \in 1 .. Len(stack'[u]) : stack'[u][i].at = "format"
    <3>1. stack'[u] = stack[u] /\ (errLock' = u <=> errLock = u)
          BY <1>2
    <3>2. errLock = u <=> \E i \in 1 .. Len(stack[u]) : stack[u][i].at = "format"
          BY DEF CallerInv, StderrHeld
    <3> QED BY <3>1, <3>2
  <2> QED BY <2>1 DEF StderrHeld
<1>4. OuterCallsNested'
      BY <1>2 DEF CallerInv, OuterCallsNested
<1> QED BY <1>2, <1>3, <1>4 DEF CallerInv, CallerTyped

(* ... and a move that is neither keeps it. *)
LEMMA CallMovesQuietly ==
    ASSUME CallerInv, NEW t \in Threads, NEW from \in Ats \ {"format"},
           NEW to \in Ats \ {"format"}, Moves(t, from, to), errLock' = errLock
    PROVE  CallerInv'
<1>1. /\ Len(stack[t]) \in Nat \ {0} /\ Len(stack'[t]) = Len(stack[t])
      /\ stack[t][Len(stack[t])].at = from
      /\ stack'[t][Len(stack[t])].at = to
      /\ \A i \in 1 .. Len(stack[t]) - 1 : stack'[t][i] = stack[t][i]
      BY MoveShape DEF CallerInv
<1>2. \A i \in 1 .. Len(stack[t]) : stack'[t][i].at = "format" <=> stack[t][i].at = "format"
  <2> TAKE i \in 1 .. Len(stack[t])
  <2>1. i \in 1 .. Len(stack[t]) - 1 \/ i = Len(stack[t])
        BY <1>1
  <2> QED BY <1>1, <2>1
<1>3. errLock' = t <=> \E i \in 1 .. Len(stack'[t]) : stack'[t][i].at = "format"
      BY <1>1, <1>2 DEF CallerInv, StderrHeld
<1> QED BY <1>3, CallMovesOn DEF CallerInv, CallerTyped

LEMMA CallEnds ==
    ASSUME CallerInv, NEW t \in Threads, NEW step \in Ats \ {"format"}, In(t, step),
           Ends(t), errLock' = errLock
    PROVE  CallerInv'
<1>1. stack[t] # << >> /\ stack[t][Len(stack[t])].at = step
      BY DEF In, Last
<1>2. /\ stack' \in [Threads -> Seq(Call)]
      /\ \A u \in Threads \ {t} : stack'[u] = stack[u]
      /\ Len(stack[t]) \in Nat \ {0} /\ Len(stack'[t]) = Len(stack[t]) - 1
      /\ \A i \in 1 .. Len(stack[t]) - 1 : stack'[t][i] = stack[t][i]
      BY <1>1, EndShape DEF CallerInv
<1>3. (\E i \in 1 .. Len(stack'[t]) : stack'[t][i].at = "format")
         <=> \E i \in 1 .. Len(stack[t]) : stack[t][i].at = "format"
  <2>1. \A i \in 1 .. Len(stack[t]) : i \in 1 .. Len(stack[t]) - 1 \/ i = Len(stack[t])
        BY <1>2
  <2>2. \A i \in 1 .. Len(stack[t]) - 1 : i \in 1 .. Len(stack[t])
        BY <1>2
  <2>3. stack[t][Len(stack[t])].at # "format"
        BY <1>1
  <2> QED BY ONLY <1>2, <2>1, <2>2, <2>3
<1>4. StderrHeld'
  <2>1. ASSUME NEW u \in Threads
        PROVE  errLock = u <=> \E i \in 1 .. Len(stack'[u]) : stack'[u][i].at = "format"
    <3>1. errLock = u <=> \E i \in 1 .. Len(stack[u]) : stack[u][i].at = "format"
          BY DEF CallerInv, StderrHeld
    <3>2. u = t \/ stack'[u] = stack[u]
          BY <1>2
    <3> QED BY ONLY <1>3, <3>1, <3>2
  <2> QED BY <2>1 DEF StderrHeld
<1>5. OuterCallsNested'
  <2>1. \A i \in 1 .. Len(stack'[t]) - 1 : stack'[t][i].at \in Nested
        BY <1>2 DEF CallerInv, OuterCallsNested
  <2> QED BY <1>2, <2>1 DEF CallerInv, OuterCallsNested
<1> QED BY <1>2, <1>4, <1>5 DEF CallerInv, CallerTyped

LEMMA CallerInit == InitProgram => CallerInv
<1> SUFFICES ASSUME InitProgram PROVE CallerInv
    OBVIOUS
<1>1. errLock = NoThread /\ \A t \in Threads : stack[t] = << >> /\ Len(stack[t]) = 0
      BY DEF InitProgram
<1>2. CallerTyped
      BY DEF InitProgram, CallerTyped
<1> QED BY <1>1, <1>2, ThreadsAssumption DEF CallerInv, StderrHeld, OuterCallsNested

LEMMA CallingStep ==
    ASSUME CallerInv, NEW t \in Threads, NEW s \in Sessions, NEW first \in Ats \ {"format"},
           Calling(t, s, first)
    PROVE  CallerInv'
<1> PICK call : call = [in |-> s, at |-> first]
    OBVIOUS
<1>1. call \in Call /\ call.at # "format"
      BY CallTyped
<1>2. /\ stack' = [stack EXCEPT ![t] = Append(@, call)] /\ errLock' = errLock
      /\ stack[t] = << >> \/ \E step \in Nested : stack[t][Len(stack[t])].at = step
      BY DEF Calling, In, Last
<1>3. /\ stack' \in [Threads -> Seq(Call)]
      /\ \A u \in Threads \ {t} : stack'[u] = stack[u]
      /\ Len(stack[t]) \in Nat /\ Len(stack'[t]) = Len(stack[t]) + 1
      /\ stack'[t][Len(stack[t]) + 1] = call
      /\ \A i \in 1 .. Len(stack[t]) : stack'[t][i] = stack[t][i]
      BY <1>1, <1>2, BeginShape DEF CallerInv
<1>4. (\E i \in 1 .. Len(stack'[t]) : stack'[t][i].at = "format")
         <=> \E i \in 1 .. Len(stack[t]) : stack[t][i].at = "format"
  <2>1. \A i \in 1 .. Len(stack[t]) + 1 : i \in 1 .. Len(stack[t]) \/ i = Len(stack[t]) + 1
        BY <1>3
  <2>2. \A i \in 1 .. Len(stack[t]) : i \in 1 .. Len(stack[t]) + 1
        BY <1>3
  <2>3. stack'[t][Len(stack[t]) + 1].at # "format"
        BY <1>1, <1>3
  <2> QED BY ONLY <1>3, <2>1, <2>2, <2>3
<1>5. StderrHeld'
      BY <1>2, <1>3, <1>4 DEF CallerInv, StderrHeld
<1>6. OuterCallsNested'
  <2>1. ASSUME NEW i \in 1 .. Len(stack'[t]) - 1 PROVE stack'[t][i].at \in Nested
    <3>1. i \in 1 .. Len(stack[t]) /\ stack'[t][i] = stack[t][i] /\ stack[t] # << >>
          BY <1>3
    <3>2. CASE i = Len(stack[t])
          BY <1>2, <3>1, <3>2
    <3>3. CASE i # Len(stack[t])
      <4>1. i \in 1 .. Len(stack[t]) - 1
            BY <1>3, <3>1, <3>3
      <4> QED BY <3>1, <4>1 DEF CallerInv, OuterCallsNested
    <3> QED BY <3>2, <3>3
  <2> QED BY <1>3, <2>1 DEF CallerInv, OuterCallsNested
<1> QED BY <1>2, <1>3, <1>5, <1>6 DEF CallerInv, CallerTyped

LEMMA FormatsStep ==
    ASSUME CallerInv, NEW t \in Threads, Formats(t)
    PROVE  CallerInv'
<1>1. Moves(t, "eprint", "format") /\ errLock' = t /\ errLock \in {NoThread, t} /\ "format" \in Ats
      BY DEF Formats, StderrFree, Ats
<1>2. Len(stack'[t]) \in Nat \ {0} /\ stack'[t][Len(stack'[t])].at = "format"
      BY <1>1, MoveShape DEF CallerInv
<1>3. \E i \in 1 .. Len(stack'[t]) : stack'[t][i].at = "format"
      BY <1>2
<1>4. /\ errLock' \in Threads \cup {NoThread}
      /\ \A u \in Threads \ {t} : errLock' = u <=> errLock = u
      BY <1>1, ThreadsAssumption
<1> QED BY <1>1, <1>3, <1>4, CallMovesOn

LEMMA PrintedStep ==
    ASSUME CallerInv, NEW t \in Threads, Printed(t)
    PROVE  CallerInv'
<1>1. /\ Moves(t, "format", "export") /\ "export" \in Ats
      /\ errLock' = IF \E i \in 1 .. Len(stack'[t]) : stack'[t][i].at = "format"
                    THEN t ELSE NoThread
      BY DEF Printed, Ats
<1>2. Len(stack[t]) \in Nat \ {0} /\ stack[t][Len(stack[t])].at = "format"
      BY <1>1, MoveShape DEF CallerInv
<1>3. errLock = t
  <2>1. Len(stack[t]) \in 1 .. Len(stack[t])
        BY <1>2
  <2> QED BY <1>2, <2>1 DEF CallerInv, StderrHeld
<1>4. /\ errLock' \in Threads \cup {NoThread}
      /\ \A u \in Threads \ {t} : errLock' = u <=> errLock = u
      BY <1>1, <1>3, ThreadsAssumption
<1>5. errLock' = t <=> \E i \in 1 .. Len(stack'[t]) : stack'[t][i].at = "format"
      BY <1>1, ThreadsAssumption
<1> QED BY <1>1, <1>4, <1>5, CallMovesOn

LEMMA PanicsStep ==
    ASSUME CallerInv, NEW t \in Threads, Panics(t)
    PROVE  CallerInv'
<1>1. /\ stack' = [stack EXCEPT ![t] = << >>]
      /\ errLock' = IF errLock = t THEN NoThread ELSE errLock
      BY DEF Panics
<1>2. /\ stack' \in [Threads -> Seq(Call)] /\ stack'[t] = << >>
      /\ \A u \in Threads \ {t} : stack'[u] = stack[u]
      BY <1>1 DEF CallerInv, CallerTyped
<1>3. /\ errLock' \in Threads \cup {NoThread} /\ errLock' # t
      /\ \A u \in Threads \ {t} : errLock' = u <=> errLock = u
      BY <1>1, ThreadsAssumption DEF CallerInv, CallerTyped
<1>4. Len(stack'[t]) = 0
      BY <1>2
<1>5. StderrHeld'
  <2>1. \A u \in Threads \ {t} : errLock' = u
           <=> \E i \in 1 .. Len(stack'[u]) : stack'[u][i].at = "format"
        BY <1>2, <1>3 DEF CallerInv, StderrHeld
  <2>2. errLock' # t /\ ~\E i \in 1 .. Len(stack'[t]) : stack'[t][i].at = "format"
        BY <1>3, <1>4
  <2> QED BY <2>1, <2>2 DEF StderrHeld
<1>6. OuterCallsNested'
      BY <1>2, <1>4 DEF CallerInv, OuterCallsNested
<1> QED BY <1>2, <1>3, <1>5, <1>6 DEF CallerInv, CallerTyped

LEMMA CallerStep == CallerInv /\ [NextProgram]_programVars => CallerInv'
<1> SUFFICES ASSUME CallerInv, [NextProgram]_programVars PROVE CallerInv'
    OBVIOUS
<1>0. {"eprint", "export", "append", "alone", "write", "tell"} \subseteq Ats \ {"format"}
      BY DEF Ats
<1>1. ASSUME NEW t \in Threads, NEW s \in Sessions,
             NEW first \in {"eprint", "export", "alone"}, Calling(t, s, first)
      PROVE  CallerInv'
      BY <1>0, <1>1, CallingStep
<1>2. ASSUME NEW t \in Threads, Exports(t) PROVE CallerInv'
      BY <1>0, <1>2, CallMovesQuietly DEF Exports
<1>3. ASSUME NEW t \in Threads, Captures(t) PROVE CallerInv'
      BY <1>3, CallerKept DEF Captures
<1>4. ASSUME NEW t \in Threads, Returns(t) PROVE CallerInv'
      BY <1>0, <1>4, CallEnds DEF Returns
<1>5. ASSUME NEW t \in Threads, ExportsAlone(t) PROVE CallerInv'
      BY <1>0, <1>5, CallMovesQuietly DEF ExportsAlone
<1>6. ASSUME NEW t \in Threads, WritesDiagram(t) PROVE CallerInv'
      BY <1>0, <1>6, CallMovesQuietly, CallEnds DEF WritesDiagram
<1>7. ASSUME NEW t \in Threads, TellsDiagram(t) PROVE CallerInv'
      BY <1>0, <1>7, CallEnds DEF TellsDiagram
<1>8. ASSUME NEW t \in Threads, Works(t) PROVE CallerInv'
      BY <1>2, <1>3, <1>4, <1>5, <1>6, <1>7, <1>8, FormatsStep, PrintedStep, PanicsStep
      DEF Works
<1>9. ASSUME NEW s \in Sessions, ServerWorks(s) \/ Connects(s) PROVE CallerInv'
      BY <1>9, CallerKept DEF ServerWorks, Connects, caller
<1>10. ASSUME UNCHANGED programVars PROVE CallerInv'
      BY <1>10, CallerKept DEF programVars, caller
<1> QED BY <1>1, <1>8, <1>9, <1>10 DEF NextProgram

-----------------------------------------------------------------------------
(* A program's steps are steps of its captures, except for a panic while no
   capture is under way: printing the value, or in diagram(). *)

PanicsOutside(t) ==
    /\ pc[t] = "idle" /\ pc' = [pc EXCEPT ![t] = "panicked"]
    /\ UNCHANGED <<shared, serving, history, locals>>

SessionInv == CurrentInv /\ RefinesInv /\ OpensBeforeUnlock

LEMMA ProgramSteps ==
    ASSUME CallerInv, [NextProgram]_programVars
    PROVE  [Next]_vars \/ \E t \in Threads : PanicsOutside(t)
<1> DEFINE Goal == [Next]_vars \/ \E t \in Threads : PanicsOutside(t)
<1>1. ASSUME NEW t \in Threads, NEW s \in Sessions, NEW first, Calling(t, s, first)
      PROVE  UNCHANGED vars
      BY <1>1 DEF Calling
<1>2. ASSUME NEW t \in Threads,
             \/ Formats(t) \/ Printed(t) \/ Returns(t)
             \/ ExportsAlone(t) \/ WritesDiagram(t) \/ TellsDiagram(t)
      PROVE  UNCHANGED vars
      BY <1>2 DEF Formats, Printed, Returns, ExportsAlone, WritesDiagram, TellsDiagram
<1>3. ASSUME NEW t \in Threads, Exports(t) PROVE Next
  <2>1. stack[t] \in Seq(Call) /\ Len(stack[t]) \in Nat \ {0}
        BY <1>3, MoveShape DEF CallerInv, CallerTyped, Exports, Ats
  <2>2. Last(stack[t]).in \in Sessions
    <3>1. stack[t][Len(stack[t])] \in Call
          BY <2>1
    <3> QED BY <3>1, CallTyped DEF Last
  <2> QED BY <1>3, <2>2 DEF Exports, Next
<1>4. ASSUME NEW t \in Threads, Captures(t) PROVE Next
  <2>1. ThreadStep(t)
        BY <1>4 DEF Captures, ReportPrints, OpenBrowserPrints, CloseViewerPrints, Silent,
                    ThreadStep
  <2> QED BY <2>1 DEF Next
<1>5. ASSUME NEW t \in Threads, Panics(t) PROVE Goal
  <2>1. CASE Panic(t)
        BY <2>1 DEF Next, ThreadStep
  <2>2. CASE /\ \E step \in {"format", "write", "tell"} : In(t, step)
             /\ pc' = [pc EXCEPT ![t] = "panicked"]
             /\ UNCHANGED <<shared, serving, history, locals>>
    <3>1. PanicsOutside(t)
          BY <2>2 DEF PanicsOutside, In
    <3> QED BY <3>1
  <2> QED BY <1>5, <2>1, <2>2 DEF Panics
<1>6. ASSUME NEW s \in Sessions, ServerWorks(s) \/ Connects(s) PROVE Next
      BY <1>6 DEF ServerWorks, Connects, Next, ServerStep
<1>7. ASSUME UNCHANGED programVars PROVE UNCHANGED vars
      BY <1>7 DEF programVars
<1> QED BY <1>1, <1>2, <1>3, <1>4, <1>5, <1>6, <1>7 DEF NextProgram, Works

(* Such a panic changes nothing that a capture or the viewer depends on. *)
LEMMA OutsideKeeps ==
    ASSUME SessionInv, NEW t \in Threads, PanicsOutside(t)
    PROVE  SessionInv'
<1>1. /\ CurrentInv /\ RefinesInv /\ ViewerInv /\ SnapshotInv /\ LastInv /\ LogInv
      /\ LocksInv /\ TypeOK
      BY DEF SessionInv, CurrentInv, RefinesInv, ViewerInv, SnapshotInv, LastInv, LogInv,
             LocksInv
<1>2. /\ UNCHANGED <<captures, capLock, viewer, viewLock, endpoint, file>>
      /\ UNCHANGED <<server, served, starts, opens, opened>>
      /\ UNCHANGED <<cur, made, number, html, ok>>
      BY DEF PanicsOutside, shared, serving, history, locals
<1>3. /\ pc \in [Threads -> Steps] /\ pc' \in [Threads -> Steps]
      /\ pc[t] = "idle" /\ pc'[t] = "panicked"
      /\ \A u \in Threads \ {t} : pc'[u] = pc[u]
      BY <1>1 DEF PanicsOutside, TypeOK, Steps
<1>4. TypeOK'
      BY <1>1, <1>2, <1>3 DEF TypeOK
<1>6. CapturesLockHeld'
      BY <1>1, <1>2, <1>3 DEF LocksInv, CapturesLockHeld, Writing
<1>7. ViewerLockHeld'
      BY <1>1, <1>2, <1>3 DEF LocksInv, ViewerLockHeld, StartingUp, Writing
<1>8. StartUpOrder' /\ StartedAtMostOnce'
  <2>1. StartedAtMostOnce'
        BY <1>1, <1>2 DEF LocksInv, StartedAtMostOnce
  <2>2. StartUpOrder'
        BY <1>1, <1>2, <1>3 DEF LocksInv, StartUpOrder, Writing
  <2> QED BY <2>1, <2>2
<1>9. LocksInv'
      BY <1>4, <1>6, <1>7, <1>8 DEF LocksInv
<1>10. LogInv'
      BY <1>1, <1>2, <1>3, <1>9 DEF LogInv, Numbered, NumberIsNext
<1>11. PageIsFresh'
      BY <1>1, <1>2, <1>3 DEF SnapshotInv, PageIsFresh, AwaitsWrite, Holds
<1>12. EndpointServed'
      BY <1>1, <1>2, <1>3 DEF SnapshotInv, EndpointServed
<1>13. SnapshotIsPrefix' /\ ResponseIsCurrent'
      BY <1>1, <1>2 DEF SnapshotInv, SnapshotIsPrefix, ResponseIsCurrent, Holds, IsPrefixOf
<1>14. SnapshotInv'
      BY <1>10, <1>11, <1>12, <1>13 DEF SnapshotInv
<1>15. LastCall'
      BY <1>1, <1>2, <1>3 DEF LastInv, LastCall, Newest
<1>16. \A u \in Threads : Appending(u)' <=> Appending(u)
      BY <1>2, <1>3 DEF Appending, Writing
<1>17. AppendIsLast' /\ FallbackAfterRename'
  <2>1. AppendIsLast'
        BY <1>1, <1>2, <1>16 DEF LastInv, AppendIsLast, Newest
  <2>2. FallbackAfterRename'
        BY <1>1, <1>3 DEF LastInv, FallbackAfterRename
  <2> QED BY <2>1, <2>2
<1>18. FileIsCurrent'
      BY <1>1, <1>2, <1>16 DEF CurrentInv, FileIsCurrent, LastWritten, Current, Newest, Holds
<1>19. EndpointOnceStarted' /\ OpenedOnceOpen'
      BY <1>1, <1>2 DEF ViewerInv, EndpointOnceStarted, OpenedOnceOpen
<1>20. PagesLive'
      BY <1>1, <1>2, <1>3 DEF ViewerInv, PagesLive, AwaitsWrite
<1>21. FileLive'
      BY <1>1, <1>2, <1>3 DEF ViewerInv, FileLive, Holds
<1>22. HasRecorded'
      BY <1>1, <1>2, <1>3 DEF RefinesInv, HasRecorded, BeforePush
<1>23. OpensBeforeUnlock'
  <2>1. SomebodyPanicked'
        BY <1>3 DEF SomebodyPanicked
  <2>2. \A u \in Threads : pc'[u] = "close" => opens'[cur'[u]] # 0
        BY <1>2, <1>3 DEF SessionInv, OpensBeforeUnlock
  <2> QED BY <2>1, <2>2 DEF OpensBeforeUnlock
<1>24. LastInv' /\ ViewerInv'
      BY <1>10, <1>14, <1>15, <1>17, <1>19, <1>20, <1>21 DEF LastInv, ViewerInv
<1> QED BY <1>14, <1>18, <1>22, <1>23, <1>24 DEF SessionInv, CurrentInv, RefinesInv

(* Where a capture is under way, it is that of the innermost call; a thread that
   panicked has no calls. *)
CapturesInCall ==
    \A t \in Threads :
        /\ pc[t] = "panicked" => stack[t] = << >>
        /\ pc[t] \notin {"idle", "panicked"} =>
              stack[t] # << >> /\ stack[t][Len(stack[t])].at = "append"

ProgramInv == CallerInv /\ SessionInv /\ CapturesInCall

LEMMA CaptureMoves ==
    ASSUME TypeOK, NEW t \in Threads, Captures(t)
    PROVE  /\ pc[t] \notin {"idle", "panicked"} /\ stack' = stack
           /\ \E to \in Steps \ {"panicked"} : pc' = [pc EXCEPT ![t] = to]
<1> DEFINE Goal == /\ pc[t] \notin {"idle", "panicked"}
                   /\ \E to \in Steps \ {"panicked"} : pc' = [pc EXCEPT ![t] = to]
<1>0. stack' = stack
      BY DEF Captures
<1> SUFFICES Goal
    BY <1>0
<1> USE DEF Goto, Steps
<1>1. CASE LockCaptures(t) \/ Push(t) \/ Render(t)
      BY <1>1 DEF LockCaptures, Push, Render
<1>2. CASE WriteTemp(t)
      BY <1>2 DEF WriteTemp, WriteEnds
<1>3. CASE Rename(t)
      BY <1>3 DEF Rename, WriteEnds
<1>4. CASE Truncate(t)
      BY <1>4 DEF Truncate, WriteEnds
<1>5. CASE FallbackWrite(t)
      BY <1>5 DEF FallbackWrite, WriteEnds
<1>6. CASE Report(t)
      BY <1>6 DEF Report
<1>7. CASE AlreadyStarted(t) \/ LockViewer(t)
      BY <1>7 DEF AlreadyStarted, LockViewer
<1>8. CASE StartServer(t)
      BY <1>8 DEF StartServer
<1>9. CASE SetEndpoint(t) \/ Relock(t)
      BY <1>9 DEF SetEndpoint, Relock
<1>10. CASE OpenBrowser(t) \/ CloseViewer(t)
      BY <1>10 DEF OpenBrowser, CloseViewer
<1>11. \/ Report(t) \/ OpenBrowser(t) \/ CloseViewer(t) \/ Silent(t)
      BY DEF Captures, ReportPrints, OpenBrowserPrints, CloseViewerPrints
<1> QED BY <1>1, <1>2, <1>3, <1>4, <1>5, <1>6, <1>7, <1>8, <1>9, <1>10, <1>11
        DEF Silent

LEMMA CapturesInCallStep ==
    ASSUME ProgramInv, [NextProgram]_programVars
    PROVE  CapturesInCall'
<1>0. /\ TypeOK /\ pc \in [Threads -> Steps]
      /\ CallerTyped /\ stack \in [Threads -> Seq(Call)]
  <2>1. TypeOK
        BY DEF ProgramInv, SessionInv, CurrentInv, SnapshotInv, LogInv, LocksInv
  <2>2. CallerTyped
        BY DEF ProgramInv, CallerInv
  <2> QED BY <2>1, <2>2 DEF TypeOK, CallerTyped
<1>1. ASSUME UNCHANGED pc, NEW t \in Threads, pc[t] = "idle",
             \A u \in Threads \ {t} : stack'[u] = stack[u]
      PROVE  CapturesInCall'
      BY <1>1 DEF ProgramInv, CapturesInCall
<1>2. ASSUME UNCHANGED <<pc, stack>> PROVE CapturesInCall'
      BY <1>2 DEF ProgramInv, CapturesInCall
<1>3. ASSUME NEW t \in Threads, NEW s \in Sessions, NEW first, Calling(t, s, first)
      PROVE  CapturesInCall'
      BY <1>0, <1>1, <1>3 DEF Calling, vars
<1>4. ASSUME NEW t \in Threads, NEW from, NEW to, Moves(t, from, to), UNCHANGED pc
      PROVE  CapturesInCall'
  <2>1. pc[t] = "idle" /\ \A u \in Threads \ {t} : stack'[u] = stack[u]
        BY <1>0, <1>4 DEF Moves, In
  <2> QED BY <1>1, <1>4, <2>1
<1>5. ASSUME NEW t \in Threads, NEW step, In(t, step), Ends(t), UNCHANGED pc
      PROVE  CapturesInCall'
  <2>1. pc[t] = "idle" /\ \A u \in Threads \ {t} : stack'[u] = stack[u]
        BY <1>0, <1>5 DEF Ends, In
  <2> QED BY <1>1, <1>5, <2>1
<1>6. ASSUME NEW t \in Threads, Exports(t) PROVE CapturesInCall'
  <2>1. Moves(t, "export", "append") /\ pc' = [pc EXCEPT ![t] = "append"]
        BY <1>6 DEF Exports, BeginCapture, Goto
  <2>2. /\ \A u \in Threads \ {t} : stack'[u] = stack[u]
        /\ Len(stack[t]) \in Nat \ {0} /\ Len(stack'[t]) = Len(stack[t])
        /\ stack'[t][Len(stack[t])].at = "append"
        BY <1>0, <2>1, MoveShape DEF Ats
  <2>3. stack'[t] # << >>
        BY <2>2
  <2>4. /\ pc'[t] = "append" /\ \A u \in Threads \ {t} : pc'[u] = pc[u]
        BY <1>0, <2>1
  <2> QED BY <2>2, <2>3, <2>4 DEF ProgramInv, CapturesInCall
<1>7. ASSUME NEW t \in Threads, Captures(t) PROVE CapturesInCall'
  <2>1. /\ pc[t] \notin {"idle", "panicked"} /\ stack' = stack
        /\ \E to \in Steps \ {"panicked"} : pc' = [pc EXCEPT ![t] = to]
        BY <1>0, <1>7, CaptureMoves
  <2>2. pc'[t] # "panicked" /\ \A u \in Threads \ {t} : pc'[u] = pc[u]
        BY <1>0, <2>1
  <2> QED BY <2>1, <2>2 DEF ProgramInv, CapturesInCall
<1>8. ASSUME NEW t \in Threads, Panics(t) PROVE CapturesInCall'
  <2>1. stack' = [stack EXCEPT ![t] = << >>] /\ pc' = [pc EXCEPT ![t] = "panicked"]
        BY <1>8 DEF Panics, Panic
  <2>2. /\ stack'[t] = << >> /\ \A u \in Threads \ {t} : stack'[u] = stack[u]
        /\ pc'[t] = "panicked" /\ \A u \in Threads \ {t} : pc'[u] = pc[u]
        BY <1>0, <2>1
  <2> QED BY <2>2 DEF ProgramInv, CapturesInCall
<1>9. ASSUME NEW s \in Sessions, ServerWorks(s) \/ Connects(s) PROVE UNCHANGED <<pc, stack>>
      BY <1>9 DEF ServerWorks, Connects, caller, LockAndServe, FinishResponse, ReadTimeout,
                  Accept
<1>10. ASSUME NEW t \in Threads, Works(t) PROVE CapturesInCall'
  <2>1. CASE Formats(t) \/ Printed(t) \/ ExportsAlone(t)
        BY <1>4, <2>1 DEF Formats, Printed, ExportsAlone, vars
  <2>2. CASE Returns(t) \/ TellsDiagram(t)
        BY <1>5, <2>2 DEF Returns, TellsDiagram, vars
  <2>3. CASE WritesDiagram(t)
        BY <1>4, <1>5, <2>3 DEF WritesDiagram, vars
  <2> QED BY <1>6, <1>7, <1>8, <1>10, <2>1, <2>2, <2>3 DEF Works
<1>11. CASE UNCHANGED programVars
      BY <1>2, <1>11 DEF programVars, vars, caller
<1> QED BY <1>2, <1>3, <1>9, <1>10, <1>11 DEF NextProgram

LEMMA ProgramInit == InitProgram => ProgramInv
<1>1. InitProgram => Init
      BY DEF InitProgram
<1>2. Init => SessionInv
      BY CurrentInit, RefinesInit, ViewerInit DEF SessionInv
<1>3. InitProgram => CapturesInCall
      BY DEF InitProgram, Init, CapturesInCall
<1> QED BY <1>1, <1>2, <1>3, CallerInit DEF ProgramInv

LEMMA ProgramStep == ProgramInv /\ [NextProgram]_programVars => ProgramInv'
<1> SUFFICES ASSUME ProgramInv, [NextProgram]_programVars PROVE ProgramInv'
    OBVIOUS
<1>1. CallerInv' /\ CapturesInCall'
      BY CallerStep, CapturesInCallStep DEF ProgramInv
<1>2. CASE [Next]_vars
  <2>1. CurrentInv' /\ RefinesInv' /\ OpensBeforeUnlock'
        BY <1>2, CurrentStep, RefinesStep, OpensStep
        DEF ProgramInv, SessionInv, CurrentInv, SnapshotInv, LogInv
  <2> QED BY <1>1, <2>1 DEF ProgramInv, SessionInv
<1>3. CASE \E t \in Threads : PanicsOutside(t)
      BY <1>1, <1>3, OutsideKeeps DEF ProgramInv
<1> QED BY <1>2, <1>3, ProgramSteps DEF ProgramInv

(* What Session promises of the log, the snapshot, the server's responses and
   the start-up holds of any program that uses dbg!, dbg_in!, diagram and
   sessions, however the values' own Debug and Serialize use them (lib.rs). *)
THEOREM ProgramKeepsPromises ==
    SpecProgram => [](/\ TypeOK /\ CapturesLockHeld /\ Numbered
                      /\ SnapshotIsPrefix /\ SnapshotIsCurrent /\ ResponseIsCurrent
                      /\ StartedAtMostOnce /\ OpenedSnapshotIsLive)
<1> DEFINE Promises == /\ TypeOK /\ CapturesLockHeld /\ Numbered
                       /\ SnapshotIsPrefix /\ SnapshotIsCurrent /\ ResponseIsCurrent
                       /\ StartedAtMostOnce /\ OpenedSnapshotIsLive
<1>1. InitProgram => ProgramInv BY ProgramInit
<1>2. ProgramInv /\ [NextProgram]_programVars => ProgramInv' BY ProgramStep
<1>3. ProgramInv => Promises
      BY CurrentShown
      DEF ProgramInv, SessionInv, CurrentInv, RefinesInv, ViewerInv, SnapshotInv, LogInv,
          LocksInv, FileLive, OpenedSnapshotIsLive
<1> QED BY <1>1, <1>2, <1>3, PTL DEF SpecProgram

(* ... and what it promises of every step: two writers of a snapshot never end
   in the wrong order, and a capture that needs a viewer returns only after the
   browser was asked to open, unless a thread panicked, now also between its
   captures (session.rs, lib.rs). *)
THEOREM ProgramKeepsOrder ==
    SpecProgram => SnapshotNeverRegresses /\ ReturnsAfterOpening
<1> DEFINE Step == /\ \A p \in Paths, s \in Sessions : Advances(p, s)
                   /\ \A t \in Threads : ReturnsOpened(t)
<1>1. InitProgram => ProgramInv BY ProgramInit
<1>2. ProgramInv /\ [NextProgram]_programVars => ProgramInv' BY ProgramStep
<1>3. ASSUME ProgramInv, [NextProgram]_programVars PROVE Step
  <2>1. SnapshotInv /\ LocksInv /\ OpensBeforeUnlock
        BY <1>3 DEF ProgramInv, SessionInv, CurrentInv, SnapshotInv, LogInv
  <2>2. CASE [Next]_vars
        BY <2>1, <2>2, StepAdvances, StepReturnsOpened
  <2>3. CASE \E t \in Threads : PanicsOutside(t)
    <3>1. PICK t \in Threads : PanicsOutside(t)
          BY <2>3
    <3>2. \A p \in Paths, s \in Sessions : Advances(p, s)
          BY <3>1, PrefixReflexive DEF PanicsOutside, shared, Advances
    <3>3. \A u \in Threads : ReturnsOpened(u)
      <4>1. pc \in [Threads -> Steps] /\ pc[t] = "idle" /\ pc' = [pc EXCEPT ![t] = "panicked"]
            BY <2>1, <3>1 DEF LocksInv, TypeOK, PanicsOutside
      <4> QED BY <4>1 DEF ReturnsOpened
    <3> QED BY <3>2, <3>3
  <2> QED BY <1>3, <2>2, <2>3, ProgramSteps DEF ProgramInv
<1>4. ProgramInv /\ [NextProgram]_programVars =>
        /\ [\A p \in Paths, s \in Sessions : Advances(p, s)]_vars
        /\ [\A t \in Threads : ReturnsOpened(t)]_vars
      BY <1>3
<1>5. [\A p \in Paths, s \in Sessions : Advances(p, s)]_vars <=>
      [\A p \in Paths, s \in Sessions :
          Holds(p, s) /\ Holds(p, s)' =>
              /\ IsPrefixOf(file[p].captures, file'[p].captures)
              /\ file[p].live => file'[p].live]_vars
      BY DEF Advances
<1>6. [\A t \in Threads : ReturnsOpened(t)]_vars <=>
      [\A t \in Threads :
          pc[t] = "ensure" /\ pc'[t] = "idle"
              => opens[cur[t]] = 1 \/ \E u \in Threads : pc[u] = "panicked"]_vars
      BY DEF ReturnsOpened
<1> QED
    BY <1>1, <1>2, <1>4, <1>5, <1>6, PTL
    DEF SpecProgram, SnapshotNeverRegresses, ReturnsAfterOpening

(* Captures are linearizable and the browser opens once per session in any
   program: it implements CaptureLog, where no two sessions share a file. *)
THEOREM ProgramImplementsLog ==
    ASSUME \A r, s \in Sessions : PathOf[r] = PathOf[s] => r = s
    PROVE  SpecProgram => ImplementsLog
<1>1. InitProgram => ProgramInv BY ProgramInit
<1>2. ProgramInv /\ [NextProgram]_programVars => ProgramInv' BY ProgramStep
<1>3. InitProgram => Log!Init
      BY LogInitially DEF InitProgram
<1>4. ASSUME ProgramInv, [NextProgram]_programVars
      PROVE  Log!Next \/ UNCHANGED AbstractVars
  <2>1. CASE [Next]_vars
        BY <1>4, <2>1, StepRefines DEF ProgramInv, SessionInv
  <2>2. CASE \E t \in Threads : PanicsOutside(t)
    <3>1. PICK t \in Threads : PanicsOutside(t)
          BY <2>2
    <3>2. /\ TypeOK /\ pc' = [pc EXCEPT ![t] = "panicked"]
          /\ UNCHANGED <<captures, file, opened, cur, made>>
          BY <1>4, <3>1
          DEF PanicsOutside, shared, history, locals, ProgramInv, SessionInv, CurrentInv,
              SnapshotInv, LogInv, LocksInv
    <3>3. "panicked" \in Steps /\ CallState("panicked") = CallState(pc[t])
          BY <3>1, CallStates DEF PanicsOutside, Steps
    <3> QED BY <3>2, <3>3, Stutters
  <2> QED BY <1>4, <2>1, <2>2, ProgramSteps DEF ProgramInv
<1>5. ProgramInv /\ [NextProgram]_programVars => [Log!Next]_(Log!logVars)
      BY <1>4 DEF AbstractVars, ShownBar, BrowserBar, CallBar, Log!logVars
<1> QED BY <1>1, <1>2, <1>3, <1>5, PTL DEF SpecProgram, ImplementsLog, Log!Spec

-----------------------------------------------------------------------------
(* Who waits for whom: for stderr to print, for the captures guard to append or
   to render again, for the viewer guard to see that the viewer is started. *)

WaitsForStderr(t, u) ==
    /\ errLock = u /\ u # t
    /\ \/ pc[t] \in {"report", "open", "close"}
       \/ \E step \in {"eprint", "write", "tell"} : In(t, step)

WaitsForCaptures(t, u) == pc[t] \in {"append", "relock"} /\ capLock[cur[t]] = u

WaitsForViewer(t, u) == pc[t] = "ensure" /\ viewLock[cur[t]] = u

WaitsFor(t, u) == WaitsForStderr(t, u) \/ WaitsForCaptures(t, u) \/ WaitsForViewer(t, u)

(* A thread waits for one that has not died, and that waits for nobody or for
   one that waits for nobody. *)
NoCircularWait ==
    \A t, u \in Threads : WaitsFor(t, u) =>
        /\ pc[u] # "panicked"
        /\ \A v \in Threads : WaitsFor(u, v) =>
              pc[v] # "panicked" /\ \A w \in Threads : ~WaitsFor(v, w)

LEMMA FormattingIsInnermost ==
    ASSUME ProgramInv, "format" \notin Nested, NEW u \in Threads, errLock = u
    PROVE  In(u, "format")
<1> PICK s : s = stack[u]
    OBVIOUS
<1>1. s \in Seq(Call) /\ Len(s) \in Nat
      BY DEF ProgramInv, CallerInv, CallerTyped
<1>2. PICK i \in 1 .. Len(s) : s[i].at = "format"
      BY DEF ProgramInv, CallerInv, StderrHeld
<1>3. i = Len(s)
  <2>1. i \in 1 .. Len(s) - 1 => s[i].at \in Nested
        BY DEF ProgramInv, CallerInv, OuterCallsNested
  <2> QED BY <1>1, <1>2, <2>1
<1>4. s # << >> /\ Last(s).at = "format"
      BY <1>1, <1>2, <1>3 DEF Last
<1>5. pc[u] = "idle"
      BY <1>1, <1>2, <1>3, <1>4 DEF ProgramInv, CapturesInCall
<1> QED BY <1>4, <1>5 DEF In

LEMMA WaitsInOrder ==
    ASSUME ProgramInv, "format" \notin Nested
    PROVE  NoCircularWait
<1>1. /\ LocksInv /\ CapturesLockHeld /\ ViewerLockHeld /\ pc \in [Threads -> Steps]
      /\ cur \in [Threads -> Sessions]
      BY DEF ProgramInv, SessionInv, CurrentInv, SnapshotInv, LogInv, LocksInv, TypeOK
<1>2. ASSUME NEW t \in Threads, NEW u \in Threads, WaitsForStderr(t, u)
      PROVE  pc[u] # "panicked" /\ \A v \in Threads : ~WaitsFor(u, v)
  <2>1. In(u, "format")
        BY <1>2, FormattingIsInnermost DEF WaitsForStderr
  <2> QED BY <2>1 DEF In, WaitsFor, WaitsForStderr, WaitsForCaptures, WaitsForViewer
<1>3. ASSUME NEW t \in Threads, NEW u \in Threads, WaitsForCaptures(t, u)
      PROVE  pc[u] # "panicked" /\ \A v \in Threads : ~WaitsFor(u, v)
  <2>1. pc[u] \in {"push"} \cup Writing
        BY <1>1, <1>3 DEF WaitsForCaptures, CapturesLockHeld
  <2> QED BY <2>1 DEF Writing, In, WaitsFor, WaitsForStderr, WaitsForCaptures, WaitsForViewer
<1>4. ASSUME NEW t \in Threads, NEW u \in Threads, WaitsForViewer(t, u)
      PROVE  pc[u] # "panicked" /\ \A v \in Threads : ~WaitsForViewer(u, v)
  <2>1. pc[u] \in StartingUp \cup Writing
        BY <1>1, <1>4 DEF WaitsForViewer, ViewerLockHeld
  <2> QED BY <2>1 DEF StartingUp, Writing, WaitsForViewer
<1> QED BY <1>2, <1>3, <1>4 DEF NoCircularWait, WaitsFor

(* No thread waits, through others, for itself: while a program's Debug does not
   call the crate, whoever waits for stderr, for a session's captures or for its
   viewer waits for a living thread, and that one waits at most for stderr or
   captures, whose holders wait for nobody.  So the order of the locks is
   viewer before stderr and captures (session.rs, lib.rs: dbg!, dbg_in!). *)
THEOREM WaitsEnd ==
    ASSUME "format" \notin Nested
    PROVE  SpecProgram => []NoCircularWait
<1>1. InitProgram => ProgramInv BY ProgramInit
<1>2. ProgramInv /\ [NextProgram]_programVars => ProgramInv' BY ProgramStep
<1>3. ProgramInv => NoCircularWait BY WaitsInOrder
<1> QED BY <1>1, <1>2, <1>3, PTL DEF SpecProgram

(* The stderr lock is held by the thread that is formatting a value and by nobody
   else, also by a panic's end: what dbg!'s eprintln! holds while it runs Debug. *)
THEOREM StderrHeldWhileFormatting == SpecProgram => []StderrHeld
<1>1. InitProgram => CallerInv BY CallerInit
<1>2. CallerInv /\ [NextProgram]_programVars => CallerInv' BY CallerStep
<1>3. CallerInv => StderrHeld BY DEF CallerInv
<1> QED BY <1>1, <1>2, <1>3, PTL DEF SpecProgram
=============================================================================
