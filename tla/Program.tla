------------------------------ MODULE Program ------------------------------
(***************************************************************************)
(* What a program's threads do with the crate (src/lib.rs): dbg! and       *)
(* dbg_in!, which print a value and capture it, ViewerSession::diagram,    *)
(* and the standalone diagram().  Printing formats the value with the      *)
(* user's Debug while std's stderr lock is held, exporting runs the user's *)
(* Serialize; either may call the crate again, so a thread has a stack of  *)
(* calls.  The capture itself is Session's, one at a time per thread; here *)
(* each of its eprintln! needs the stderr lock.                            *)
(***************************************************************************)
EXTENDS Session, SequencesExt

CONSTANTS
    Calls,    \* [Threads -> bound on the calls the thread makes]
    Nested    \* user code that calls the crate: a subset of {"format", "export"}

ASSUME ProgramAssumption ==
    /\ Calls \in [Threads -> 0 .. CapturesPerThread]
    /\ Nested \subseteq {"format", "export"}

VARIABLES
    errLock,  \* holder of stderr's reentrant lock, across steps
    stack,    \* [Threads -> Seq(call)]: calls begun and not ended
    called,   \* [Threads -> calls begun]
    failed    \* [Threads -> the browser could not be launched]

caller == <<errLock, stack, called, failed>>
programVars == <<vars, caller>>

Call == [in: Sessions, at: {"eprint", "format", "export", "append", "alone",
                            "write", "tell"}]

InitProgram ==
    /\ Init
    /\ errLock = NoThread
    /\ stack = [t \in Threads |-> << >>]
    /\ called = [t \in Threads |-> 0]
    /\ failed = [t \in Threads |-> FALSE]

-----------------------------------------------------------------------------
(* The innermost call of a thread that is not inside a capture *)
In(t, step) == pc[t] = "idle" /\ stack[t] # << >> /\ Last(stack[t]).at = step

Moves(t, from, to) ==
    /\ In(t, from)
    /\ stack' = [stack EXCEPT ![t] = Append(Front(@), [Last(@) EXCEPT !.at = to])]

Ends(t) == stack' = [stack EXCEPT ![t] = Front(@)]

StderrFree(t) == errLock \in {NoThread, t}     \* the lock is reentrant

(* The thread's code, or a Debug or Serialize it is running, calls dbg_in!
   ("eprint"), ViewerSession::diagram ("export") or diagram ("alone"). *)
Calling(t, s, first) ==
    /\ called[t] < Calls[t]
    /\ called' = [called EXCEPT ![t] = @ + 1]
    /\ pc[t] = "idle"
    /\ \/ stack[t] = << >>
       \/ \E step \in Nested : In(t, step)
    /\ stack' = [stack EXCEPT ![t] = Append(@, [in |-> s, at |-> first])]
    /\ UNCHANGED <<vars, errLock, failed>>

(* eprintln!("... {:#?}", &tmp) takes the lock and formats ... *)
Formats(t) ==
    /\ StderrFree(t)
    /\ Moves(t, "eprint", "format")
    /\ errLock' = t
    /\ UNCHANGED <<vars, called, failed>>

PrintedHolding(t) ==          \* the lock is given back when the call ends
    /\ Moves(t, "format", "export")
    /\ UNCHANGED <<vars, errLock, called, failed>>

(* ... and the outermost print gives the lock back. *)
Printed(t) ==
    /\ Moves(t, "format", "export")
    /\ errLock' = IF \E i \in 1 .. Len(stack'[t]) : stack'[t][i].at = "format"
                  THEN t ELSE NoThread
    /\ UNCHANGED <<vars, called, failed>>

(* __capture_dbg_in: capture() exports the value before it takes a lock. *)
Exports(t) ==
    /\ Moves(t, "export", "append")
    /\ BeginCapture(t, Last(stack[t]).in)
    /\ UNCHANGED <<errLock, called, failed>>

-----------------------------------------------------------------------------
(* capture(), with its messages *)

ReportPrints(t) ==
    /\ Report(t)
    /\ ~ok[t] \/ pc'[t] = "idle" => StderrFree(t)
    /\ UNCHANGED failed

OpenBrowserPrints(t) ==
    /\ OpenBrowser(t)
    /\ viewer[cur[t]] = "SnapshotOnly" \/ ~ok[t] => StderrFree(t)
    /\ \E fails \in {FALSE} \cup (IF "browser" \in Faults THEN {TRUE} ELSE {}) :
          failed' = [failed EXCEPT ![t] = fails]

CloseViewerPrints(t) ==
    /\ CloseViewer(t)
    /\ failed[t] => StderrFree(t)
    /\ failed' = [failed EXCEPT ![t] = FALSE]

Silent(t) ==
    \/ LockCaptures(t) \/ Push(t) \/ Render(t)
    \/ WriteTemp(t) \/ Rename(t) \/ Truncate(t) \/ FallbackWrite(t)
    \/ AlreadyStarted(t) \/ LockViewer(t)
    \/ StartServer(t) \/ SetEndpoint(t) \/ Relock(t)

Captures(t) ==
    /\ \/ ReportPrints(t) \/ OpenBrowserPrints(t) \/ CloseViewerPrints(t)
       \/ Silent(t) /\ UNCHANGED failed
    /\ UNCHANGED <<errLock, stack, called>>

(* The capture has returned, so the macro does. *)
Returns(t) ==
    /\ In(t, "append")
    /\ Ends(t)
    /\ UNCHANGED <<vars, errLock, called, failed>>

-----------------------------------------------------------------------------
(* diagram(): export, write a file of its own, then say where it is or open it.
   Every failure is reported and the call returns. *)

ExportsAlone(t) ==
    /\ Moves(t, "alone", "write")
    /\ UNCHANGED <<vars, errLock, called, failed>>

WritesDiagram(t) ==
    /\ \/ Moves(t, "write", "tell")
       \/ In(t, "write") /\ ("write" \in Faults) /\ StderrFree(t) /\ Ends(t)
    /\ UNCHANGED <<vars, errLock, called, failed>>

TellsDiagram(t) ==
    /\ In(t, "tell")
    /\ (FALSE \in NoOpen) \/ StderrFree(t)
    /\ Ends(t)
    /\ UNCHANGED <<vars, errLock, called, failed>>

-----------------------------------------------------------------------------
(* A message that cannot be written panics; unwinding ends the thread's calls
   and gives back the stderr lock of a print in progress. *)
Panics(t) ==
    /\ "stderr" \in Faults
    /\ \/ Panic(t) /\ (pc[t] = "close" => failed[t])
       \/ /\ \E step \in {"format", "write", "tell"} : In(t, step)
          /\ pc' = [pc EXCEPT ![t] = "panicked"]
          /\ UNCHANGED <<shared, serving, history, locals>>
    /\ stack' = [stack EXCEPT ![t] = << >>]
    /\ errLock' = IF errLock = t THEN NoThread ELSE errLock
    /\ UNCHANGED <<called, failed>>

Works(t) ==
    \/ Formats(t) \/ Printed(t) \/ Exports(t) \/ Captures(t) \/ Returns(t)
    \/ ExportsAlone(t) \/ WritesDiagram(t) \/ TellsDiagram(t)
    \/ Panics(t)

(* The server thread prints too when a client stays silent. *)
ServerWorks(s) ==
    /\ \/ LockAndServe(s) \/ FinishResponse(s)
       \/ (errLock = NoThread) /\ ReadTimeout(s)
    /\ UNCHANGED caller

Connects(s) == Accept(s) /\ UNCHANGED caller

NextProgram ==
    \/ \E t \in Threads : Works(t)
    \/ \E t \in Threads, s \in Sessions, first \in {"eprint", "export", "alone"} :
          Calling(t, s, first)
    \/ \E s \in Sessions : ServerWorks(s) \/ Connects(s)

SpecProgram == InitProgram /\ [][NextProgram]_programVars

(* A thread that can go on again and again does: it runs, and neither mutex nor
   the stderr lock starves it (strong fairness).  User code need not call. *)
FairSpecProgram ==
    /\ SpecProgram
    /\ \A t \in Threads : SF_programVars(Works(t))
    /\ \A s \in Sessions : SF_programVars(ServerWorks(s))

-----------------------------------------------------------------------------
(* "dbg!(x) always returns x regardless of whether the diagram step succeeded",
   also when Serialize or Debug of x calls dbg! itself, several threads do, and
   stderr is contended: every call of the crate returns, or panics because
   stderr cannot be written.  The locks are stderr, viewer, captures. *)
DbgReturns == \A t \in Threads : stack[t] # << >> ~> stack[t] = << >>
=============================================================================
