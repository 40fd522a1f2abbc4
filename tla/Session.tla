------------------------------ MODULE Session ------------------------------
(***************************************************************************)
(* ViewerSession (src/session.rs): the append-only capture log behind      *)
(* dbg! / dbg_in!, its HTML snapshot on disk, and the lazily started       *)
(* loopback server and browser.                                            *)
(*                                                                         *)
(* Program threads call capture(); one "spytial-viewer" thread per started *)
(* session answers HTTP requests.  Two mutexes order them: viewer (held    *)
(* for the whole start-up) and captures (held to number, push, render and  *)
(* write the snapshot, and by the server while it writes a response).      *)
(* Serializing the user's value happens before any lock is taken, so it is *)
(* part of Capture.                                                        *)
(***************************************************************************)
EXTENDS Naturals, Sequences

CONSTANTS
    Threads,            \* program threads that call capture()
    Sessions,           \* ViewerSession values (clones share one)
    Paths,              \* snapshot files
    PathOf,             \* Sessions -> Paths: output_path, fixed at creation
    CapturesPerThread,  \* bound on the calls one thread makes
    NoOpen,             \* what no_open() may answer: a subset of BOOLEAN
    Faults,             \* what may fail, a subset of FaultKinds
    Requests,           \* what HTTP clients send, a subset of RequestKinds
    Viewer,             \* lock holder: the session's server thread
    NoThread            \* lock holder: nobody

FaultKinds == {"write", "rename", "bind", "browser", "stderr"}
RequestKinds == {"captures", "other", "silent"}

ASSUME ThreadsAssumption == {Viewer, NoThread} \cap Threads = {} /\ Viewer # NoThread
ASSUME PathsAssumption == PathOf \in [Sessions -> Paths]
ASSUME BoundsAssumption == CapturesPerThread \in Nat
ASSUME EnvironmentAssumption ==
    /\ NoOpen \subseteq BOOLEAN
    /\ Faults \subseteq FaultKinds
    /\ Requests \subseteq RequestKinds

VARIABLES
    captures,  \* [Sessions -> Seq(Capture)]: Mutex<Vec<Value>>
    capLock,   \* [Sessions -> holder of the captures mutex]
    viewer,    \* [Sessions -> ViewerState]
    viewLock,  \* [Sessions -> holder of the viewer mutex]
    endpoint,  \* [Sessions -> BOOLEAN]: capture_endpoint is set
    file,      \* [Paths -> what the snapshot file holds]
    server,    \* [Sessions -> where the server thread is]
    served,    \* [Sessions -> captures of the last response rendered]
    starts,    \* [Sessions -> calls of start_server]
    opens,     \* [Sessions -> calls of open_browser]
    opened,    \* [Sessions -> what the browser was last asked to open]
    pc,        \* [Threads -> position in capture()]
    cur,       \* [Threads -> session of the current call]
    made,      \* [Threads -> calls begun]
    number,    \* [Threads -> local `sequence`]
    html,      \* [Threads -> local `html`]
    ok         \* [Threads -> write_result.is_ok()]

shared == <<captures, capLock, viewer, viewLock, endpoint, file>>
serving == <<server, served>>
history == <<starts, opens, opened>>
locals == <<cur, made, number, html, ok>>
vars == <<shared, serving, history, pc, locals>>

Capture == [sequence: Nat, by: Threads, nth: Nat]
Page == [kind: {"page"}, session: Sessions, captures: Seq(Capture), live: BOOLEAN]
Absent == [kind |-> "absent"]
Torn == [kind |-> "torn"]     \* truncated, not (completely) rewritten

Steps == {"idle", "append", "push", "render", "temp", "rename", "truncate",
          "fallback", "report", "ensure", "start", "endpoint", "relock",
          "open", "close", "panicked"}
Writing == {"render", "temp", "rename", "truncate", "fallback"}
StartingUp == {"start", "endpoint", "relock", "open", "close"}

(* Mutants.  An operator named for a mistake is that mistake made in the
   definition that follows it; PROJECT.json pairs each with the property that
   notices it.  No action uses them. *)

RenderHtmlTooEarly(s) ==   \* live as soon as somebody is starting the viewer
    [kind |-> "page", session |-> s, captures |-> captures[s],
     live |-> viewLock[s] # NoThread]

(* render_session_html: all captures, and the endpoint if it is set. *)
RenderHtml(s) ==
    [kind |-> "page", session |-> s, captures |-> captures[s], live |-> endpoint[s]]

Init ==
    /\ captures = [s \in Sessions |-> << >>]
    /\ capLock = [s \in Sessions |-> NoThread]
    /\ viewer = [s \in Sessions |-> "NotStarted"]
    /\ viewLock = [s \in Sessions |-> NoThread]
    /\ endpoint = [s \in Sessions |-> FALSE]
    /\ file = [p \in Paths |-> Absent]
    /\ server = [s \in Sessions |-> "off"]
    /\ served = [s \in Sessions |-> << >>]
    /\ starts = [s \in Sessions |-> 0]
    /\ opens = [s \in Sessions |-> 0]
    /\ opened = [s \in Sessions |-> "nothing"]
    /\ pc = [t \in Threads |-> "idle"]
    /\ cur \in [Threads -> Sessions]
    /\ made = [t \in Threads |-> 0]
    /\ number = [t \in Threads |-> 0]
    /\ html = [t \in Threads |-> Absent]
    /\ ok = [t \in Threads |-> TRUE]

Goto(t, from, to) == pc[t] = from /\ pc' = [pc EXCEPT ![t] = to]

-----------------------------------------------------------------------------
(* capture() and append(): number, push and render under the captures lock. *)

(* capture(): export the value, read nothing shared. *)
BeginCapture(t, s) ==
    /\ made[t] < CapturesPerThread
    /\ Goto(t, "idle", "append")
    /\ cur' = [cur EXCEPT ![t] = s]
    /\ made' = [made EXCEPT ![t] = @ + 1]
    /\ UNCHANGED <<shared, serving, history, number, html, ok>>

LockCapturesUnguarded(t) ==   \* the length is read before the guard is taken
    /\ Goto(t, "append", "push")
    /\ capLock' = [capLock EXCEPT ![cur[t]] = t]
    /\ number' = [number EXCEPT ![t] = Len(captures[cur[t]]) + 1]
    /\ UNCHANGED <<captures, viewer, viewLock, endpoint, file, serving, history,
                   cur, made, html, ok>>

LockCapturesOffByOne(t) ==    \* captures.len() - 1
    /\ capLock[cur[t]] = NoThread
    /\ Goto(t, "append", "push")
    /\ capLock' = [capLock EXCEPT ![cur[t]] = t]
    /\ number' = [number EXCEPT ![t] = Len(captures[cur[t]]) - 1]
    /\ UNCHANGED <<captures, viewer, viewLock, endpoint, file, serving, history,
                   cur, made, html, ok>>

(* lock_or_recover(&captures); sequence = captures.len() + 1 *)
LockCaptures(t) ==
    LET s == cur[t] IN
    /\ capLock[s] = NoThread
    /\ Goto(t, "append", "push")
    /\ capLock' = [capLock EXCEPT ![s] = t]
    /\ number' = [number EXCEPT ![t] = Len(captures[s]) + 1]
    /\ UNCHANGED <<captures, viewer, viewLock, endpoint, file, serving, history,
                   cur, made, html, ok>>

(* capture["sequence"] = sequence; captures.push(capture) *)
Push(t) ==
    LET s == cur[t] IN
    /\ Goto(t, "push", "render")
    /\ captures' = [captures EXCEPT ![s] =
           Append(@, [sequence |-> number[t], by |-> t, nth |-> made[t]])]
    /\ UNCHANGED <<capLock, viewer, viewLock, endpoint, file, serving, history, locals>>

(* capture_endpoint.get(); render_session_html *)
Render(t) ==
    /\ Goto(t, "render", "temp")
    /\ html' = [html EXCEPT ![t] = RenderHtml(cur[t])]
    /\ UNCHANGED <<shared, serving, history, cur, made, number, ok>>

-----------------------------------------------------------------------------
(* write_snapshot().  It ends by dropping the captures guard; the caller is
   append(), or the start-up closure when t also holds the viewer lock. *)

WriteEndsRetrying(t, result) ==   \* a failed write starts append() over
    /\ ok' = [ok EXCEPT ![t] = result]
    /\ capLock' = [capLock EXCEPT ![cur[t]] = NoThread]
    /\ pc' = [pc EXCEPT ![t] = IF viewLock[cur[t]] = t THEN "open"
                               ELSE IF result THEN "report" ELSE "append"]
    /\ UNCHANGED <<captures, viewer, viewLock, endpoint, serving, history,
                   cur, made, number, html>>

WriteEnds(t, result) ==
    /\ ok' = [ok EXCEPT ![t] = result]
    /\ capLock' = [capLock EXCEPT ![cur[t]] = NoThread]
    /\ pc' = [pc EXCEPT ![t] = IF viewLock[cur[t]] = t THEN "open" ELSE "report"]
    /\ UNCHANGED <<captures, viewer, viewLock, endpoint, serving, history,
                   cur, made, number, html>>

WriteTempUnlocked(t) ==   \* the guard is dropped before the rename
    /\ Goto(t, "temp", "rename")
    /\ capLock' = [capLock EXCEPT ![cur[t]] = NoThread]
    /\ UNCHANGED <<captures, viewer, viewLock, endpoint, file, serving, history, locals>>

(* fs::write(&temporary)?  The temporary has a name of its own: nobody reads it. *)
WriteTemp(t) ==
    \/ /\ Goto(t, "temp", "rename")
       /\ UNCHANGED <<shared, serving, history, locals>>
    \/ /\ pc[t] = "temp" /\ "write" \in Faults
       /\ WriteEnds(t, FALSE)
       /\ UNCHANGED file

(* fs::rename replaces the snapshot at once, or fails. *)
Rename(t) ==
    \/ /\ pc[t] = "rename"
       /\ file' = [file EXCEPT ![PathOf[cur[t]]] = html[t]]
       /\ WriteEnds(t, TRUE)
    \/ /\ "rename" \in Faults
       /\ Goto(t, "rename", "truncate")
       /\ UNCHANGED <<shared, serving, history, locals>>

(* The fallback fs::write(path): open with truncation ... *)
Truncate(t) ==
    \/ /\ Goto(t, "truncate", "fallback")
       /\ file' = [file EXCEPT ![PathOf[cur[t]]] = Torn]
       /\ UNCHANGED <<captures, capLock, viewer, viewLock, endpoint, serving,
                      history, locals>>
    \/ /\ pc[t] = "truncate" /\ "write" \in Faults
       /\ WriteEnds(t, FALSE)
       /\ UNCHANGED file

(* ... then write the page. *)
FallbackWrite(t) ==
    /\ pc[t] = "fallback"
    /\ \/ /\ file' = [file EXCEPT ![PathOf[cur[t]]] = html[t]]
          /\ WriteEnds(t, TRUE)
       \/ /\ "write" \in Faults
          /\ file' = [file EXCEPT ![PathOf[cur[t]]] = Torn]
          /\ WriteEnds(t, FALSE)

(* Outside the lock: report an error, read no_open(), return or go on. *)
Report(t) ==
    /\ \E noOpen \in NoOpen : Goto(t, "report", IF noOpen THEN "idle" ELSE "ensure")
    /\ UNCHANGED <<shared, serving, history, locals>>

-----------------------------------------------------------------------------
(* ensure_viewer_started(): everything below holds the viewer lock. *)

ViewerLockIgnored(t) == TRUE  \* the state is read without the lock

ViewerLockFree(t) == viewLock[cur[t]] = NoThread

(* *state != NotStarted: return, dropping the guard. *)
AlreadyStarted(t) ==
    /\ ViewerLockFree(t)
    /\ viewer[cur[t]] # "NotStarted"
    /\ Goto(t, "ensure", "idle")
    /\ UNCHANGED <<shared, serving, history, locals>>

LockViewer(t) ==
    /\ ViewerLockFree(t)
    /\ viewer[cur[t]] = "NotStarted"
    /\ Goto(t, "ensure", "start")
    /\ viewLock' = [viewLock EXCEPT ![cur[t]] = t]
    /\ UNCHANGED <<captures, capLock, viewer, endpoint, file, serving, history, locals>>

StartServerRetried(t) ==      \* a failed start leaves NotStarted
    LET s == cur[t] IN
    /\ starts' = [starts EXCEPT ![s] = @ + 1]
    /\ \/ /\ Goto(t, "start", "endpoint")
          /\ server' = [server EXCEPT ![s] = "accept"]
       \/ /\ "bind" \in Faults
          /\ Goto(t, "start", "open")
          /\ UNCHANGED server
    /\ UNCHANGED <<captures, capLock, viewer, viewLock, endpoint, file, served,
                   opens, opened, locals>>

(* start_server(): bind, spawn "spytial-viewer", or fall back to the snapshot. *)
StartServer(t) ==
    LET s == cur[t] IN
    /\ starts' = [starts EXCEPT ![s] = @ + 1]
    /\ \/ /\ Goto(t, "start", "endpoint")
          /\ server' = [server EXCEPT ![s] = "accept"]
          /\ UNCHANGED viewer
       \/ /\ "bind" \in Faults
          /\ Goto(t, "start", "open")
          /\ viewer' = [viewer EXCEPT ![s] = "SnapshotOnly"]
          /\ UNCHANGED server
    /\ UNCHANGED <<captures, capLock, viewLock, endpoint, file, served, opens,
                   opened, locals>>

SetEndpointOnly(t) ==         \* the page is not rendered again
    LET s == cur[t] IN
    /\ Goto(t, "endpoint", "open")
    /\ endpoint' = [endpoint EXCEPT ![s] = TRUE]
    /\ viewer' = [viewer EXCEPT ![s] = "Started"]
    /\ UNCHANGED <<captures, capLock, viewLock, file, serving, history, locals>>

(* capture_endpoint.set(..); *state = Started *)
SetEndpoint(t) ==
    LET s == cur[t] IN
    /\ Goto(t, "endpoint", "relock")
    /\ endpoint' = [endpoint EXCEPT ![s] = TRUE]
    /\ viewer' = [viewer EXCEPT ![s] = "Started"]
    /\ UNCHANGED <<captures, capLock, viewLock, file, serving, history, locals>>

(* The closure takes the captures lock again to add live updates to the page. *)
Relock(t) ==
    LET s == cur[t] IN
    /\ capLock[s] = NoThread
    /\ Goto(t, "relock", "render")
    /\ capLock' = [capLock EXCEPT ![s] = t]
    /\ UNCHANGED <<captures, viewer, viewLock, endpoint, file, serving, history, locals>>

(* open_browser(): the snapshot, or the URL when it could not be made live. *)
OpenBrowser(t) ==
    LET s == cur[t] IN
    /\ Goto(t, "open", "close")
    /\ opens' = [opens EXCEPT ![s] = @ + 1]
    /\ opened' = [opened EXCEPT ![s] =
           IF viewer[s] = "Started" /\ ~ok[t] THEN "url" ELSE "file"]
    /\ UNCHANGED <<shared, serving, starts, locals>>

(* The guard is dropped and the capture returns. *)
CloseViewer(t) ==
    /\ Goto(t, "close", "idle")
    /\ viewLock' = [viewLock EXCEPT ![cur[t]] = NoThread]
    /\ UNCHANGED <<captures, capLock, viewer, endpoint, file, serving, history, locals>>

(* eprintln! panics when stderr cannot be written: after a failed snapshot or a
   headless capture (no lock held), after a start-up failure and before the
   browser, or after the browser failed to open (viewer lock held).  Unwinding
   drops the guard; lock_or_recover lets the next thread in although the mutex
   is poisoned. *)
Panic(t) ==
    /\ "stderr" \in Faults
    /\ \/ pc[t] = "report" /\ (~ok[t] \/ TRUE \in NoOpen)
       \/ pc[t] = "open" /\ (viewer[cur[t]] = "SnapshotOnly" \/ ~ok[t])
       \/ pc[t] = "close" /\ "browser" \in Faults
    /\ pc' = [pc EXCEPT ![t] = "panicked"]
    /\ viewLock' = [viewLock EXCEPT ![cur[t]] = IF @ = t THEN NoThread ELSE @]
    /\ UNCHANGED <<captures, capLock, viewer, endpoint, file, serving, history, locals>>

-----------------------------------------------------------------------------
(* The server thread: one connection at a time. *)

(* accept and read a request: the page or the capture list ("captures"),
   anything answered from constants ("other"), or nothing ("silent"). *)
Accept(s) ==
    /\ server[s] = "accept"
    /\ \E request \in Requests : server' = [server EXCEPT ![s] = request]
    /\ UNCHANGED <<shared, served, history, pc, locals>>

ServeUnlocked(s) ==           \* the guard is dropped before write_response
    /\ server[s] = "captures"
    /\ capLock[s] = NoThread
    /\ served' = [served EXCEPT ![s] = captures[s]]
    /\ server' = [server EXCEPT ![s] = "write"]
    /\ UNCHANGED <<shared, history, pc, locals>>

(* The guard taken to render the body lives until the response is written. *)
LockAndServe(s) ==
    /\ server[s] = "captures"
    /\ capLock[s] = NoThread
    /\ capLock' = [capLock EXCEPT ![s] = Viewer]
    /\ served' = [served EXCEPT ![s] = captures[s]]
    /\ server' = [server EXCEPT ![s] = "write"]
    /\ UNCHANGED <<captures, viewer, viewLock, endpoint, file, history, pc, locals>>

(* write_response(): returns when the client has read it or hung up. *)
FinishResponse(s) ==
    /\ server[s] \in {"write", "other"}
    /\ capLock' = [capLock EXCEPT ![s] = IF server[s] = "write" THEN NoThread ELSE @]
    /\ server' = [server EXCEPT ![s] = "accept"]
    /\ UNCHANGED <<captures, viewer, viewLock, endpoint, file, served, history, pc, locals>>

(* The read times out after two seconds; reporting it may panic, which ends
   the server thread. *)
ReadTimeout(s) ==
    /\ server[s] = "silent"
    /\ \E next \in {"accept"} \cup (IF "stderr" \in Faults THEN {"dead"} ELSE {}) :
           server' = [server EXCEPT ![s] = next]
    /\ UNCHANGED <<shared, served, history, pc, locals>>

-----------------------------------------------------------------------------
ThreadStep(t) ==
    \/ LockCaptures(t) \/ Push(t) \/ Render(t)
    \/ WriteTemp(t) \/ Rename(t) \/ Truncate(t) \/ FallbackWrite(t)
    \/ Report(t)
    \/ AlreadyStarted(t) \/ LockViewer(t)
    \/ StartServer(t) \/ SetEndpoint(t) \/ Relock(t)
    \/ OpenBrowser(t) \/ CloseViewer(t)
    \/ Panic(t)

ServerStep(s) == LockAndServe(s) \/ FinishResponse(s) \/ ReadTimeout(s)

Finished == \A t \in Threads : \/ pc[t] = "panicked"
                               \/ pc[t] = "idle" /\ made[t] = CapturesPerThread

Next ==
    \/ \E t \in Threads : ThreadStep(t) \/ \E s \in Sessions : BeginCapture(t, s)
    \/ \E s \in Sessions : Accept(s) \/ ServerStep(s)
    \/ Finished /\ UNCHANGED vars     \* nothing left to capture

Spec == Init /\ [][Next]_vars

-----------------------------------------------------------------------------
TypeOK ==
    /\ captures \in [Sessions -> Seq(Capture)]
    /\ capLock \in [Sessions -> Threads \cup {Viewer, NoThread}]
    /\ viewer \in [Sessions -> {"NotStarted", "Started", "SnapshotOnly"}]
    /\ viewLock \in [Sessions -> Threads \cup {NoThread}]
    /\ endpoint \in [Sessions -> BOOLEAN]
    /\ file \in [Paths -> Page \cup {Absent, Torn}]
    /\ server \in [Sessions -> {"off", "accept", "write", "dead"} \cup RequestKinds]
    /\ served \in [Sessions -> Seq(Capture)]
    /\ starts \in [Sessions -> Nat]
    /\ opens \in [Sessions -> Nat]
    /\ opened \in [Sessions -> {"nothing", "file", "url"}]
    /\ pc \in [Threads -> Steps]
    /\ cur \in [Threads -> Sessions]
    /\ made \in [Threads -> Nat]
    /\ number \in [Threads -> Nat]
    /\ html \in [Threads -> Page \cup {Absent}]
    /\ ok \in [Threads -> BOOLEAN]

(* What the captures mutex is for: a thread between taking and dropping the
   guard is its holder, so nobody else numbers, pushes, renders or writes. *)
CapturesLockHeld ==
    \A s \in Sessions :
        /\ \A t \in Threads :
              capLock[s] = t <=> cur[t] = s /\ pc[t] \in {"push"} \cup Writing
        /\ capLock[s] = Viewer <=> server[s] = "write"

ViewerLockHeld ==
    \A s \in Sessions, t \in Threads :
        /\ viewLock[s] = t => cur[t] = s /\ pc[t] \in StartingUp \cup Writing
        /\ cur[t] = s /\ pc[t] \in StartingUp => viewLock[s] = t

-----------------------------------------------------------------------------
(* The capture log. *)

(* Captures are numbered 1, 2, 3 ... in log order, however the calls of several
   threads interleave (append(): sequence = len + 1). *)
Numbered == \A s \in Sessions : \A i \in 1 .. Len(captures[s]) :
                captures[s][i].sequence = i

IsPrefixOf(a, b) == Len(a) <= Len(b) /\ \A i \in 1 .. Len(a) : a[i] = b[i]

-----------------------------------------------------------------------------
(* The snapshot file.  Two sessions created while SPYTIAL_OUTPUT_PATH is set
   share it; and where fs::rename cannot replace a file ("Windows cannot
   atomically replace an existing destination") a write may tear it. *)

Holds(p, s) == file[p].kind = "page" /\ file[p].session = s

(* Whenever the process dies, a complete page in the file shows a prefix of its
   session's log, never a capture that was not made, and it polls an endpoint
   only if that session's server was started. *)
SnapshotIsPrefix ==
    \A p \in Paths, s \in Sessions :
        Holds(p, s) => /\ PathOf[s] = p
                       /\ IsPrefixOf(file[p].captures, captures[s])
                       /\ file[p].live => endpoint[s] /\ server[s] # "off"

(* When the write of the last capture of a session succeeded, and the session
   has its path to itself, the file is up to date whenever no thread is between
   push and rename: no other append or start-up can have put an older page.
   (The start-up's own rewrite may tear it where fs::rename fails.) *)
SnapshotIsCurrent ==
    \A s \in Sessions :
        LET last == captures[s][Len(captures[s])] IN
        /\ \A r \in Sessions \ {s} : PathOf[r] # PathOf[s]
        /\ capLock[s] \in {NoThread, Viewer}
        /\ captures[s] # << >>
        /\ made[last.by] = last.nth /\ ok[last.by]
        => \/ Holds(PathOf[s], s) /\ file[PathOf[s]].captures = captures[s]
           \/ file[PathOf[s]] = Torn /\ "rename" \in Faults

(* A page is only ever replaced, for the same session, by one that shows at
   least as many captures and is live if the old one was: two writers never
   finish in the wrong order. *)
SnapshotNeverRegresses ==
    [][\A p \in Paths, s \in Sessions :
          Holds(p, s) /\ Holds(p, s)' =>
              /\ IsPrefixOf(file[p].captures, file'[p].captures)
              /\ file[p].live => file'[p].live]_vars

-----------------------------------------------------------------------------
(* The viewer. *)

(* "Each session starts its browser and loopback transport at most once", with
   threads racing to be first and with panics in the middle of the start-up. *)
StartedAtMostOnce == \A s \in Sessions : starts[s] <= 1 /\ opens[s] <= 1

(* A snapshot the browser was sent to, with a server running, polls that server:
   no append that rendered before the endpoint was set can overwrite the live
   page (the closure renders again under the captures lock). *)
OpenedSnapshotIsLive ==
    \A s \in Sessions :
        opened[s] = "file" /\ viewer[s] = "Started" /\ Holds(PathOf[s], s)
            => file[PathOf[s]].live

(* A response shows the log as it is while it is being written: the guard is
   held until write_response returns. *)
ResponseIsCurrent ==
    \A s \in Sessions : server[s] = "write" => served[s] = captures[s]

(* A capture that is not headless returns only after the browser was asked to
   open, also when another thread does it, unless that thread panics. *)
ReturnsAfterOpening ==
    [][\A t \in Threads :
          pc[t] = "ensure" /\ pc'[t] = "idle"
              => opens[cur[t]] = 1 \/ \E u \in Threads : pc[u] = "panicked"]_vars

(* A capture that is not headless gets its session a viewer, live or not. *)
ViewerStarts ==
    \A t \in Threads, s \in Sessions :
        pc[t] = "ensure" /\ cur[t] = s ~> viewer[s] # "NotStarted"
=============================================================================
