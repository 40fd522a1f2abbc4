# TLA+ models of spytial

`spytial` turns a Rust value into a relational instance, attaches the layout
rules a derive macro collected for its types, and shows both in a browser: once
(`diagram`) or as a growing session of captures (`dbg!`, `dbg_in!`). This
directory specifies the parts of it that have state, concurrency or a contract;
TLC checks them on small instances and TLAPS proves their main invariants.

1. [Inventory](#1-inventory) of the system
2. [Modules](#2-modules) and how they correspond to the code
3. [Runs](#3-runs), bounds and fairness
4. [Proofs](#4-proofs)
5. [Where the code and its documents disagree](#5-where-the-code-and-its-documents-disagree)
6. [What is left out](#6-what-is-left-out)
7. [Plan](#7-plan)

## 1. Inventory

| Component | Source | State it keeps | Operations | What is hard about it | What makes it correct |
|---|---|---|---|---|---|
| Viewer sessions | `src/session.rs` | `captures` and `viewer` (mutexes), `capture_endpoint` (`OnceLock`), the snapshot file | `capture`/`append`, `write_snapshot`, `ensure_viewer_started` | threads race for two locks; writes, renames, binds and browsers fail; `eprintln!` panics under a lock | numbers are positions; no capture lost or doubled; the file only moves forward; viewer started once; no deadlock |
| Session server | `src/session.rs` | one thread, one connection | `handle_connection`, `write_response` | the captures guard is held while a client reads | a response is one moment of the log; a stalled client is timed out while it is read from |
| Viewer page | `templates/session.html` | list, selection, follow flag, render loop | poll, click, load, render | polls overlap, fail, overtake; renders coalesce, fail and leave the old graph; Reset draws beside the queue | an idle page shows the selection's graph or says why not; the page catches up |
| Decorator registration | `macros/src/lib.rs` (expansion), `spytial_annotations/runtime.rs` | `TYPE_REGISTRY`, a `Once` per derive, link-time table | `decorators()`, `register_type_decorators`, lookups by root type and by serialized name | calls nest inside a `Once`; unqualified names are shared | every call returns the transitive rules; what is collected depends on the value alone |
| Attribute macro | `macros/src/lib.rs`, `macros/src/spec_tables.rs` | none between attributes | text scanners, checks, defaults, expansion, warnings | values are found by scanning printed tokens: quotes, groups and selectors that look like keys | refuses exactly what is invalid; a rule says what is written |
| Annotation builder | `spytial_annotations/runtime.rs` | two rule lists, the last push | one method per attribute, `source`, `extend_with`, `extend_unique` | `source` stamps whatever was pushed last | each rule cites its attribute; a merged rule occurs once |
| Export | `src/export.rs`, `src/jsondata.rs` | atoms, relation records, the value cache | serde's `Serializer` callbacks | interning; `Some(x)` is `x`; records shared by variants | equal values share, composites do not; headers describe their tuples; ids do not collide |
| Reify | `src/reify.rs` | an index of an instance | `find_root`, the `Deserializer` | ambiguity of what was exported | reading back gives the value |
| Program: `dbg!`, `dbg_in!`, `diagram` | `src/lib.rs` | the default session, a file per diagram; std's stderr lock | print, then capture or write | user `Debug` and `Serialize` run inside, and may call `dbg!` again with locks held | the call returns whatever failed; a viewer is started |
| Spec code generation | `spec-codegen/`, `macros/src/spec_tables.rs`, `templates/vendor/spytial-language.json` | the manifest, the checked-in tables and reference | `generate`, `generate_reference`, two writes, the drift tests | policy tables written for one release meet the next; two generators of one truth; a run cut short | when the tests pass, the tables and the reference describe the vendored language |
| Demo server | `src/bin/viz_server.rs` | none | a sequential loop serving two pages | a client that never sends | - |
| Evaluation corpus, docs, examples, vendored viewer core | `eval-corpus/`, `docs/`, `templates/vendor/` | - | - | - | - |

How they interact. A derived type's attributes are read by the macro, which
generates `decorators()`; that builds the type's rules with the builder, pulls in
its field types' rules, and registers them. `dbg!` exports the value (`Export`),
during which the serializer's callbacks look up the rules of the types they meet
(`Decorators`) and merge them (`ExtendUnique` in `Attributes`). The result is a
capture: a session numbers it, appends it, renders all captures to its snapshot
file and, on the first capture that is not headless, starts a server thread and
a browser (`Session`). The browser runs the page's script (`ViewerPage`), which
polls that server for later captures (`SessionPage` composes the two). `dbg!`
prints with stderr locked before it captures, and a capture reports its failures
to stderr, some of them under the viewer lock (`Program`). What keys and values
the macro accepts comes from tables generated from the viewer's language manifest
(`SpecCodegen`). Reify reads an exported instance back.

## 2. Modules

Operators keep the names of the functions they model; PROJECT.json's `map`
gives their lines. A few operators are named for a mistake
(`LockCapturesUnguarded`, `RenderOnlyIfIdle`, ...). No action uses them: each is
the definition that follows it with a plausible bug in it, and `mutants` pairs it
with the property that notices the bug, as evidence that the property looks at
the code.

### Session, CaptureLog, SessionRefines (`src/session.rs`)

One variable per piece of shared state, a `pc` and the locals per program thread,
a position per server thread. Both mutexes are variables that hold their owner.
The steps of a capture, each up to the next point where another thread can see
or do something:

| Action | Code |
|---|---|
| `BeginCapture` | `capture()`: the export, before any lock |
| `LockCaptures`, `Push`, `Render` | `append()`: take the guard, number; push; read the endpoint and render |
| `WriteTemp`, `Rename`, `Truncate`, `FallbackWrite` | `write_snapshot()`: the temporary, the rename, and on failure the in-place write in its two effects |
| `Report` | drop the guard; headless or not; `eprintln!` of a failed write |
| `AlreadyStarted`, `LockViewer`, `StartServer`, `SetEndpoint`, `Relock`, `OpenBrowser`, `CloseViewer` | `ensure_viewer_started`: check under the viewer mutex, bind, publish the endpoint, render again under the captures mutex, open, set the state |
| `Panic` | a panicking `eprintln!`: guards are dropped, the mutex is poisoned, `lock_or_recover` makes that harmless |
| `Accept`, `LockAndServe`, `FinishResponse`, `ReadTimeout` | the server thread: read a request, take the guard and answer, return from `write_response`, give up on a silent client |

A capture is who made it and which of their calls it was (`sequence`, `by`,
`nth`); a rendered page is its session, the captures in it and whether it polls.
Which operation fails is an element of `Faults`. A crash of the whole program
needs no action: nothing but the file survives it, so what holds of the file in
every intermediate state is what a crash leaves.

`CaptureLog` is what a session promises, without locks, files or server: each
call is recorded at one moment between its invocation and its return, the
snapshot shows a whole log of some moment, and the browser is opened once per
session. `AtomicReplace` says whether files are replaced as a whole; where
`fs::rename` may fail they are not, and the snapshot may disappear (`Tear`).
`SessionRefines` instantiates it (log = the captures vector, shown = the page in
the session's file, recorded = pushed) and states `ImplementsLog`.

### ViewerPage (`templates/session.html`)

The script runs to its next `await` without interruption, so an action is one such
stretch: `Load`, `Click`, `Poll` (up to `fetch`), `Deliver` and `PollFails` (after
it), `RenderShows` and `RenderFails` (the end of `renderGraph` and one turn of the
render loop), `Reset` and `ResetSettles`. The program appears with `Capture`,
`Answer` and `Exit`, and gives the browser a page to `Open`: any list it had,
perhaps an old snapshot's, with an endpoint or without. Captures are numbered and
only appended (`Session!Numbered`), so a list is its length.

What is on screen is several variables, because `renderGraph` has several ends. `shown`
is the capture whose graph the core displays, `laidOut` the one whose layout the script
kept (`instanceLayout`), `told` the one whose failure the error message is about.
`RenderFails` stands for the missing core, an unsatisfiable layout and anything thrown:
a message, and the earlier graph stays. So that the page presents a capture (`OnDisplay`)
means that the message is about it or that there is no message and the graph and the
layout are its own; never that an earlier capture's graph stands there unexplained. The
Reset button calls `renderLayout` outside the queue, and of two calls in flight either
drawing may be the one that stays: `overlapped` says that the last rendering had such a
company, and only then is the displayed graph left open. The vendored core puts the last
call on top (`renderGeneration`), and its drawing is done within microtasks; the model
asks neither of it. Its `<webcola-cnd-graph>` has the `addToolbarControl` that the button
needs, another core need not (`HasToolbar`).

Polls in flight are a sequence in
the order of their `fetch`; they are answered in that order (one server thread)
but may be delivered in any other.

### SessionPage (`session.rs` with `session.html`)

`Session` and `ViewerPage` composed. `OpenFile` parses what the snapshot file holds
when the browser gets to it, or `AcceptPage` and `Serve` answer the URL; polls
wait in the order of their `fetch` for the one server thread, behind silent
clients and behind the captures guard. `Exit` ends the program anywhere. The
module instantiates `ViewerPage` with the session's log for its `log` and states
that the composition implements it (`ImplementsPage`): the page's properties,
proved or checked with an environment of three small actions, hold with the real
program in its place. A poll fails only when nobody listens any more, since
loopback loses nothing else.

### Program (`src/lib.rs`)

A thread is a stack of calls, since `Debug` and `Serialize` of the user run inside
`dbg!` and may call the crate. `Formats` and `Printed` hold std's reentrant stderr
lock while the value is formatted; `Exports` begins `Session`'s capture;
`ReportPrints`, `OpenBrowserPrints`, `CloseViewerPrints` and `ServerWorks` are
`Session`'s steps at which an `eprintln!` needs that lock; `ExportsAlone`,
`WritesDiagram` and `TellsDiagram` are a standalone diagram; `Panics` unwinds the
stack. `Nested` says which user code may call the crate.

### Decorators (`macros/src/lib.rs`, `spytial_annotations/runtime.rs`, `export.rs`)

A thread is a stack of calls. A call of `decorators()` passes the derive's `Once`
(`PassOnce`, blocking while another call is inside), probes its field types
(`Probe` pushes a call), registers under three keys one at a time (`Register`),
builds again and returns (`Built`, which also is `build()` of a link-time
registration). An export (`Export`, `ExportExcluding`) looks its root up and then
meets values (`Visit`), each looked up once per serialized name and only if that
name identifies one derive; `TryKey` is one acquisition of the registry's lock.
A derive's own attributes are one rule. The constants give the family of types:
their derives, short and serialized names, probed fields, and what their values
may contain.

### Export, Reify (`src/export.rs`, `src/reify.rs`)

The serializer does not see a value but the sequence of callbacks of its
`Serialize`; the actions are these callbacks, chosen by the type's forms, so a
behaviour builds a value while it exports it and every value within the bounds
is exported. `stack` is the recursion, `returned` the atom just returned,
`interned` the value cache, `trail` (a history variable) the constructors in
order. `Fail` is an error from a `Serialize` at any point. Labels and numbers are
names; only relation ids are spelled out, since they are joined with a dot and
escaped.

`Reify` defines `FindRoot`, the index, `Read` (what a type's `Deserialize` gets
from an atom) and `Describe` (what `deserialize_any` takes it for) as operators on
an exported instance. `RoundTrip` compares with `trail`.

### AttributeText, Attributes, AttributeMeaning (`macros/src/lib.rs`, `runtime.rs`)

`AttributeText` has the scanners on the printed text of an attribute: string
literals with escapes and raw ones, keys outside literals and at their depth,
groups, scalars, arrays. A text is a sequence of lexemes, a word being one of them:
where identifiers and numbers end and what white space is skipped is left to the
lexing; what is inside a literal or a group is not. `Attributes` reads the generated
tables (`SpecTables`) and has one `Parse...` operator per attribute, the deprecation
warnings, the quoted arguments, the builder's methods and `extend_unique`, and the
run of a type through them: `Expand` (one attribute) or `Refuse`, `FinishExpansion`
(the probes come last), `RunCall` (one builder call), `Build`, `Merge` (an export
meets the other types). Options are sets of at most one element, numbers are in
halves.

`AttributeMeaning` says what an attribute means on its syntax tree, without its
text: which keys are allowed where, which values, which defaults. The properties
compare the two. `Fields` and `Met`, the rules of other types, are constants.
`ReadAsMeant` says of each attribute of the catalogue, on its own, that it is read as
it is meant; it is a hypothesis of proofs.

### SpecTables, LanguageManifest, SpecCodegen (`spec-codegen/`)

`SpecTables` is `spec_tables.rs` as it is checked in and `LanguageManifest` the
vendored manifest; neither is derived from the other. `SpecCodegen` has the
policy tables, what `generate` makes of a manifest (`Tables`) and when it refuses
(`Generates`), what `generate_reference` makes of it (`Reference`), and the files
in time: `Vendor` (a release replaces the manifest), `WriteTables`,
`WriteReference` and `WriteFails` (the generator's two writes). The tests that CI
runs are predicates, `Green` their conjunction. The outputs are records: what
they say of each key, not their text. The two are made by different code. The tables take
each field's values and bounds as the manifest has them; a line of the reference
(`FieldLine`, for `field_line`) goes by the field's `type`: the values of an
enumeration, of a number an exclusive minimum of 0, a minimum, or a minimum with its
maximum. A field with values that is not an enumeration, or with a maximum alone, has a
rule that its line does not tell. So what is claimed of the reference has two halves:
no line says what is not so (`SaysNoOther`), and all is said where the types fit
(`SaysAll`, given `TypesFit`, which the vendored manifest satisfies). The lines of the
blocks are printed leaf by leaf, one for every leaf, where the tables pass over a key
that is there already. `attributes.md` starts as what
`generate_reference` makes of the vendored manifest, which its test checks on the
file. The vectors that the generator fills, passing over a key that is there
already, are `Merged`. `AsForeseen` collects what the policy tables take for granted
of a manifest without any test asking for it.

## 3. Runs

| Run | What it shows | Instance |
|---|---|---|
| `session_faults` | log, locks, file, start-up and responses are right under every fault and request; a session implements `CaptureLog` | 2 threads x 2 captures, 1 session, all faults, headless or not, three kinds of clients |
| `session_page` | to the page, the program is what `ViewerPage` says; every capture is shown in the end | 2 threads x 1 capture, failing writes, binds and stderr, silent clients, exit |
| `program` | every call returns or panics, and a viewer is started | 2 calls of one thread, one perhaps inside the other's `Serialize`, and 1 of a second; all faults but `rename` |
| `program_stderr` | *(violation)* a `Debug` that calls `dbg!` blocks with a failing start-up | 2 threads, `bind` may fail |
| `page_live` | what is presented, selection and list agree; the page catches up with the program | 3 captures, 3 polls in flight, renders that fail, one Reset at a time |
| `page_overtaken` | *(violation)* a late response shrinks the list | 3 captures, 2 polls |
| `decorators` | what is returned, registered and collected is exact | 2 threads, 5 types of 4 derives: shared short name, `serde(rename)`, generic |
| `decorators_renamed` | *(violation)* renamed types of one short name mix | 2 threads, 2 types |
| `decorators_recursive` | *(violation)* mutually recursive types block | 2 types |
| `export_reify` | instances are well formed and are read back | 22 types, 4 roots, 3 elements, depth 6 |
| `attributes` | rules say what is written; sources and merge | 50 attributes, every pair |
| `spec_codegen` | where the tests pass, tables and reference describe the vendored language | 29 changes, 2 releases, generator run, refused or cut short |

**Why these bounds.** Two threads and one lock pair give every interleaving that two
appends, or an append and a start-up, can have; two captures per thread are the
least with a program order and with an append that rendered before the endpoint was
set and writes after it. Sessions share nothing but a path (see section 6), so one
suffices. `session_page` needs one capture that opens the page and one that the page
learns of by polling, and one poll in flight, since overlap is `page_live`'s
subject. Its page has no toolbar, and so no Reset button: Resets would take the run
beyond any use, they touch nothing that the program sees, `page_live` has them, and
the theorems about the composition hold with them. Two calls of one thread give a
call inside another, and the second thread gives contention for each lock. Three
polls in flight allow an overtaken response behind another one; with three captures
the three have different lengths, so that a list can shrink twice, and a rendering,
a request and a Reset can be of three captures. The types of `decorators` include
one reached by two paths, one name shared by two, a rename, and a generic derive
that registers once for two types. The values of `export_reify` are those that have
caused ambiguity: nested options, options of newtypes of options, `NaN`, a number as
element, position and key, variants of every shape with fields named like the
relations of other shapes, names with dots and backslashes, and user types called
`None` and `Some`; the depth suffices for each root to nest them all. Attributes act
on one another only through the builder (order, the last push, the merge), which two
of them show; the variety is inside one attribute, and the catalogue has every
attribute, every default, every style block, each refusal, and selectors whose text
looks like keys, groups and unbalanced quotes. The changes of `spec_codegen` are one
or more of each kind: an item, field, block, leaf or alternative form comes or goes,
a vocabulary, type, default, bound, section, `hold` or discriminator changes, a
deprecation of each kind comes or goes. Two releases let a change meet another one,
as when `edgeStyle` is deprecated and `edgeColor` no longer is.

**Fairness.** Safety runs assume none. `program` and `session_page`: a thread that
can go on again and again does; that is strong fairness, which says that it runs
and that none of the mutexes or the stderr lock starves it. Likewise the server
thread. A response that is being written ends: the client reads it or hangs
up. The code has no write timeout, so with a client that does neither `DbgReturns`
does not hold, and no document says it does. The listener's queue is in order, so
the page's connection is accepted although others keep coming (`AcceptPage`).
`page_live`: the browser fires `load` and the interval and settles renders (weak);
while the program lives, not every request and not every response is lost
(strong). Users need not click, programs need not capture or exit.
`decorators`: each thread runs, and a value is finite.

**Deadlock** is checked wherever the system should go on. It is not in
`export_reify` and `attributes`, where a serialization and an expansion end, in
`program` and `program_stderr`, where threads have made their calls and then stop
(a thread that does not get that far is caught by `DbgReturns`), in `spec_codegen`, where
the generator may refuse the last release, and in `decorators_recursive`, whose
subject is a thread that waits for itself and which checks that as `CallsReturn`.

## 4. Proofs

`tlapm` proves these for any set of threads, sessions, paths, types and names and any
bounds, under the assumptions on constants that TLC evaluates in the runs
(`ThreadsAssumption`, `PathsAssumption`, `EnvironmentAssumption`, `BoundsAssumption`,
`ViewerPageAssumption`, `SessionPageAssumption`, `DecoratorsAssumption`,
`ExportAssumption`, `ProgramAssumption`, `ConstantsAreTyped`, `MaxReleasesIsNatural`,
`ChangesKeepVersion`) and the hypotheses in the last column. `CheckedInPasses` is of
another kind: it has no parameter, it says that the vendored manifest and the checked-in
tables pass the tests, and TLC's evaluation of it settles it.

| Module | Theorem | States | Given |
|---|---|---|---|
| `SessionProofs` | `TypeCorrect` | `TypeOK` | |
| | `CapturesLockExclusive` | `CapturesLockHeld` | |
| | `StartsAndOpensOnce` | `StartedAtMostOnce` | |
| | `LogIsNumbered` | `Numbered` | |
| | `SnapshotShowsPrefix` | `SnapshotIsPrefix` | |
| | `ResponsesAreCurrent` | `ResponseIsCurrent` | |
| | `SnapshotOrder` | `SnapshotNeverRegresses` | |
| | `SnapshotStaysCurrent` | `SnapshotIsCurrent` | |
| | `OpenedIsLive` | `OpenedSnapshotIsLive` | |
| | `ReturnsOnceOpened` | `ReturnsAfterOpening` | |
| | `SessionImplementsLog` | `ImplementsLog` | a path per session |
| `ProgramProofs` | `ProgramKeepsPromises` | the invariants of `SessionProofs`, of any program | |
| | `ProgramKeepsOrder` | `SnapshotNeverRegresses`, `ReturnsAfterOpening`, of any program | |
| | `ProgramImplementsLog` | `ImplementsLog`, of any program | a path per session |
| | `WaitsEnd` | no thread waits for itself (`NoCircularWait`) | `"format" \notin Nested` |
| | `StderrHeldWhileFormatting` | `StderrHeld` | |
| `PageProofs` | `PageTyped` | `TypeOK` | |
| | `GraphSettles` | `GraphSettlesOnSelection`, failing renders and Resets included | |
| | `FollowsLatest` | `FollowingSelectsLatest` | |
| | `UserSelectionKept` | `ResponseKeepsUserSelection` | |
| `SessionPageProofs` | `ProgramIsThePages` | `ImplementsPage` | finitely many threads |
| | `PageAgreesWithItself` | the last three of `PageProofs`, of the composition | finitely many threads |
| `DecoratorsProofs` | `CallsTyped` | `TypeOK` | |
| | `ReturnedRules` | `ReturnsFullSet` | |
| | `RegisteredWhenDone` | `RegisteredOnceDone` | |
| | `CollectedByValue` | `CollectedDependsOnValueOnly` | `Unambiguous`, `GenericsAlike` |
| `ExportProofs` | `TypeCorrect` | `TypeOK` | |
| | `EqualValuesAreOne` | `EqualValuesShare` | |
| | `PartsOfOne` | `PartOfOne` | |
| | `HeadersAlwaysDescribe` | `HeadersDescribe` | |
| | `RecordsAreApart` | `RecordsApart` | |
| `AttributesProofs` | `TypesRight` | `TypeOK` | |
| | `MergedRulesAreFirst` | `MergedOnce` | |
| | `RefusedIsInvalid` | `RefusesExactlyInvalid` | `ReadAsMeant` |
| | `WarnedHaveLists` | `WarnsOfDeprecatedLists` | `ReadAsMeant` |
| | `BuiltAsWritten` | `RulesSayWhatIsWritten` | `ReadAsMeant` |
| | `SourcesKept` | `SourcesPointHome` | `ReadAsMeant` |
| `SpecCodegenProofs` | `TablesDescribe` | `GreenTablesDescribe` | `KeysApart`, `LeavesApart`, `ShapesTold` |
| | `ReferenceAgrees` | `GreenReferenceAgrees`, whatever the fields' types | `SectionsGiven`, `KeysApart`, `LeavesApart`, `LegacyNeverHolds` |

The hypotheses are needed. Sessions that share a path overwrite each other's file, so no
log is shown as a whole. A page is a list's length, and only finitely many threads with
finitely many calls each bound it. Without `Unambiguous` (a serialized name that
identifies a derive goes with a Rust name that does) what is collected depends on what
ran before: that is the violation of `decorators_renamed`; `GenericsAlike` (a generic
derive's types have no rules but its own) excludes the same for types that share one
`Once` and one name. The types of the run `decorators`, a rename and a generic derive
among them, satisfy both. A `Debug` that calls the crate can wait for a thread that waits
for it: that is the violation of `program_stderr`. `ReadAsMeant` is about single
attributes, what the scanners make of one text, which nothing short of the texts decides;
the states of the run `attributes` with one attribute check it on the catalogue, and the
proofs carry it to any number of attributes, field types and types met. What the last
two theorems ask of a manifest holds of the vendored one (`CheckedInPasses`), and each
of the five is needed: two fields with one key, or a merged item's `hold`, would give
tables or a reference that say less than the manifest while every test passes. It is
what a reviewer of a re-vendoring has to look at.

*Sessions.* `StartedAtMostOnce` is not inductive: what keeps a second thread out of
`StartServer` is that the first holds the viewer mutex, and once it has let go, that the
state is no longer `NotStarted`. `LocksInv` adds both (`ViewerLockHeld`,
`StartUpOrder`), with `CapturesLockHeld` since the start-up writes the snapshot under
both locks. `LogInv` adds `Numbered` and `NumberIsNext`: a thread about to push has the
next number, which it does because no other thread can hold the guard. `SnapshotInv`
adds `PageIsFresh` (a page waiting to be written shows the whole log, as its writer
holds the guard) and `EndpointServed` (an endpoint that is set belongs to a server that
was started); then a page that reaches the file is a whole log, logs only grow, and the
file is a prefix. `SnapshotOrder` follows from the same invariant and from which steps
write the file: what replaces a page is torn or a fresh page, which extends what it
replaces.

That the snapshot is current between captures needs to know whose write counts.
`LastInv` says that the thread which made a log's last capture is past its push, if that
was its latest call (`LastCall`), and that an append still writing made the last capture
(`AppendIsLast`); a file is truncated only after a failed rename
(`FallbackAfterRename`). `CurrentInv` adds the property in an inductive form
(`FileIsCurrent`): the file is current as soon as no append is writing, rather than once
nobody holds the guard, because the start-up's second write replaces a current page by a
current one or tears it.

*The browser.* `ViewerInv` follows the order of the start-up: the endpoint is set when
the viewer is started (`EndpointOnceStarted`); from the moment the start-up has the
captures guard again, every page waiting to be written is live (`PagesLive`), because
one rendered before the endpoint was set was written under a guard that the start-up had
to wait for; so the file is live once it has been written (`FileLive`), and that is what
the browser is sent to. `OpensBeforeUnlock` says that the viewer mutex is held from the
change of state to the browser: whoever finds the viewer started finds it opened, unless
a thread panicked in between.

*The capture log.* `SessionImplementsLog` maps every step to a step of `CaptureLog` or a
stutter. `Push` records; the step that puts a page into the file publishes, and
`PageIsFresh` says it publishes the whole log; `LastWritten` and `OpenedOnceOpen` are
what the abstract returns and the abstract browser ask for; `HasRecorded`, that a call
past its push has a non-empty log, tells the mapped states apart.

*Programs.* What `Session` lets an idle thread do at any time, a thread of `Program` does
when its calls get there; every step of a program is a step of `Session`, or a panic of a
thread outside its captures, which no lock and no file notices (`ProgramSteps`,
`OutsideKeeps`). So the invariants carry over, once more with that panic among the steps.
`CallerInv` is about the stacks: a thread holds the stderr lock exactly while one of its
calls is formatting, and all its calls but the innermost run user code. With
`CapturesInCall` (a thread between a capture's steps has an append on top of its stack)
this orders the locks, viewer before stderr and captures: who holds one of the last two
waits for nobody, unless formatting can call the crate.

*The page.* The three invariants are almost inductive together. What is missing is
`OpenedWithCaptures` (a page is parsed with captures, and before that nothing is under
way), `UserSelectionExists` (the page stops following only when something is selected,
so a response that arrives then does not take the branch for an empty selection) and
`DrawnAlone`: a message is about a rendering that is over, and beside a rendering that
no Reset accompanied, a Reset can only be of the layout that is kept, so that it draws
what is displayed already. `LoopSettles` is the end of a rendering, however it ends;
`SelectionSettles` the request of one.

*Session and page.* `ProgramIsThePages` is the step simulation from the composition to
`ViewerPage`. Two facts about the program make it one. A page has at least one capture
and none that was not recorded (`SomethingRecorded`: whoever renders, writes, opens or
serves it does so after a push), else the page would not `Open` it. A call is in a log
at most once (`CallsOnce`), so calls map one to one to threads and ordinals, which
bounds the log by `Cardinality(Threads) * CapturesPerThread`, the bound that
`ViewerPage` is instantiated with. `PageAgreesWithItself` then transports the page's own
theorems, proved with an environment of three small actions, to the real program.

*Decorators.* `CallsInv` is about whole stacks: every call owes the rules of its type,
and what it has, what it has still to probe and what the call above it will bring always
make up exactly that set (`rules`, `Pending(probes)` and `FromAbove` equal the target).
The transitive set is defined as the least closed set of types, and `RulesByFields`
gives its one-level unfolding, the only thing the steps need; that makes the argument
independent of cycles in the types.

`RegistryInv` adds that every entry of the registry has the rules of a type its key
stands for (`Entries`), that a derive past its `Once` has registered under its names
(`DoneRegistered`), and that a call inside one has registered the keys it no longer
holds (`RegisteringCalls`). `CollectInv` adds that a lookup tries only keys that stand
for its type (`LookingCalls`, where `Unambiguous` comes in) and accounts for the rules
of an export (`CollectOK`): those of the root and of what was visited, what the lookup
under way will bring included.

*Export.* `TypeInv` adds to the types that each composite in progress is of some type's
form and has room for the part it awaits, if there is a frame above it or an atom was
returned (`FramesOK`). The cache holds exactly the atoms of values (`Interning`), so a
second equal value finds the first. `RecordsInv` has one record per source and name
(`Keyed`), whose header is as wide as the widest tuple and has, at every position, the
type that all tuples have there or `atom` (`RecordOK`); in the result a longest tuple is
first (`LongestFirst`). That parts are not shared is about what a serialization holds:
an atom that is not a value's is returned, on one frame of the stack, or the part of one
tuple, and never two of these (`Apart`, `PartsFree`, `Once`); `Some` wrappers pass an
atom on without a tuple. Two records' ids differ because the escapes of `relation_id`
can be read back: what precedes the first dot that is not escaped determines the name
(`Readable`).

*Attributes.* `ShapeInv` types the builder's lists; `MergeInv` says that the export has
collected the first of each rule of all lists met so far (`MergeOf`), which
`extend_unique` keeps turn by turn. `ReadInv` is about the attributes that have been read
(`Gone`), and `RunInv` about the calls: while expanding, running all calls made so far
would build what the attributes read so far mean (`Built`); while running, the builder is
a point on the way there (`Running`), or that and some of the field types' rules
(`Gathered`). A run is a function from the number of calls to the builder, and one call
more extends it.

*Code generation.* Passing tests make tables and reference the outputs of one manifest
(`GreenTables`, `GreenReference`), and the rest is about the two outputs. Both merge what
the items of an attribute have, one rule by rule and with each item's `negated`, the other
line by line and with the first item's; `FirstHasIt` says of both which item a key comes
from, and `LinesAgree` that it is the same one; `FieldLineSays` compares a field's line
with its rule, type by type, and `BlocksDocumented` does the like for the blocks, leaf by
leaf. `ShapeAgrees` does that for the two lists
of deprecated shapes. A field keeps its rule through renaming and merging since no other
has its key (`TakesOffers`, `LeafRules`); a warning's keys are keys of the deprecated item
alone (`OthersNotWarned`). That the repository passes as it is needs only that nothing
else is written before the first release (`VersionInv`).

The steps of an invariant's proof are one per action; what several actions do alike
(take, keep or drop a lock; push or return a call) is a lemma. The library's
induction theorems take an operator as a parameter, which the installed provers
cannot instantiate; what a recursive function computes (`Flatten`, and through it
`Escape`) is proved by `SetInduction` instead, on the set of numbers for which it is
so, from the library's theorem that strict inclusion of finite sets is well-founded.
`SpecCodegen` merges by the least index rather than by a fold of `@@`, which the
prover does not know.

No run lists `Numbered`, `CapturesLockHeld`, `StderrHeld` or `NoCircularWait`: the first
follows from `ImplementsLog`, the second is a part of `LocksInv`, and what the last two
are for, that calls return, is what `program` checks as `DbgReturns`.

*Only model-checked.* Liveness and whatever rests on `ENABLED` (`DbgReturns`,
`CallsReturn`, `EveryCaptureShown`, `CatchesUp` and their like). `RoundTrip` and
`SelfDescribing`: `Read` and `Describe` are `RECURSIVE` operators on an instance,
outside the prover's reach, as is induction over exported values. `ReadAsMeant`, the
reading of single attributes: what the scanners make of a text is a property of the
catalogue.

## 5. Where the code and its documents disagree

Each is a run whose counterexample TLC finds; the quotations are in PROJECT.json.

* `program_stderr`: "`dbg!(x)` always returns `x`", but `dbg!` formats `x` with stderr
  locked while the start-up reports a failed bind with the viewer locked: a `Debug`
  that itself calls `dbg!` in one thread and a first capture in another wait for
  each other for ever.
* `page_overtaken`: "the captures already loaded in this page remain usable", but
  a response that was overtaken replaces the longer list by a shorter one. While
  the program lives the next poll repairs it (`CatchesUp`).
* `decorators_recursive`: two derived structs with fields of each other's type
  re-enter their own `Once`: `decorators()` never returns. Only direct
  self-reference is guarded against.
* `decorators_renamed`: the lookup by serialized name falls back to the Rust short
  name, where another type of that name may have registered.

Not runs of their own: a capture panics in its caller when stderr is closed,
although `ViewerSession::diagram` "never panics on transport or output failure"
(src/session.rs:130); every `eprintln!` in `append` and `ensure_viewer_started`
does, as the action `Panic` says, and the properties are stated with that.
A bare `#[icon]` or `#[atom_color]` gets no deprecation warning, although these are
"deprecated outright — every spelling warns" (macros/src/lib.rs:2521) and "whatever it is
written with" (macros/src/spec_tables.rs:124): an attribute without a list draws nothing,
and the derive asks `deprecation_shim` only of those that draw something (lib.rs:245).
`WarnsOfDeprecatedLists` states which are warned about and which are not, and the
catalogue has both. The derive's documentation says that "a typo fails here rather than
rendering a diagram quietly missing what you asked for" (lib.rs:157-159), of keys and
values that spytial-core "would reject or silently ignore"; a value of another type than
its key's (`width = 0.5`, `negated = "true"`) and an attribute that needs a list and has
none (`#[orientation]`) do not fail. The first stands for the default, the second for
nothing; `RefusesExactlyInvalid` counts both as valid, by the tables, which give keys,
values and bounds but no types.
"Only one renderLayout call may be in flight" (templates/session.html:195) is true of the
queue, but the Reset button's listener (248-250) calls `renderLayout` as well.
Sessions created with one `SPYTIAL_OUTPUT_PATH` overwrite each other's snapshot
(src/session.rs:90), and where `fs::rename` fails the snapshot is not replaced
atomically (src/session.rs:370 says so; `Tear` in `CaptureLog`).

Not runs, since no document promises otherwise: all types of one generic derive share a
`Once` and a short name; what
`deserialize_any` cannot tell apart is listed in its comment (`Documented`), and
enums named like a built-in belong on that list too.

## 6. What is left out

* Within the modelled parts: HTML, HTTP and error wording; the browser process;
  the session token; the layout itself; YAML and JSON formatting; identifier
  boundaries, white space and number syntax in attributes; parsing of literals'
  labels in reify; hand-written `HasSpytialDecorators` and manual registrations.
* Of `Program`: what a standalone page contains; what `Serialize` and `Debug` do other
  than call the crate; the default session is one of `Sessions`, created before.
* Of the runs: clients that ask for the captures while `program` and `session_page` run
  (`Requests` has only silent ones there, and the page's own polls); those and the
  captures guard held for a response are `session_faults`'s.
* Sessions that share a path: each has its own in the instances. That they overwrite each
  other is plain; nothing more is promised.
* Pages are made by replacing placeholders one after another, captures before
  endpoint (`render_session_html`, src/session.rs:340), so a captured string that
  spells the endpoint's placeholder would be replaced as well. The model's page is
  a record, and the case is listed as a hazard without a property.
* Of the code generation: the wording of both outputs; rustfmt; what the hand-written half of
  the macro makes of a key that a regenerated table newly accepts (a key added to
  a known item would be accepted and dropped, as scripts/update-spytial-core.sh
  says: "New keys may need parsing"). Not claimed by the two properties, and not so:
  an `edgeStyle` field that `edgeColor` has too is one key, and a deprecation of
  either shape may then warn on the other (`Shared`); a `hold` on the merged item
  `edgeColor` and a deprecated form selected by the manifest's own discriminator
  are in the tables but not said in the reference (`Discriminated`); an
  `alternativeForm` on another field than `group.addEdge` is not looked at; only
  `DEPRECATIONS_NOT_APPLICABLE` is checked for stale entries, `FIELD_SKIPS` and
  `UNMAPPED_ITEMS` are not. The vendoring script copies several files: interrupted in
  between, it leaves assets of two releases, which the tests notice only if
  manifest or VERSION.txt differ.
* The demo server: a sequential loop that keeps no state.
* The evaluation corpus, docs, examples and the vendored viewer core.

## 7. Plan

Done, in this order: `Session`, `CaptureLog`/`SessionRefines`, the session proofs,
`ViewerPage` with its proofs, `Decorators` with its proofs, `Export`/`Reify`, the
attribute modules, `SessionPage`, `Program`, the code generation. What is left of
the system keeps no state or is outside it (section 6).

Every safety property that a run checks is proved, with the hypotheses of section 4, but
the two of `Reify`; so are both refinements, and `Session`'s promises again for every
program.
