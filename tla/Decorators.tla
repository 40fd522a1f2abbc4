----------------------------- MODULE Decorators -----------------------------
(***************************************************************************)
(* How the rules of a type are found: the decorators() that                *)
(* derive(SpytialDecorators) generates (macros/src/lib.rs), the process's  *)
(* registries (src/spytial_annotations/runtime.rs) and the collection      *)
(* during an export (src/export.rs).                                       *)
(*                                                                         *)
(* A derive's own attributes are one rule, named after the derive: a       *)
(* SpytialDecorators value is a set of derives.  A Rust type is also its   *)
(* std::any::type_name.  A thread is a stack of calls, innermost first.    *)
(***************************************************************************)
EXTENDS Naturals, Sequences

CONSTANTS
    Threads,
    Types,       \* the concrete types with a derive
    Derives,     \* the items that carry it: a generic one has many types
    Derive,      \* [Types -> Derives]
    Generic,     \* the derives with generic parameters
    Names,       \* unqualified names
    Short,       \* [Derives -> Names]: the identifier
    Serialized,  \* [Derives -> Names]: what serde(rename) makes of it
    Fields,      \* [Types -> Seq(Types)]: the types decorators() probes
    Contained    \* [Types -> SUBSET Types]: what a value of the type may hold,
                 \* itself included, probed or not (in an enum, a HashMap ...)

ASSUME DecoratorsAssumption ==
    /\ Derive \in [Types -> Derives]
    /\ Generic \subseteq Derives
    /\ \A t, u \in Types : Derive[t] = Derive[u] => t = u \/ Derive[t] \in Generic
    /\ Short \in [Derives -> Names] /\ Serialized \in [Derives -> Names]
    /\ Fields \in [Types -> Seq(Types)]
    /\ Contained \in [Types -> SUBSET Types]
    /\ Names \cap Types = {}

Keys == Names \cup Types

VARIABLES
    once,      \* [Derives -> "new", "running", "done"]: each derive's static Once
    registry,  \* TYPE_REGISTRY: [Keys -> {} (no entry) or {rules}]
    stack,     \* [Threads -> Seq(Call)]
    visited,   \* [Threads -> SUBSET Names]: visited_types of the thread's export
    exclude    \* [Threads -> SUBSET Names]: exclude_type, {} or one name

vars == <<once, registry, stack, visited, exclude>>

(* A call in progress, of type's decorators or of an export of a type's value:
     "once"     about to pass the Once          "first"  building, inside it
     "build"    building what it returns        "look"   reading the registry
     "collect"  an export, between two lookups
   with the registry keys and the probes it has still to go through and the
   rules it has so far. *)
Calls == [at : {"once", "first", "build", "look", "collect"}, type : Types,
          keys : Seq(Keys), probes : Seq(Types), rules : SUBSET Derives]

Init ==
    /\ once = [d \in Derives |-> "new"]
    /\ registry = [k \in Keys |-> {}]
    /\ stack = [th \in Threads |-> << >>]
    /\ visited = [th \in Threads |-> {}]
    /\ exclude = [th \in Threads |-> {}]

-----------------------------------------------------------------------------
Idle(th) == stack[th] = << >>

At(th, place) == stack[th] # << >> /\ stack[th][1].at = place

(* The innermost call calls another, goes on as another, or returns rules. *)
Push(th, call) == stack' = [stack EXCEPT ![th] = <<call>> \o @]

Become(th, call) == stack' = [stack EXCEPT ![th] = <<call>> \o Tail(@)]

Return(th, rules) ==
    LET s == stack[th]
        caller == [s[2] EXCEPT !.rules = @ \cup rules] IN
    stack' = [stack EXCEPT ![th] =
                IF Len(s) = 1 THEN << >> ELSE <<caller>> \o Tail(Tail(s))]

DecoratorsCall(t) ==
    [at |-> "once", type |-> t, keys |-> << >>, probes |-> << >>, rules |-> {}]

(* SpytialDecoratorsBuilder::new() with the derive's own calls, then one
   extend_with per probe. *)
Build(t, place, keys) ==
    [at |-> place, type |-> t, keys |-> keys, probes |-> Fields[t],
     rules |-> {Derive[t]}]

-----------------------------------------------------------------------------
(* T::decorators() *)

(* The application calls it. *)
Decorators(th, t) ==
    /\ Idle(th)
    /\ Push(th, DecoratorsCall(t))
    /\ UNCHANGED <<once, registry, visited, exclude>>

RegistrationKeys(t) == <<Short[Derive[t]], Serialized[Derive[t]], t>>

(* The mutants: see the note in Session. *)
PassOnceCached(th) ==              \* the second and later calls return the entry
    /\ At(th, "once")
    /\ LET t == stack[th][1].type IN
          \/ /\ once[Derive[t]] = "new"
             /\ once' = [once EXCEPT ![Derive[t]] = "running"]
             /\ Become(th, Build(t, "first", RegistrationKeys(t)))
          \/ /\ once[Derive[t]] = "done"
             /\ \E rules \in registry[Short[Derive[t]]] :
                   Become(th, [Build(t, "build", << >>) EXCEPT
                                 !.probes = << >>, !.rules = rules])
             /\ UNCHANGED once
    /\ UNCHANGED <<registry, visited, exclude>>

PassOnceFlag(th) ==                \* a flag: set on entry, nobody waits
    /\ At(th, "once")
    /\ LET t == stack[th][1].type IN
          \/ /\ once[Derive[t]] = "new"
             /\ once' = [once EXCEPT ![Derive[t]] = "done"]
             /\ Become(th, Build(t, "first", RegistrationKeys(t)))
          \/ /\ once[Derive[t]] = "done"
             /\ Become(th, Build(t, "build", << >>))
             /\ UNCHANGED once
    /\ UNCHANGED <<registry, visited, exclude>>

PassOnceShared(th) ==              \* one Once for all derives
    /\ At(th, "once")
    /\ \A d \in Derives : once[d] # "running"
    /\ LET t == stack[th][1].type IN
          \/ /\ once[Derive[t]] = "new"
             /\ once' = [once EXCEPT ![Derive[t]] = "running"]
             /\ Become(th, Build(t, "first", RegistrationKeys(t)))
          \/ /\ once[Derive[t]] = "done"
             /\ Become(th, Build(t, "build", << >>))
             /\ UNCHANGED once
    /\ UNCHANGED <<registry, visited, exclude>>

(* REGISTRATION.call_once: blocks while the closure runs, whoever runs it. *)
PassOnce(th) ==
    /\ At(th, "once")
    /\ LET t == stack[th][1].type IN
          \/ /\ once[Derive[t]] = "new"
             /\ once' = [once EXCEPT ![Derive[t]] = "running"]
             /\ Become(th, Build(t, "first", RegistrationKeys(t)))
          \/ /\ once[Derive[t]] = "done"
             /\ Become(th, Build(t, "build", << >>))
             /\ UNCHANGED once
    /\ UNCHANGED <<registry, visited, exclude>>

(* DecoProbe::<F>::get, of the next field type *)
Probe(th) ==
    /\ At(th, "first") \/ At(th, "build")
    /\ LET call == stack[th][1] IN
          /\ call.probes # << >>
          /\ stack' = [stack EXCEPT ![th] =
                <<DecoratorsCall(Head(call.probes)),
                  [call EXCEPT !.probes = Tail(@)]>> \o Tail(@)]
    /\ UNCHANGED <<once, registry, visited, exclude>>

RegisterKeepingBoth(th) ==         \* an entry is added, not replaced
    /\ At(th, "first")
    /\ LET call == stack[th][1]
           t == call.type IN
          /\ call.probes = << >>
          /\ registry' = [registry EXCEPT ![Head(call.keys)] = @ \cup {call.rules}]
          /\ IF Len(call.keys) > 1
             THEN Become(th, [call EXCEPT !.keys = Tail(@)]) /\ UNCHANGED once
             ELSE /\ once' = [once EXCEPT ![Derive[t]] = "done"]
                  /\ Become(th, Build(t, "build", << >>))
    /\ UNCHANGED <<visited, exclude>>

(* register_type_decorators, once per key; the last one ends the closure. *)
Register(th) ==
    /\ At(th, "first")
    /\ LET call == stack[th][1]
           t == call.type IN
          /\ call.probes = << >>
          /\ registry' = [registry EXCEPT ![Head(call.keys)] = {call.rules}]
          /\ IF Len(call.keys) > 1
             THEN Become(th, [call EXCEPT !.keys = Tail(@)]) /\ UNCHANGED once
             ELSE /\ once' = [once EXCEPT ![Derive[t]] = "done"]
                  /\ Become(th, Build(t, "build", << >>))
    /\ UNCHANGED <<visited, exclude>>

(* build() returns: decorators() to its caller, a link-time registration's
   function to the export. *)
Built(th) ==
    /\ At(th, "build")
    /\ stack[th][1].probes = << >>
    /\ Return(th, stack[th][1].rules)
    /\ UNCHANGED <<once, registry, visited, exclude>>

-----------------------------------------------------------------------------
(* Exports.  A lookup tries its keys in the registry, then calls the link-time
   registration, which has a generic derive's own attributes only. *)

LookUp(t, keys) ==
    [at |-> "look", type |-> t, keys |-> keys,
     probes |-> IF Derive[t] \in Generic THEN << >> ELSE Fields[t],
     rules |-> {Derive[t]}]

Collect(t) ==
    [at |-> "collect", type |-> t, keys |-> << >>, probes |-> << >>, rules |-> {}]

ExportByShortName(th, t) ==        \* the root falls back to its unqualified name
    /\ Idle(th)
    /\ stack' = [stack EXCEPT ![th] =
          <<LookUp(t, <<t, Short[Derive[t]]>>), Collect(t)>>]
    /\ UNCHANGED <<once, registry, visited, exclude>>

(* export_json_instance_and_decorators: the root is looked up by its exact
   name alone, whose derive is the unique match. *)
Export(th, t) ==
    /\ Idle(th)
    /\ stack' = [stack EXCEPT ![th] = <<LookUp(t, <<t>>), Collect(t)>>]
    /\ UNCHANGED <<once, registry, visited, exclude>>

(* export_json_instance_with_decorators: no root, and one name is skipped.  So
   does the export of a value whose own type has no derive, with a name that
   does not occur in it. *)
ExportExcluding(th, t, name) ==
    /\ Idle(th)
    /\ Push(th, Collect(t))
    /\ exclude' = [exclude EXCEPT ![th] = {name}]
    /\ UNCHANGED <<once, registry, visited>>

(* get_type_decorators of the next key, or none is left *)
TryKey(th) ==
    /\ At(th, "look")
    /\ LET call == stack[th][1] IN
          \/ /\ call.keys = << >>
             /\ Become(th, [call EXCEPT !.at = "build"])
          \/ /\ call.keys # << >> /\ registry[Head(call.keys)] = {}
             /\ Become(th, [call EXCEPT !.keys = Tail(@)])
          \/ /\ call.keys # << >>
             /\ \E rules \in registry[Head(call.keys)] : Return(th, rules)
    /\ UNCHANGED <<once, registry, visited, exclude>>

MatchesSerialized(d, name) == Short[d] = name \/ Serialized[d] = name

(* matches_serialized_type of exactly one registration *)
Identifies(name, d) == {e \in Derives : MatchesSerialized(e, name)} = {d}

(* serialized_decorators_for_registration.  No qualified key for a generic
   derive: its registered name is a prefix of its types' names, which nobody
   registers (unless all its parameters are lifetimes, which is left out). *)
SerializedKeys(t) ==
    LET d == Derive[t] IN
    IF d \in Generic THEN <<Serialized[d], Short[d]>>
    ELSE <<t, Serialized[d], Short[d]>>

(* collect_decorators_for_type, of a value of type u in the exported one *)
Visit(th, u) ==
    /\ At(th, "collect")
    /\ u \in Contained[stack[th][1].type]
    /\ LET name == Serialized[Derive[u]] IN
          /\ name \notin visited[th] \cup exclude[th]
          /\ visited' = [visited EXCEPT ![th] = @ \cup {name}]
          /\ IF Identifies(name, Derive[u])
             THEN Push(th, LookUp(u, SerializedKeys(u)))
             ELSE UNCHANGED stack
    /\ UNCHANGED <<once, registry, exclude>>

(* The value has been serialized, or its Serialize failed. *)
FinishExport(th) ==
    /\ At(th, "collect")
    /\ stack' = [stack EXCEPT ![th] = << >>]
    /\ visited' = [visited EXCEPT ![th] = {}]
    /\ exclude' = [exclude EXCEPT ![th] = {}]
    /\ UNCHANGED <<once, registry>>

-----------------------------------------------------------------------------
Step(th) ==
    PassOnce(th) \/ Probe(th) \/ Register(th) \/ Built(th) \/ TryKey(th)

Next ==
    \E th \in Threads :
       \/ Step(th) \/ FinishExport(th)
       \/ \E t \in Types :
             \/ Decorators(th, t) \/ Export(th, t) \/ Visit(th, t)
             \/ \E name \in Names : ExportExcluding(th, t, name)

Spec == Init /\ [][Next]_vars

(* Every thread runs, and a value is finite. *)
Fairness == \A th \in Threads : WF_vars(Step(th)) /\ WF_vars(FinishExport(th))

FairSpec == Spec /\ Fairness

-----------------------------------------------------------------------------
(* The types reachable from t through probed fields: the least set that holds
   t and, with a type, the types of its fields. *)
FieldClosed(S) == \A u \in S : \A i \in 1 .. Len(Fields[u]) : Fields[u][i] \in S

Reachable ==
    [t \in Types |->
       {u \in Types : \A S \in SUBSET Types : t \in S /\ FieldClosed(S) => u \in S}]

(* "the full decorator set for this type, including decorators transitively
   collected from field types" *)
Rules == [t \in Types |-> {Derive[u] : u \in Reachable[t]}]

TypeOK ==
    /\ once \in [Derives -> {"new", "running", "done"}]
    /\ registry \in [Keys -> SUBSET SUBSET Derives]
    /\ \A k \in Keys : \A a, b \in registry[k] : a = b
    /\ stack \in [Threads -> Seq(Calls)]
    /\ visited \in [Threads -> SUBSET Names]
    /\ exclude \in [Threads -> SUBSET Names]

(* What a link-time registration has of them *)
LinkRules ==
    [t \in Types |-> IF Derive[t] \in Generic THEN {Derive[t]} ELSE Rules[t]]

(* What decorators() returns, inside its Once and after it, is the transitive
   set, whichever threads registered what in the meantime, and so is what a
   link-time registration returns to an export, except for a generic derive. *)
ReturnsFullSet ==
    \A th \in Threads :
       LET s == stack[th] IN
       (At(th, "first") \/ At(th, "build")) /\ s[1].probes = << >> =>
          s[1].rules = IF Len(s) = 2 /\ s[2].at = "collect"
                       THEN LinkRules[s[1].type] ELSE Rules[s[1].type]

(* Once decorators() is past its Once, in any thread, the type is registered
   under its three names ("called the first time decorators() is invoked"). *)
RegisteredOnceDone ==
    \A t \in Types : once[Derive[t]] = "done" =>
       /\ registry[Short[Derive[t]]] # {} /\ registry[Serialized[Derive[t]]] # {}
       /\ Derive[t] \notin Generic => registry[t] = {Rules[t]}

(* What an export collects is decided by the value: the root's rules, and those
   of the types in it that their serialized name identifies.  Neither what was
   registered before nor what other threads register meanwhile shows. *)
CollectedDependsOnValueOnly ==
    \A th \in Threads : At(th, "collect") =>
       LET t == stack[th][1].type IN
       stack[th][1].rules =
          (IF exclude[th] = {} THEN Rules[t] ELSE {}) \cup
          UNION {Rules[u] : u \in {v \in Contained[t] :
                    /\ Serialized[Derive[v]] \in visited[th]
                    /\ \A d \in Derives :
                          MatchesSerialized(d, Serialized[Derive[v]]) => d = Derive[v]}}

(* "preventing same-named types in different modules from mixing decorators":
   an export holds no rule of a type that is neither its root's, nor in its
   value, nor reachable from those. *)
OnlyRelatedRules ==
    \A th \in Threads : At(th, "collect") =>
       LET t == stack[th][1].type IN
       stack[th][1].rules \subseteq UNION {Rules[u] : u \in {t} \cup Contained[t]}

(* Every decorators() call and every export comes to an end. *)
CallsReturn == \A th \in Threads : ~Idle(th) ~> Idle(th)
=============================================================================
