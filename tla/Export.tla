------------------------------- MODULE Export -------------------------------
(***************************************************************************)
(* JsonDataSerializer (src/export.rs): how one value becomes atoms and     *)
(* relations (src/jsondata.rs).                                            *)
(*                                                                         *)
(* A value's Serialize calls the serializer for the value and, in between, *)
(* for its parts.  Which calls it may make next is its type's: a type is a *)
(* set of forms, one for each of its constructors or literals, and the     *)
(* actions choose among them, so that a behaviour builds a value while it  *)
(* exports it.  An atom is kept with the form it was made for, of which    *)
(* the instance has type and label only; its id is its place.              *)
(***************************************************************************)
EXTENDS Naturals, Sequences

CONSTANTS
    Names,     \* of types, fields, variants; labels
    Pieces,    \* what names are spelled with, "." and "\\" among them
    Spelling,  \* [Names -> Seq(Pieces)]
    Decimal,   \* [0 .. MaxLen - 1 -> Names]: how a position is printed
    Types,
    Forms,     \* [Types -> SUBSET Form]
    Roots,     \* the types whose values are exported
    MaxLen,    \* bound on the elements of a sequence, the entries of a map
    MaxDepth   \* bound on the nesting of a value

(* The call that serializes a form; literals, unit, unit structs and None are
   "value". *)
Shapes == {"value", "nan", "unit_variant", "some", "struct", "struct_variant",
           "newtype_struct", "newtype_variant", "tuple", "tuple_variant", "seq", "map"}

Single == {"value", "unit_variant"}
Named == {"struct", "struct_variant", "newtype_struct", "newtype_variant"}
Positional == {"tuple", "tuple_variant", "seq"}     \* "tuple": tuple structs, too
Open == {"seq", "map"}                              \* of any length

(* of has the types of a form's parts, fields (if Named) their relations. *)
Form == [shape : Shapes, type : Names, label : Names,
         fields : Seq(Names), of : Seq(Types)]

End == [shape |-> "end", type |-> "atom", label |-> "atom",
        fields |-> << >>, of |-> << >>]     \* in trail: of a sequence or map

ASSUME ExportAssumption ==
    /\ {"atom", "u64", "None", "Some", "map", "value", "idx", "map_entry"} \subseteq Names
    /\ {".", "\\"} \subseteq Pieces
    /\ Spelling \in [Names -> Seq(Pieces)]
    /\ \A m, n \in Names : Spelling[m] = Spelling[n] => m = n
    /\ MaxLen \in Nat /\ MaxDepth \in Nat
    /\ Decimal \in [0 .. MaxLen - 1 -> Names]
    /\ \A i, j \in 0 .. MaxLen - 1 : Decimal[i] = Decimal[j] => i = j
    /\ Forms \in [Types -> SUBSET Form]
    /\ Roots \subseteq Types
    /\ \A t \in Types : \A f \in Forms[t] :
          /\ f.shape \in Single \cup {"nan"} => f.of = << >>
          /\ f.shape \in {"some", "newtype_struct", "newtype_variant", "seq"}
                => Len(f.of) = 1
          /\ f.shape = "map" => Len(f.of) = 2 /\ f.type = "map"
          /\ f.shape \in Named => Len(f.fields) = Len(f.of)
          /\ f.shape = "some" => f.type = "Some"
          /\ Len(f.of) <= MaxLen \/ f.shape \notin Positional

VARIABLES
    root,       \* the type of the exported value
    atoms,      \* Seq(Form)
    relations,  \* Seq(Record), one per source type and name
    interned,   \* value_atoms: the atoms that are looked up by type and label
    stack,      \* the composites in progress, innermost first
    returned,   \* the atom that the last call returned, 0 while one is awaited
    result,     \* "running", "ok", "failed"
    trail       \* history: the forms of the value, in the order of their calls

vars == <<root, atoms, relations, interned, stack, returned, result, trail>>

(* One sequence of a sequence of them *)
Flatten(pieces) ==
    LET upto[i \in 0 .. Len(pieces)] ==
            IF i = 0 THEN << >> ELSE upto[i - 1] \o pieces[i]
    IN  upto[Len(pieces)]

Ids == 1 .. Len(atoms)
NewId == Len(atoms) + 1

Tuple == [atoms : Seq(Nat), types : Seq(Names)]
Record == [source : Names, name : Names, types : Seq(Names), tuples : Seq(Tuple)]
Frame == [form : Form, atom : Nat, key : Nat, count : Nat]

Init ==
    /\ root \in Roots
    /\ atoms = << >>
    /\ relations = << >>
    /\ interned = {}
    /\ stack = << >>
    /\ returned = 0
    /\ result = "running"
    /\ trail = << >>

-----------------------------------------------------------------------------
(* Atoms *)

EmitAtom(form) == atoms' = Append(atoms, form) /\ UNCHANGED interned

Known(form) == {i \in interned : atoms[i].type = form.type /\ atoms[i].label = form.label}

(* The mutants: see the note in Session. *)
ValueAtomOffByOne(form, id) ==       \* the counter is advanced first
    IF Known(form) # {}
    THEN id \in Known(form) /\ UNCHANGED <<atoms, interned>>
    ELSE /\ id = NewId
         /\ atoms' = Append(atoms, form)
         /\ interned' = interned \cup {NewId + 1}

ValueAtomFresh(form, id) ==          \* the cache is never filled
    /\ id = NewId
    /\ EmitAtom(form)

(* get_or_create_value_atom *)
ValueAtom(form, id) ==
    IF Known(form) # {}
    THEN id \in Known(form) /\ UNCHANGED <<atoms, interned>>
    ELSE /\ id = NewId
         /\ atoms' = Append(atoms, form)
         /\ interned' = interned \cup {id}

-----------------------------------------------------------------------------
(* Relations *)

JoinFirst(header, incoming) == header    \* the first tuple's types

(* join_position_types: positions that vary widen to "atom". *)
JoinPositionTypes(header, incoming) ==
    [i \in 1 .. (IF Len(header) > Len(incoming) THEN Len(header) ELSE Len(incoming)) |->
        IF i > Len(header) THEN incoming[i]
        ELSE IF i <= Len(incoming) /\ header[i] # incoming[i] THEN "atom"
        ELSE header[i]]

Extended(record, tuple) ==
    [record EXCEPT !.types = JoinPositionTypes(@, tuple.types),
                   !.tuples = Append(@, tuple)]

(* push_relation: relation_index finds the record of source type and name. *)
PushRelation(name, ids, types) ==
    LET tuple == [atoms |-> ids, types |-> types]
        at == {i \in 1 .. Len(relations) :
                  relations[i].source = types[1] /\ relations[i].name = name} IN
    relations' =
       IF at = {}
       THEN Append(relations, [source |-> types[1], name |-> name, types |-> types,
                               tuples |-> <<tuple>>])
       ELSE [i \in 1 .. Len(relations) |->
               IF i \notin at THEN relations[i] ELSE Extended(relations[i], tuple)]

-----------------------------------------------------------------------------
(* Calls *)

Top == stack[1]

Capacity(frame) ==
    CASE frame.form.shape = "seq" -> MaxLen
      [] frame.form.shape = "map" -> 2 * MaxLen
      [] OTHER -> Len(frame.form.of)

NextType(frame) ==
    LET of == frame.form.of IN
    CASE frame.form.shape = "seq" -> of[1]
      [] frame.form.shape = "map" -> of[(frame.count % 2) + 1]
      [] OTHER -> of[frame.count + 1]

(* A value of type t is to be serialized next: the root, a part. *)
Awaited(t) ==
    /\ result = "running" /\ returned = 0
    /\ \/ stack = << >> /\ t = root
       \/ stack # << >> /\ Top.count < Capacity(Top) /\ t = NextType(Top)

Called(t, f) ==
    /\ Awaited(t)
    /\ f \in Forms[t]
    /\ trail' = Append(trail, f)
    /\ UNCHANGED <<root, result>>

Begin(f, atom) ==
    /\ Len(stack) < MaxDepth
    /\ stack' = <<[form |-> f, atom |-> atom, key |-> 0, count |-> 0]>> \o stack
    /\ UNCHANGED returned

(* serialize_bool .. serialize_bytes, _none, _unit, _unit_struct, _unit_variant *)
SerializeValue(t, f) ==
    /\ f.shape \in Single
    /\ Called(t, f)
    /\ \E id \in Ids \cup {NewId} : ValueAtom(f, id) /\ returned' = id
    /\ UNCHANGED <<relations, stack>>

(* serialize_f32, _f64, of a NaN *)
SerializeNaN(t, f) ==
    /\ f.shape = "nan"
    /\ Called(t, f)
    /\ EmitAtom(f)
    /\ returned' = NewId
    /\ UNCHANGED <<relations, stack>>

(* serialize_some, up to its inner value *)
SerializeSome(t, f) ==
    /\ f.shape = "some"
    /\ Called(t, f)
    /\ Begin(f, 0)
    /\ UNCHANGED <<atoms, relations, interned>>

(* serialize_struct, _seq, _map, ...: the atom precedes its parts. *)
SerializeComposite(t, f) ==
    /\ f.shape \in Named \cup Positional \cup {"map"}
    /\ Called(t, f)
    /\ EmitAtom(f)
    /\ Begin(f, NewId)
    /\ UNCHANGED relations

-----------------------------------------------------------------------------
(* A part has been serialized and its composite goes on. *)

Received(shapes) ==
    /\ result = "running" /\ returned # 0
    /\ stack # << >> /\ Top.form.shape \in shapes

Resumed(frame, atom, key) ==
    [frame EXCEPT !.atom = atom, !.key = key, !.count = @ + 1]

Resume(atom, key) ==
    /\ returned' = 0
    /\ stack' = [stack EXCEPT ![1] = Resumed(@, atom, key)]
    /\ UNCHANGED <<root, result, trail>>

(* serialize_field, and the one relation of a newtype *)
AttachField ==
    /\ Received(Named)
    /\ PushRelation(Top.form.fields[Top.count + 1],
                    <<Top.atom, returned>>, <<Top.form.type, "atom">>)
    /\ Resume(Top.atom, 0)
    /\ UNCHANGED <<atoms, interned>>

Position(n) == [shape |-> "value", type |-> "u64", label |-> Decimal[n],
                fields |-> << >>, of |-> << >>]

(* serialize_element; serialize_field of a tuple struct or variant *)
AttachElement ==
    /\ Received(Positional)
    /\ \E index \in Ids \cup {NewId} :
          /\ ValueAtom(Position(Top.count), index)
          /\ PushRelation("idx", <<Top.atom, index, returned>>,
                          <<Top.form.type, "u64", "atom">>)
    /\ Resume(Top.atom, 0)

(* serialize_key *)
AttachKey ==
    /\ Received({"map"}) /\ Top.key = 0
    /\ Resume(Top.atom, returned)
    /\ UNCHANGED <<atoms, relations, interned>>

(* serialize_value *)
AttachEntry ==
    /\ Received({"map"}) /\ Top.key # 0
    /\ PushRelation("map_entry", <<Top.atom, Top.key, returned>>,
                    <<"map", "atom", "atom">>)
    /\ Resume(Top.atom, 0)
    /\ UNCHANGED <<atoms, interned>>

AttachSomeBare ==                    \* Some(x) is x, whatever x
    /\ Received({"some"})
    /\ Resume(returned, 0)
    /\ UNCHANGED <<atoms, relations, interned>>

AttachSomeShared ==                  \* the wrapper is a value atom
    /\ Received({"some"})
    /\ IF atoms[returned].type \in {"None", "Some"}
       THEN \E id \in Ids \cup {NewId} :
               /\ ValueAtom(Top.form, id)
               /\ PushRelation("value", <<id, returned>>, <<"Some", "atom">>)
               /\ Resume(id, 0)
       ELSE Resume(returned, 0) /\ UNCHANGED <<atoms, relations, interned>>

(* serialize_some, the rest: Some(x) is x's atom, wrapped if x is an option. *)
AttachSome ==
    /\ Received({"some"})
    /\ IF atoms[returned].type \in {"None", "Some"}
       THEN /\ EmitAtom(Top.form)
            /\ PushRelation("value", <<NewId, returned>>, <<"Some", "atom">>)
            /\ Resume(NewId, 0)
       ELSE Resume(returned, 0) /\ UNCHANGED <<atoms, relations, interned>>

Complete(frame) ==
    CASE frame.form.shape = "seq" -> TRUE
      [] frame.form.shape = "map" -> frame.key = 0
      [] OTHER -> frame.count = Len(frame.form.of)

(* end(), or the call returns *)
EndComposite ==
    /\ result = "running" /\ returned = 0
    /\ stack # << >> /\ Complete(Top)
    /\ returned' = Top.atom
    /\ stack' = Tail(stack)
    /\ trail' = IF Top.form.shape \in Open THEN Append(trail, End) ELSE trail
    /\ UNCHANGED <<root, atoms, relations, interned, result>>

-----------------------------------------------------------------------------
OfLength(tuples, n) ==
    Flatten([j \in 1 .. Len(tuples) |->
               IF Len(tuples[j].atoms) = n THEN <<tuples[j]>> ELSE << >>])

(* finalize_relations: longest tuples first. *)
FinalizeRelations(recs) ==
    [i \in 1 .. Len(recs) |->
       [recs[i] EXCEPT !.tuples = OfLength(@, 3) \o OfLength(@, 2)]]

(* try_export_json_instance returns; returned is the root's atom. *)
Finish ==
    /\ result = "running" /\ returned # 0 /\ stack = << >>
    /\ result' = "ok"
    /\ relations' = FinalizeRelations(relations)
    /\ UNCHANGED <<root, atoms, interned, stack, returned, trail>>

(* A Serialize in the value fails: export_json_instance returns no atoms. *)
Fail ==
    /\ result = "running"
    /\ result' = "failed"
    /\ atoms' = << >> /\ relations' = << >> /\ interned' = {}
    /\ stack' = << >> /\ returned' = 0 /\ trail' = << >>
    /\ UNCHANGED root

Next ==
    \/ \E t \in Types : \E f \in Forms[t] :
          \/ SerializeValue(t, f) \/ SerializeNaN(t, f)
          \/ SerializeSome(t, f) \/ SerializeComposite(t, f)
    \/ AttachField \/ AttachElement \/ AttachKey \/ AttachEntry \/ AttachSome
    \/ EndComposite \/ Finish \/ Fail

Spec == Init /\ [][Next]_vars

-----------------------------------------------------------------------------
TypeOK ==
    /\ root \in Roots
    /\ atoms \in Seq(Form)
    /\ relations \in Seq(Record)
    /\ interned \subseteq Ids
    /\ stack \in Seq(Frame)
    /\ \A i \in 1 .. Len(stack) : {stack[i].atom, stack[i].key} \subseteq Ids \cup {0}
    /\ returned \in Ids \cup {0}
    /\ result \in {"running", "ok", "failed"}
    /\ trail \in Seq(Form \cup {End})

Tuples == UNION {{relations[i].tuples[j] : j \in 1 .. Len(relations[i].tuples)} :
                    i \in 1 .. Len(relations)}

(* "Equal values of the same exposed type share an atom", positions included,
   wherever in the value they occur; two atoms alike are composites or NaNs. *)
EqualValuesShare ==
    \A i, j \in Ids :
       /\ atoms[i].type = atoms[j].type /\ atoms[i].label = atoms[j].label
       /\ atoms[i].shape \in Single /\ atoms[j].shape \in Single
       => i = j

(* "Composite values remain distinct serialized occurrences": no atom but a
   value's is the part of two composites, or twice of one, so that what was
   exported is a tree above its values. *)
PartOfOne ==
    \A tu, tw \in Tuples : \A m \in 2 .. Len(tu.atoms), n \in 2 .. Len(tw.atoms) :
       tu.atoms[m] = tw.atoms[n] /\ atoms[tu.atoms[m]].shape \notin Single
       => tu = tw /\ m = n

(* A record's header describes all its tuples, in whichever order they came:
   as long as the longest, a position has their type if they agree on it and
   "atom" if they do not.  In the result the first tuple is a longest one. *)
HeadersDescribe ==
    \A i \in 1 .. Len(relations) :
       LET types == relations[i].types
           tuples == relations[i].tuples
           At(p) == {tuples[j].types[p] : j \in {k \in 1 .. Len(tuples) :
                                                    p <= Len(tuples[k].types)}} IN
       /\ \A p \in 1 .. Len(types) :
             /\ At(p) # {}
             /\ types[p] = IF \E a \in At(p) : At(p) = {a}
                           THEN CHOOSE a \in At(p) : TRUE ELSE "atom"
       /\ \A j \in 1 .. Len(tuples) : Len(tuples[j].types) <= Len(types)
       /\ result = "ok" => Len(tuples[1].types) = Len(types)

RelationIdPlain(source, name) == Spelling[source] \o <<".">> \o Spelling[name]

(* relation_id: "." and "\" in a name are escaped. *)
Escape(s) ==
    Flatten([i \in 1 .. Len(s) |->
               IF s[i] \in {".", "\\"} THEN <<"\\", s[i]>> ELSE <<s[i]>>])

RelationId(source, name) ==
    Escape(Spelling[source]) \o <<".">> \o Escape(Spelling[name])

(* spytial-core merges records by id: two of them never have the same one,
   and each holds the tuples of its own source type. *)
RecordsApart ==
    \A i, j \in 1 .. Len(relations) :
       /\ RelationId(relations[i].source, relations[i].name)
             = RelationId(relations[j].source, relations[j].name) => i = j
       /\ \A k \in 1 .. Len(relations[i].tuples) :
             relations[i].tuples[k].types[1] = relations[i].source
=============================================================================
