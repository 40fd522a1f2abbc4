------------------------------- MODULE Reify -------------------------------
(***************************************************************************)
(* from_datum (src/reify.rs): what a type's Deserialize reads from an      *)
(* exported instance, and what deserialize_any, which is not told a type,  *)
(* takes an atom for.  Both are functions of the final state of Export.    *)
(***************************************************************************)
EXTENDS Export, FiniteSets, SequencesExt, TLC

CONSTANT Parsed     \* the types whose values are read from a label:
                    \* numbers, strings ..., enums

(* Index::build: the tuples of a relation that start at an atom. *)
Out(a, rel) ==
    FlattenSeq([i \in 1 .. Len(relations) |->
        IF relations[i].name = rel
        THEN SelectSeq(relations[i].tuples, LAMBDA tu : tu.atoms[1] = a)
        ELSE << >>])

(* 0: there is none, an error *)
SingleTarget(a, rel) ==
    IF Out(a, rel) = << >> THEN 0 ELSE Out(a, rel)[1].atoms[2]

(* find_root: the first atom that no relation targets *)
FindRoot ==
    CHOOSE i \in Ids :
       LET Targeted(k) == \E tu \in Tuples : \E n \in 2 .. Len(tu.atoms) : tu.atoms[n] = k
       IN  ~Targeted(i) /\ \A k \in 1 .. i - 1 : Targeted(k)

PositionOf(tu) == CHOOSE n \in 0 .. MaxLen - 1 : Decimal[n] = atoms[tu.atoms[2]].label

SeqElems(a) ==
    LET tuples == SelectSeq(Out(a, "idx"), LAMBDA tu : Len(tu.atoms) >= 3)
        sorted == SortSeq(tuples, LAMBDA tu, tw : PositionOf(tu) < PositionOf(tw))
    IN  [i \in 1 .. Len(sorted) |-> sorted[i].atoms[3]]

MapEntries(a) ==
    LET tuples == SelectSeq(Out(a, "map_entry"), LAMBDA tu : Len(tu.atoms) >= 3)
    IN  [i \in 1 .. Len(tuples) |-> <<tuples[i].atoms[2], tuples[i].atoms[3]>>]

-----------------------------------------------------------------------------
(* The constructor that the Deserialize of t finds at atom a: deserialize_option
   looks at its type, parse() and deserialize_enum at its label, the others
   know. *)
FormsRead(a, t) ==
    IF \E f \in Forms[t] : f.shape = "some"
    THEN {f \in Forms[t] : f.shape = "some" <=> atoms[a].type # "None"}
    ELSE IF t \in Parsed
    THEN {f \in Forms[t] : f.label = atoms[a].label}
    ELSE Forms[t]

(* The atoms of its parts, with their types. *)
PartsRead(a, f) ==
    CASE f.shape = "some" ->
           <<<<IF atoms[a].type = "Some" THEN SingleTarget(a, "value") ELSE a, f.of[1]>>>>
      [] f.shape \in Named ->
           [i \in 1 .. Len(f.of) |-> <<SingleTarget(a, f.fields[i]), f.of[i]>>]
      [] f.shape \in {"tuple", "tuple_variant"} ->
           [i \in 1 .. Len(f.of) |->
              <<IF i <= Len(SeqElems(a)) THEN SeqElems(a)[i] ELSE 0, f.of[i]>>]
      [] f.shape = "seq" ->
           [i \in 1 .. Len(SeqElems(a)) |-> <<SeqElems(a)[i], f.of[1]>>]
      [] f.shape = "map" ->
           FlattenSeq([i \in 1 .. Len(MapEntries(a)) |->
              <<<<MapEntries(a)[i][1], f.of[1]>>, <<MapEntries(a)[i][2], f.of[2]>>>>])
      [] OTHER -> << >>

Error == [End EXCEPT !.shape = "error"]

(* T::deserialize at an atom: the forms of the value, as in trail. *)
RECURSIVE Read(_, _)
Read(a, t) ==
    IF a = 0 \/ FormsRead(a, t) = {} THEN <<Error>>
    ELSE LET f == CHOOSE g \in FormsRead(a, t) : TRUE
             parts == PartsRead(a, f)
         IN  <<f>> \o FlattenSeq([i \in 1 .. Len(parts) |-> Read(parts[i][1], parts[i][2])])
             \o (IF f.shape \in Open THEN <<End>> ELSE << >>)

(* "This matches format!("{:?}", original)": what is exported is read back,
   constructor by constructor, from the root that find_root finds. *)
RoundTrip == result = "ok" => Read(FindRoot, root) = trail

-----------------------------------------------------------------------------
ValueTypes ==
    {"bool", "i8", "i16", "i32", "i64", "i128", "u8", "u16", "u32", "u64", "u128",
     "f32", "f64", "char", "string", "bytes", "unit", "unit_struct", "None"}

Builtin == ValueTypes \cup
    {"Some", "newtype_struct", "sequence", "tuple", "tuple_struct", "map"}

Relations(a) == {relations[i].name : i \in {j \in 1 .. Len(relations) :
                    Out(a, relations[j].name) # << >>}}

IsTernary(a) == \E i \in 1 .. Len(Out(a, "idx")) : Len(Out(a, "idx")[i].atoms) >= 3

(* The mutant: see the note in Session. *)
DescribeNamedByRelations(a) ==     \* relations are asked before the label
    CASE "idx" \in Relations(a) -> "tuple_variant"
      [] Relations(a) = {"variant_value"} -> "newtype_variant"
      [] atoms[a].label = atoms[a].type -> "struct"
      [] Relations(a) = {} -> "unit_variant"
      [] OTHER -> "struct_variant"

(* deserialize_named_any *)
DescribeNamed(a) ==
    CASE atoms[a].label = atoms[a].type -> "struct"
      [] atoms[a].label # atoms[a].type /\ Relations(a) = {} -> "unit_variant"
      [] atoms[a].label # atoms[a].type /\ IsTernary(a) -> "tuple_variant"
      [] atoms[a].label # atoms[a].type /\ Relations(a) = {"variant_value"} ->
            "newtype_variant"
      [] OTHER -> "struct_variant"

(* deserialize_any: what an atom is taken for *)
Describe(a) ==
    LET type == atoms[a].type IN
    CASE type \in ValueTypes -> "value"
      [] type \in {"Some", "newtype_struct", "map"} -> type
      [] type \in {"sequence", "tuple", "tuple_struct"} -> "seq"
      [] OTHER -> DescribeNamed(a)

(* The shapes that, its comment says, cannot be told apart.  (Of the types named
   like a built-in the comment has structs only, but enums fare the same.) *)
Documented(f) ==
    \/ f.type = f.label /\ f.shape \in
          {"unit_variant", "newtype_variant", "tuple_variant", "struct_variant"}
    \/ f.type \in Builtin /\ f.shape \in {"struct", "unit_variant"}
    \/ f.shape = "struct_variant" /\ f.fields = <<"variant_value">>
    \/ f.shape \in {"struct_variant", "tuple_variant"} /\ f.of = << >>

(* Flattened, untagged and internally tagged values are described as what they
   are, whatever their fields are called, but for the documented shapes. *)
SelfDescribing ==
    result = "ok" =>
       \A a \in Ids :
          LET f == atoms[a] IN
          ~Documented(f) =>
             Describe(a) = CASE f.shape \in {"value", "nan"} -> "value"
                             [] f.shape = "some" -> "Some"
                             [] f.shape \in {"seq", "tuple"} -> "seq"
                             [] OTHER -> f.shape
=============================================================================
