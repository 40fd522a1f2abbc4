------------------------------ MODULE MCReify ------------------------------
(* A family of types on which TLC checks Export and Reify. *)
EXTENDS Reify

F(shape, type, label, fields, of) ==
    [shape |-> shape, type |-> type, label |-> label, fields |-> fields, of |-> of]

Literals(type, labels) == {F("value", type, l, << >>, << >>) : l \in labels}
Option(t) ==
    Literals("None", {"None"}) \cup {F("some", "Some", "Some", << >>, <<t>>)}

MCTypes == {"bool", "u64", "f64", "unit", "opt", "opt2", "optnew", "new", "inner",
            "outer", "back", "choice", "choices", "map", "list", "optlist", "pair",
            "none", "some", "optnone", "optsome", "odd"}

(* serde(rename) may put a "." or a "\" into a name: types A.B, A and A\ have
   fields c, B.c and c.  Choice has variants of every shape, with fields that
   are named like the relations of others.  None and Some are user types. *)
MCForms == [t \in MCTypes |->
    CASE t = "bool" -> Literals("bool", {"true", "false"})
      [] t = "u64" -> Literals("u64", {"0", "1"})
      [] t = "f64" -> Literals("f64", {"0"}) \cup {F("nan", "f64", "NaN", << >>, << >>)}
      [] t = "unit" -> Literals("unit", {"()"})
      [] t = "opt" -> Option("unit")
      [] t = "opt2" -> Option("opt")
      [] t = "new" -> {F("newtype_struct", "newtype_struct", "New", <<"value">>, <<"opt2">>)}
      [] t = "optnew" -> Option("new")
      [] t = "back" -> {F("struct", "A\\", "A\\", <<"c", "value">>, <<"f64", "f64">>)}
      [] t = "inner" -> {F("struct", "A", "A", <<"B.c">>, <<"back">>)}
      [] t = "outer" -> {F("struct", "A.B", "A.B", <<"c", "idx">>, <<"inner", "optnew">>)}
      [] t = "choice" ->
           {F("unit_variant", "Choice", "Unit", << >>, << >>),
            F("newtype_variant", "Choice", "New", <<"variant_value">>, <<"opt2">>),
            F("tuple_variant", "Choice", "Pair", << >>, <<"bool", "u64">>),
            F("struct_variant", "Choice", "Named", <<"idx", "variant_value">>, <<"bool", "u64">>),
            F("struct_variant", "Choice", "One", <<"variant_value">>, <<"bool">>),
            F("struct_variant", "Choice", "Empty", << >>, << >>)}
      [] t = "choices" -> {F("seq", "sequence", "seq", << >>, <<"choice">>)}
      [] t = "map" -> {F("map", "map", "map", << >>, <<"u64", "opt2">>)}
      [] t = "list" -> {F("struct", "Node", "Node", <<"variant_value">>, <<"optlist">>)}
      [] t = "optlist" -> Option("list")
      [] t = "none" -> {F("unit_variant", "None", "Absent", << >>, << >>)}
      [] t = "some" -> {F("struct", "Some", "Some", <<"value">>, <<"opt">>)}
      [] t = "optnone" -> Option("none")
      [] t = "optsome" -> Option("some")
      [] t = "odd" -> {F("tuple", "tuple_struct", "Odd", << >>, <<"optnone", "optsome">>)}
      [] OTHER -> {F("tuple", "tuple", "tuple", << >>, <<"map", "optlist">>)}]

MCDecimal == <<"0", "1", "2">>
MCPositions == [n \in 0 .. MaxLen - 1 |-> MCDecimal[n + 1]]

MCNames == UNION {UNION {{f.type, f.label} \cup ToSet(f.fields) : f \in MCForms[t]} :
                     t \in MCTypes}
           \cup {"atom", "idx", "map_entry"} \cup ToSet(MCDecimal)

MCSpelling == [n \in MCNames |->
    CASE n = "A.B" -> <<"A", ".", "B">>
      [] n = "B.c" -> <<"B", ".", "c">>
      [] n = "A\\" -> <<"A", "\\">>
      [] OTHER -> <<n>>]
MCPieces == {".", "\\", "B"} \cup MCNames
=============================================================================
