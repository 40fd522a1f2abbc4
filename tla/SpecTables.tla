----------------------------- MODULE SpecTables -----------------------------
(* macros/src/spec_tables.rs, the checked-in tables that tell the derive macro
   which keys each attribute and style block accepts, and with what values.
   They are generated (SpecCodegen); this is the file as the repository has
   it.  Descriptions, selector arities and what the viewer does with a bad
   value are left out: the macro only prints them. *)
EXTENDS FiniteSets, TLC

SPYTIAL_CORE_VERSION == 0          \* the releases vendored since the checked-in one

Values(words) == {<<w>> : w \in words}

(* FieldRule: values, bounds, required and default; what a field may lack is a
   set of at most one element. *)
Unbounded == [above |-> {}, least |-> {}, most |-> {}]
Free == [values |-> {}, bound |-> Unbounded, required |-> FALSE, default |-> {}]
OneOf(words) == [Free EXCEPT !.values = Values(words)]
Positive == [Free EXCEPT !.bound.above = {0}]
Unit == [Free EXCEPT !.bound.least = {0}, !.bound.most = {1}]
Required(rule) == [rule EXCEPT !.required = TRUE]
Defaulting(rule, value) == [rule EXCEPT !.default = Values({value})]

Optional(keys) == [k \in keys |-> Free]
Mandatory(keys) == [k \in keys |-> Required(Free)]

EndPoints == Defaulting(OneOf({"none", "togroup", "fromgroup"}), "none")
ShowLabel == Defaulting(Free, "true")

ATTRS ==
    [attribute |-> Mandatory({"field"}) @@ Optional({"selector", "filter", "text_style"}),
     flag |-> [name |-> Required(OneOf({"hideDisconnected", "hideDisconnectedBuiltIns"}))],
     orientation |->
        Mandatory({"selector"}) @@ Optional({"negated"}) @@
        [directions |-> Required(OneOf({"above", "below", "left", "right", "directlyAbove",
                                        "directlyBelow", "directlyLeft", "directlyRight"}))],
     align |->
        Mandatory({"selector"}) @@ Optional({"negated"}) @@
        [direction |-> Required(OneOf({"horizontal", "vertical"}))],
     cyclic |->
        Mandatory({"selector"}) @@ Optional({"negated"}) @@
        [direction |-> Defaulting(OneOf({"clockwise", "counterclockwise"}), "clockwise")],
     group |->
        Mandatory({"selector", "name"}) @@ Optional({"text_style", "negated"}) @@
        [add_edge |-> EndPoints, show_label |-> ShowLabel],
     atom_color |-> Mandatory({"value", "selector"}),
     atom_style |->
        Optional({"selector", "fill_style", "border_style", "icon_style", "text_style"}) @@
        [show_label |-> ShowLabel],
     size |->
        [width |-> Required(Positive), height |-> Required(Positive), selector |-> Free],
     icon |->
        Mandatory({"selector", "path"}) @@ [show_labels |-> Defaulting(Free, "false")],
     edge_style |->
        Mandatory({"field", "value"}) @@
        Optional({"selector", "filter", "line_style", "text_style"}) @@
        [show_label |-> ShowLabel, hidden |-> Defaulting(Free, "false"),
         style |-> OneOf({"solid", "dashed", "dotted"}), weight |-> Positive],
     hide_field |-> Mandatory({"field"}) @@ Optional({"selector", "filter"}),
     hide_atom |-> Mandatory({"selector"}),
     inferred_edge |->
        Mandatory({"name", "selector"}) @@ Optional({"draw", "line_style", "text_style"}),
     tag |-> Mandatory({"to_tag", "name", "value"}) @@ Optional({"text_style"})]

BLOCKS ==
    [line_style |->
        Optional({"color", "highlight"}) @@
        [pattern |-> OneOf({"solid", "dashed", "dotted"}), weight |-> Positive],
     text_style |->
        Optional({"color"}) @@
        [size |-> Defaulting(OneOf({"small", "normal", "large"}), "normal")],
     border_style |-> Optional({"color"}) @@ [width |-> Positive],
     fill_style |-> Optional({"color"}),
     icon_style |->
        Optional({"path"}) @@
        [placement |-> Defaulting(OneOf({"full", "badge"}), "full"),
         opacity |-> Defaulting(Unit, "1")],
     add_edge |-> Optional({"line_style", "text_style"}) @@ [points |-> EndPoints]]

(* when_any_key: the keys that select the deprecated shape, none if all do *)
DEPRECATIONS ==
    {[attr |-> "icon", when_any_key |-> {}, replaced_by |-> "atom_style"],
     [attr |-> "atom_color", when_any_key |-> {}, replaced_by |-> "atom_style"],
     [attr |-> "edge_style", when_any_key |-> {"value", "style", "weight"},
      replaced_by |-> "edge_style"]}

SOURCE_SUPPORTED_BY ==
    {"orientation", "cyclic", "align", "group", "size", "hideAtom", "atomStyle", "edgeStyle",
     "attribute", "tag", "hideField", "inferredEdge", "icon", "atomColor", "edgeColor"}

ORIENTATION_AT_MOST_ONE_OF == {Values({"above", "below"}), Values({"left", "right"})}
ORIENTATION_NARROWS_TO ==
    [directlyAbove |-> Values({"above", "directlyAbove"}),
     directlyBelow |-> Values({"below", "directlyBelow"}),
     directlyLeft |-> Values({"left", "directlyLeft"}),
     directlyRight |-> Values({"right", "directlyRight"})]
=============================================================================
