-------------------------- MODULE LanguageManifest --------------------------
(* templates/vendor/spytial-language.json: spytial-core's description of the
   layout-spec language, as it is vendored.  An item or block is its fields by
   their YAML names, with their types; `alt` is the block form that a field may be written in. *)
EXTENDS SpecTables

TypeOf ==
    [f \in {"selector", "filter", "toTag"} |-> "selector"] @@
    [f \in {"name", "draw"} |-> "string"] @@
    [f \in {"direction", "addEdge", "points", "flag", "style", "pattern", "placement",
            "size"} |-> "enum"] @@
    [f \in {"showLabel", "showLabels", "hidden"} |-> "boolean"] @@
    [f \in {"width", "height", "weight", "opacity"} |-> "number"] @@
    [f \in {"color", "highlight", "value"} |-> "color"] @@
    [f \in {"textStyle", "lineStyle", "fillStyle", "borderStyle", "iconStyle"} |-> "block"] @@
    [field |-> "relation", directions |-> "enum-list", path |-> "icon-path"]

Field(type, rule) == [type |-> type, rule |-> rule, alt |-> {}]
Yaml(rules) == [f \in DOMAIN rules |-> Field(TypeOf[f], rules[f])]

Item(section, hold, rules) ==
    [sections |-> {section}, hold |-> hold, discriminator |-> {}, fields |-> Yaml(rules)]

Filtered == Optional({"selector", "filter"})
Edge == Optional({"lineStyle", "textStyle"})
Pattern == OneOf({"solid", "dashed", "dotted"})

AddEdgeBlock == Yaml(Edge @@ [points |-> EndPoints])

Items ==
    [orientation |-> Item("constraints", TRUE,
        Mandatory({"selector"}) @@
        [directions |-> Required(OneOf({"above", "below", "left", "right", "directlyAbove",
                                        "directlyBelow", "directlyLeft", "directlyRight"}))]),
     cyclic |-> Item("constraints", TRUE,
        Mandatory({"selector"}) @@
        [direction |-> Defaulting(OneOf({"clockwise", "counterclockwise"}), "clockwise")]),
     align |-> Item("constraints", TRUE,
        Mandatory({"selector"}) @@ [direction |-> Required(OneOf({"horizontal", "vertical"}))]),
     group |->
        [Item("constraints", TRUE,
           Mandatory({"selector", "name"}) @@ Optional({"textStyle"}) @@
           [addEdge |-> EndPoints, showLabel |-> ShowLabel])
         EXCEPT !.fields.addEdge.alt = {AddEdgeBlock},
                !.discriminator = {[field |-> "field", present |-> FALSE]}],
     size |-> Item("constraints", FALSE,
        Optional({"selector"}) @@ [width |-> Required(Positive), height |-> Required(Positive)]),
     hideAtom |-> Item("constraints", FALSE, Mandatory({"selector"})),
     flag |-> Item("directives", FALSE,
        [flag |-> Required(OneOf({"hideDisconnected", "hideDisconnectedBuiltIns"}))]),
     atomStyle |-> Item("directives", FALSE,
        Optional({"selector", "fillStyle", "borderStyle", "iconStyle", "textStyle"}) @@
        [showLabel |-> ShowLabel]),
     edgeStyle |-> Item("directives", FALSE,
        Mandatory({"field"}) @@ Filtered @@ Edge @@
        [showLabel |-> ShowLabel, hidden |-> Defaulting(Free, "false")]),
     attribute |-> Item("directives", FALSE,
        Mandatory({"field"}) @@ Filtered @@ Optional({"textStyle"})),
     tag |->
        [Item("directives", FALSE,
           Mandatory({"toTag", "name", "value"}) @@ Optional({"textStyle"}))
         EXCEPT !.fields.value.type = "selector"],
     hideField |-> Item("directives", FALSE, Mandatory({"field"}) @@ Filtered),
     inferredEdge |-> Item("directives", FALSE,
        Mandatory({"name", "selector"}) @@ Edge @@ Optional({"draw", "color", "highlight"}) @@
        [style |-> Pattern, weight |-> Positive]),
     icon |-> Item("directives", FALSE,
        Mandatory({"selector", "path"}) @@ [showLabels |-> Defaulting(Free, "false")]),
     atomColor |-> Item("directives", FALSE, Mandatory({"value", "selector"})),
     edgeColor |-> Item("directives", FALSE,
        Mandatory({"field", "value"}) @@ Filtered @@ Optional({"highlight"}) @@
        [style |-> Pattern, weight |-> Positive, showLabel |-> ShowLabel,
         hidden |-> Defaulting(Free, "false")])]

Blocks ==
    [textStyle |->
        Yaml(Optional({"color"}) @@
             [size |-> Defaulting(OneOf({"small", "normal", "large"}), "normal")]),
     lineStyle |->
        Yaml(Optional({"color", "highlight"}) @@ [pattern |-> Pattern, weight |-> Positive]),
     fillStyle |-> Yaml(Optional({"color"})),
     borderStyle |-> Yaml(Optional({"color"}) @@ [width |-> Positive]),
     iconStyle |->
        Yaml(Optional({"path"}) @@
             [placement |-> Defaulting(OneOf({"full", "badge"}), "full"),
              opacity |-> Defaulting(Unit, "1")])]

Deprecation(kind, replacement) == [kind |-> kind, replacedBy |-> replacement]

Deprecations ==
    [icon |-> Deprecation("item", "atomStyle"),
     atomColor |-> Deprecation("item", "atomStyle"),
     edgeColor |-> Deprecation("item", "edgeStyle")] @@
    [id \in {"size@directives", "hideAtom@directives"} |-> Deprecation("placement", id)] @@
    [id \in {"inferredEdge.color", "inferredEdge.style", "inferredEdge.weight",
             "inferredEdge.highlight"} |-> Deprecation("field", id)]

Vendored ==
    [version |-> SPYTIAL_CORE_VERSION, items |-> Items, blocks |-> Blocks,
     deprecations |-> Deprecations,
     sources |-> DOMAIN Items \ {"flag"},
     atMostOneOf |-> {Values({"above", "below"}), Values({"left", "right"})},
     narrowsListTo |->
        [directlyAbove |-> Values({"above", "directlyAbove"}),
         directlyBelow |-> Values({"below", "directlyBelow"}),
         directlyLeft |-> Values({"left", "directlyLeft"}),
         directlyRight |-> Values({"right", "directlyRight"})]]
=============================================================================
