--------------------------- MODULE MCSpecCodegen ---------------------------
(* What releases of spytial-core may do to the language: each entry is an item,
   a block or a deprecation as it is after the change, or none. *)
EXTENDS SpecCodegen

Items1(id, item) == [part |-> "items", id |-> id, to |-> {item}]
WithField(id, field, type, rule) ==
    Items1(id, [Vendored.items[id] EXCEPT !.fields = [f \in {field} |-> Field(type, rule)] @@ @])
WithLeaf(name, leaf, type, rule) ==
    [part |-> "blocks", id |-> name,
     to |-> {[f \in {leaf} |-> Field(type, rule)] @@ Vendored.blocks[name]}]
WithoutField(id, field) ==
    Items1(id, [Vendored.items[id] EXCEPT !.fields =
                  [f \in DOMAIN @ \ {field} |-> @[f]]])
Deprecates(id, kind, replacement) ==
    [part |-> "deprecations", id |-> id, to |-> {Deprecation(kind, replacement)}]

MCChanges ==
    {Items1("rank", Item("constraints", TRUE, Mandatory({"selector"}))),
     [part |-> "items", id |-> "tag", to |-> {}],
     WithField("orientation", "minGap", "number", Positive),
     WithField("orientation", "minGap", "number", [Free EXCEPT !.bound.most = {9}]),
     WithField("align", "direction", "string", Vendored.items["align"].fields["direction"].rule),
     WithField("flag", "flag", "enum", Required(OneOf({"hideDisconnected", "hideEmpty"}))),
     WithField("atomStyle", "showLabel", "boolean", Defaulting(Free, "false")),
     WithField("edgeStyle", "weight", "number", Unit),
     WithField("edgeColor", "dash", "string", Free),
     WithField("inferredEdge", "showLabel", "boolean", ShowLabel),
     WithoutField("edgeColor", "value"),
     WithoutField("hideField", "filter"),
     WithoutField("group", "addEdge"),
     WithoutField("orientation", "directions"),
     Items1("size", [Vendored.items["size"] EXCEPT !.hold = TRUE]),
     Items1("align", [Vendored.items["align"] EXCEPT !.sections = {"directives"}]),
     Items1("icon", [Vendored.items["icon"] EXCEPT
                       !.discriminator = {[field |-> "showLabels", present |-> TRUE]}]),
     [part |-> "blocks", id |-> "shadowStyle", to |-> {Yaml(Optional({"color"}))}],
     [part |-> "blocks", id |-> "iconStyle", to |-> {}],
     WithLeaf("lineStyle", "pattern", "enum", OneOf({"solid", "wavy"})),
     WithLeaf("lineStyle", "weight", "number", [Free EXCEPT !.bound.least = {1}]),
     WithLeaf("iconStyle", "opacity", "string", Defaulting(Unit, "1")),
     Deprecates("hideField", "item", "edgeStyle"),
     Deprecates("edgeStyle", "item", "atomStyle"),
     Deprecates("tag", "item", "label"),
     Deprecates("tag@constraints", "placement", "tag"),
     [part |-> "deprecations", id |-> "icon", to |-> {}],
     [part |-> "deprecations", id |-> "edgeColor", to |-> {}],
     [part |-> "deprecations", id |-> "size@directives", to |-> {}]}
=============================================================================
