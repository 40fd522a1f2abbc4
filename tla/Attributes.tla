----------------------------- MODULE Attributes -----------------------------
(* From the attributes on a type to its rules: the derive macro reads each
   attribute and expands it to builder calls, or refuses the type; the calls
   run in the generated code and build the rules, those of the field types
   after the type's own; an export merges the rules of the types it meets. *)
EXTENDS AttributeText, SpecTables

CONSTANTS
    Catalogue,      \* the attributes that may be written, a sequence of them
    MaxAttributes,  \* bound: attributes on one type
    Fields,         \* what the probes of the field types return, in order
    Met             \* the decorators of the types an export meets, in order

VARIABLES
    attrs,      \* the attributes of the type, as indices of Catalogue
    stage,      \* "expanding", "refused", "running", "merging"
    next,       \* the attribute to expand, the call to run or the set to merge
    calls,      \* decorator_calls
    shims,      \* deprecation_shims: the positions they warn at
    builder,    \* SpytialDecoratorsBuilder
    collected   \* an export's collected_decorators

vars == <<attrs, stage, next, calls, shims, builder, collected>>

-----------------------------------------------------------------------------
(* What the generated tables say: spec_for, block_for and rule() *)

Keys == [attr \in DOMAIN ATTRS |-> DOMAIN ATTRS[attr]]
Blocks == [block \in DOMAIN BLOCKS |-> DOMAIN BLOCKS[block]]

FlagNames == ATTRS["flag"]["name"].values
Directions == ATTRS["orientation"]["directions"].values
Patterns == BLOCKS["line_style"]["pattern"].values
Sizes == BLOCKS["text_style"]["size"].values
Placements == BLOCKS["icon_style"]["placement"].values
Points == BLOCKS["add_edge"]["points"].values

DefaultOf(rule) == CHOOSE value \in rule.default : TRUE

-----------------------------------------------------------------------------
(* Style blocks: whether the text t has a valid one, and the one it has *)

LeavesKnown(t, block) ==
    \A b \in ExtractGroup(t, block) : TopLevelKeys(b) \subseteq Blocks[block]

LineStyleOK(t) ==
    /\ LeavesKnown(t, "line_style")
    /\ \A b \in ExtractGroup(t, "line_style") :
          /\ ExtractString(b, "pattern") \subseteq Patterns
          /\ \A w \in ExtractFloat(b, "weight") : w > 0
LineStyle(t) ==
    {[color |-> ExtractString(b, "color"), pattern |-> ExtractString(b, "pattern"),
      weight |-> ExtractFloat(b, "weight"), highlight |-> ExtractString(b, "highlight")] :
        b \in ExtractGroup(t, "line_style")}

TextStyleOK(t) ==
    /\ LeavesKnown(t, "text_style")
    /\ \A b \in ExtractGroup(t, "text_style") : ExtractString(b, "size") \subseteq Sizes
TextStyle(t) ==
    {[size |-> ExtractString(b, "size"), color |-> ExtractString(b, "color")] :
        b \in ExtractGroup(t, "text_style")}

BorderStyleOK(t) ==
    /\ LeavesKnown(t, "border_style")
    /\ \A b \in ExtractGroup(t, "border_style") : \A w \in ExtractFloat(b, "width") : w > 0
BorderStyle(t) ==
    {[color |-> ExtractString(b, "color"), width |-> ExtractFloat(b, "width")] :
        b \in ExtractGroup(t, "border_style")}

FillStyle(t) ==
    {[color |-> ExtractString(b, "color")] : b \in ExtractGroup(t, "fill_style")}

IconStyleOK(t) ==
    /\ LeavesKnown(t, "icon_style")
    /\ \A b \in ExtractGroup(t, "icon_style") :
          /\ ExtractString(b, "placement") \subseteq Placements
          /\ \A o \in ExtractFloat(b, "opacity") : o >= 0 /\ o <= Numbers["1"]
IconStyle(t) ==
    {[path |-> ExtractString(b, "path"), placement |-> ExtractString(b, "placement"),
      opacity |-> ExtractFloat(b, "opacity")] : b \in ExtractGroup(t, "icon_style")}

AddEdgeUnchecked(t, stripped) ==   \* the block's leaves are not validated
    \A b \in ExtractGroup(t, "add_edge") :
       /\ ExtractString(b, "points") \subseteq Points
       /\ LineStyleOK(b) /\ TextStyleOK(b)

(* The block form, or the bare direction *)
AddEdgeOK(t, stripped) ==
    /\ LeavesKnown(t, "add_edge")
    /\ \A b \in ExtractGroup(t, "add_edge") :
          /\ ExtractString(b, "points") \subseteq Points
          /\ LineStyleOK(b) /\ TextStyleOK(b)
    /\ ExtractGroup(t, "add_edge") = {} => ExtractString(stripped, "add_edge") \subseteq Points
AddEdge(t, stripped) ==
    LET blocks == ExtractGroup(t, "add_edge") IN
    IF blocks # {}
    THEN {[form |-> "block",
           points |-> Or(ExtractString(b, "points"), DefaultOf(BLOCKS["add_edge"]["points"])),
           line_style |-> LineStyle(b), text_style |-> TextStyle(b)] : b \in blocks}
    ELSE {[form |-> "direction", points |-> p, line_style |-> {}, text_style |-> {}] :
             p \in ExtractString(stripped, "add_edge")}

(* draw = "<end> -> <end>", an end being _ or a group's name *)
Arrows(raw) == {n \in DOMAIN raw : raw[n] = "->"}
DrawEnds(raw) ==
    LET arrow == Min(Arrows(raw)) IN
    [source |-> SubSeq(raw, 1, arrow - 1), target |-> SubSeq(raw, arrow + 1, Len(raw))]
DrawOK(stripped) ==
    \A raw \in ExtractString(stripped, "draw") :
       /\ Cardinality(Arrows(raw)) = 1
       /\ DrawEnds(raw).source # << >> /\ DrawEnds(raw).target # << >>
       /\ DrawEnds(raw).source # <<"_">> \/ DrawEnds(raw).target # <<"_">>
Draw(stripped) ==
    {[end \in {"source", "target"} |->
        IF DrawEnds(raw)[end] = <<"_">> THEN {} ELSE {DrawEnds(raw)[end]}] :
          raw \in ExtractString(stripped, "draw")}

-----------------------------------------------------------------------------
(* The attributes: t is the scanned text of the list, stripped the one without
   its groups, and an answer says whether the attribute is valid and which
   builder call it expands to. *)

Call(ok, name, args) == [ok |-> ok, calls |-> {[call |-> name, args |-> args]}]

Refused == [ok |-> FALSE, calls |-> {}]
NoRule == [ok |-> TRUE, calls |-> {}]

ParseAttribute(t, stripped) ==
    Call(TextStyleOK(t), "attribute",
         [field |-> Or(ExtractString(stripped, "field"), <<"name">>),
          selector |-> ExtractString(stripped, "selector"),
          filter |-> ExtractString(stripped, "filter"),
          text_style |-> TextStyle(t)])

ParseFlag(t) ==
    LET names == ExtractString(t, "name") IN
    Call(names # {} /\ names \subseteq FlagNames, "flag",
         [name |-> Or(names, << >>)])

DirectionsOK(directions) ==
    LET given == ToSet(directions) IN
    /\ given # {} /\ given \subseteq Directions
    /\ \A pair \in ORIENTATION_AT_MOST_ONE_OF : ~(pair \subseteq given)
    /\ \A direct \in DOMAIN ORIENTATION_NARROWS_TO :
          <<direct>> \in given => given \subseteq ORIENTATION_NARROWS_TO[direct]

ParseOrientation(t) ==
    LET directions == Or(ExtractArray(t, "directions"), << >>) IN
    Call(DirectionsOK(directions), "orientation",
         [selector |-> Or(ExtractString(t, "selector"), << >>),
          directions |-> directions,
          negated |-> Or(ExtractBool(t, "negated"), FALSE)])

ParseAligned(t, name, default) ==
    LET direction == Or(ExtractString(t, "direction"), default) IN
    Call(direction \in ATTRS[name]["direction"].values, name,
         [selector |-> Or(ExtractString(t, "selector"), << >>),
          direction |-> direction,
          negated |-> Or(ExtractBool(t, "negated"), FALSE)])

ParseAlign(t) ==
    ParseAligned(t, "align", <<"horizontal">>)

ParseCyclic(t) ==
    ParseAligned(t, "cyclic", DefaultOf(ATTRS["cyclic"]["direction"]))

ParseGroup(t, stripped) ==
    Call(AddEdgeOK(t, stripped) /\ TextStyleOK(t), "group",
         [selector |-> Or(ExtractString(stripped, "selector"), << >>),
          name |-> Or(ExtractString(stripped, "name"), <<"default">>),
          add_edge |-> AddEdge(t, stripped),
          show_label |-> ExtractBool(stripped, "show_label"),
          text_style |-> TextStyle(t),
          negated |-> Or(ExtractBool(stripped, "negated"), FALSE)])

ParseAtomColor(t) ==
    Call(TRUE, "atom_color",
         [selector |-> Or(ExtractString(t, "selector"), << >>),
          value |-> Or(ExtractString(t, "value"), <<"blue">>)])

ParseSize(t) ==
    LET height == Or(ExtractNumber(t, "height"), 2 * 20)
        width == Or(ExtractNumber(t, "width"), 2 * 30)
    IN  Call(height > 0 /\ width > 0, "size",
             [selector |-> Or(ExtractString(t, "selector"), << >>),
              height |-> height, width |-> width])

ParseIcon(t) ==
    Call(TRUE, "icon",
         [selector |-> Or(ExtractString(t, "selector"), << >>),
          path |-> Or(ExtractString(t, "path"), <<"icon.png">>),
          show_labels |-> Or(ExtractBool(t, "show_labels"), FALSE)])

(* Trimmed and in lower case *)
Normalized(style) == IF style = <<"Dashed">> THEN <<"dashed">> ELSE style

(* The legacy flat keys, or blocks, and without either the legacy default *)
ParseEdgeStyle(t, stripped) ==
    LET value == ExtractString(stripped, "value")
        style == ExtractString(stripped, "style")
        weight == ExtractFloat(stripped, "weight")
        hasLegacy == value # {} \/ style # {} \/ weight # {}
        hasBlocks == LineStyle(t) # {} \/ TextStyle(t) # {}
        ok == /\ LineStyleOK(t) /\ TextStyleOK(t)
              /\ \A s \in style : Normalized(s) \in Patterns
              /\ \A w \in weight : w > 0
              /\ ~(hasLegacy /\ hasBlocks)
        common == [field |-> Or(ExtractString(stripped, "field"), <<"relation">>),
                   selector |-> ExtractString(stripped, "selector"),
                   filter |-> ExtractString(stripped, "filter"),
                   show_label |-> ExtractBool(stripped, "show_label"),
                   hidden |-> ExtractBool(stripped, "hidden")]
    IN  IF hasBlocks
        THEN Call(ok, "edge_style",
                  common @@ [line_style |-> LineStyle(t), text_style |-> TextStyle(t)])
        ELSE Call(ok, "edge_color",
                  common @@ [value |-> Or(value, <<"blue">>),
                             style |-> style, weight |-> weight])

ParseAtomStyle(t, stripped) ==
    Call(LeavesKnown(t, "fill_style") /\ BorderStyleOK(t) /\ IconStyleOK(t) /\ TextStyleOK(t),
         "atom_style",
         [selector |-> ExtractString(stripped, "selector"),
          fill_style |-> FillStyle(t), border_style |-> BorderStyle(t),
          icon_style |-> IconStyle(t), text_style |-> TextStyle(t),
          show_label |-> ExtractBool(stripped, "show_label")])

ParseHideField(t) ==
    Call(TRUE, "hide_field",
         [field |-> Or(ExtractString(t, "field"), <<"field">>),
          selector |-> ExtractString(t, "selector"),
          filter |-> ExtractString(t, "filter")])

ParseHideAtom(t) ==
    Call(TRUE, "hide_atom", [selector |-> Or(ExtractString(t, "selector"), << >>)])

ParseInferredEdge(t, stripped) ==
    Call(DrawOK(stripped) /\ LineStyleOK(t) /\ TextStyleOK(t), "inferred_edge",
         [name |-> Or(ExtractString(stripped, "name"), <<"edge">>),
          selector |-> Or(ExtractString(stripped, "selector"), << >>),
          draw |-> IF DrawOK(stripped) THEN Draw(stripped) ELSE {},
          line_style |-> LineStyle(t), text_style |-> TextStyle(t)])

ParseTag(t, stripped) ==
    Call(TextStyleOK(t), "tag",
         [to_tag |-> Or(ExtractString(stripped, "to_tag"), << >>),
          name |-> Or(ExtractString(stripped, "name"), << >>),
          value |-> Or(ExtractString(stripped, "value"), << >>),
          text_style |-> TextStyle(t)])

(* What syn's own parser says of the keys *)
KeysKnown(attr) ==
    \A n \in DOMAIN attr.items : attr.items[n].key \in Keys[attr.name]

Dispatch(attr, t, stripped) ==
    CASE attr.name = "attribute" -> ParseAttribute(t, stripped)
      [] attr.name = "flag" -> ParseFlag(t)
      [] attr.name = "orientation" -> ParseOrientation(t)
      [] attr.name = "align" -> ParseAlign(t)
      [] attr.name = "cyclic" -> ParseCyclic(t)
      [] attr.name = "group" ->
            IF HasKey(stripped, "field") THEN Refused ELSE ParseGroup(t, stripped)
      [] attr.name = "atom_color" -> ParseAtomColor(t)
      [] attr.name = "atom_style" -> ParseAtomStyle(t, stripped)
      [] attr.name = "size" -> ParseSize(t)
      [] attr.name = "icon" -> ParseIcon(t)
      [] attr.name = "edge_style" -> ParseEdgeStyle(t, stripped)
      [] attr.name = "hide_field" -> ParseHideField(t)
      [] attr.name = "hide_atom" -> ParseHideAtom(t)
      [] attr.name = "inferred_edge" -> ParseInferredEdge(t, stripped)
      [] attr.name = "tag" -> ParseTag(t, stripped)

ParseSpatialAttribute(attr) ==
    IF attr.name \notin DOMAIN Keys THEN NoRule
    ELSE IF ~KeysKnown(attr) THEN Refused
    ELSE IF ~attr.list /\ attr.name \notin {"attribute", "flag"} THEN NoRule
    ELSE Dispatch(attr, Scan(Text(attr.items)), StripGroups(Scan(Text(attr.items))))

DeprecatedAsTyped(attr) ==         \* the keys of groups count as well
    \E dep \in DEPRECATIONS :
       /\ dep.attr = attr.name
       /\ \/ dep.when_any_key = {}
          \/ attr.list /\ \E key \in dep.when_any_key : HasKey(Scan(Text(attr.items)), key)

(* deprecation_for finds an entry *)
Deprecated(attr) ==
    \E dep \in DEPRECATIONS :
       /\ dep.attr = attr.name
       /\ \/ dep.when_any_key = {}
          \/ /\ attr.list
             /\ \E key \in dep.when_any_key : HasKey(StripGroups(Scan(Text(attr.items))), key)

Parsed == [a \in DOMAIN Catalogue |-> ParseSpatialAttribute(Catalogue[a])]
Warned == [a \in DOMAIN Catalogue |-> Deprecated(Catalogue[a])]

-----------------------------------------------------------------------------
(* The generated code: the quoted arguments, and the builder's methods *)

Rule(form, args) == [form |-> form, args |-> args, source |-> {}]

ConstraintForms == {"orientation", "align", "cyclic", "group", "size", "hideAtom"}

IsList(s) == s \in Seq(ToSet(s))

IsRule(rule) == rule = [form |-> rule.form, args |-> rule.args, source |-> rule.source]
IsConstraint(rule) == IsRule(rule) /\ rule.form \in ConstraintForms
IsDirective(rule) ==
    IsRule(rule) /\ rule.form \notin ConstraintForms /\ (rule.form = "flag" => rule.source = {})

(* SpytialDecorators: vectors of Constraint and of Directive; of the latter a
   flag has no source field. *)
IsDecorators(set) ==
    /\ IsList(set.constraints) /\ \A rule \in ToSet(set.constraints) : IsConstraint(rule)
    /\ IsList(set.directives) /\ \A rule \in ToSet(set.directives) : IsDirective(rule)

ASSUME ConstantsAreTyped ==
    /\ MaxAttributes \in Nat
    /\ IsList(Fields) /\ IsList(Met)
    /\ \A set \in ToSet(Fields) \cup ToSet(Met) : IsDecorators(set)

Word(word, others, fallback) == IF word \in others THEN word ELSE fallback

QuoteLineStyle(styles) ==
    {[s EXCEPT !.pattern = {Word(p, Values({"solid", "dashed"}), <<"dotted">>) : p \in @}] :
        s \in styles}
QuoteTextStyle(styles) ==
    {[s EXCEPT !.size = {Word(z, Values({"small", "large"}), <<"normal">>) : z \in @}] :
        s \in styles}
QuoteIconStyle(styles) ==
    {[s EXCEPT !.placement = {Word(p, Values({"badge"}), <<"full">>) : p \in @}] :
        s \in styles}
QuoteAddEdge(edges) ==
    {[e EXCEPT !.points = Word(@, Values({"togroup", "fromgroup"}), <<"none">>),
               !.line_style = QuoteLineStyle(@), !.text_style = QuoteTextStyle(@)] :
        e \in edges}

Quote(args) ==
    [k \in DOMAIN args |->
       CASE k = "line_style" -> QuoteLineStyle(args[k])
         [] k = "text_style" -> QuoteTextStyle(args[k])
         [] k = "icon_style" -> QuoteIconStyle(args[k])
         [] k = "add_edge" -> QuoteAddEdge(args[k])
         [] OTHER -> args[k]]

AtomStyleRule(selector, border, icon, show_label) ==
    Rule("atomStyle", [selector |-> selector, fill_style |-> {}, border_style |-> border,
                       icon_style |-> icon, text_style |-> {}, show_label |-> show_label])

AtomColorRule(a) ==
    AtomStyleRule({a.selector}, {[color |-> {a.value}, width |-> {}]}, {}, {})

IconRule(a) ==
    AtomStyleRule({a.selector}, {},
        {[path |-> {a.path}, opacity |-> {},
          placement |-> {IF a.show_labels THEN <<"badge">> ELSE <<"full">>}]},
        {a.show_labels})

(* An unknown pattern and a weight that is not positive are dropped. *)
EdgeColorRule(a) ==
    Rule("edgeStyle",
         [field |-> a.field, selector |-> a.selector, filter |-> a.filter,
          line_style |-> {[color |-> {a.value},
                           pattern |-> {Normalized(s) : s \in a.style} \cap Patterns,
                           weight |-> {w \in a.weight : w > 0},
                           highlight |-> {}]},
          text_style |-> {}, show_label |-> a.show_label, hidden |-> a.hidden])

BuiltRule(c) ==
    CASE c.call = "atom_color" -> AtomColorRule(c.args)
      [] c.call = "icon" -> IconRule(c.args)
      [] c.call = "edge_color" -> EdgeColorRule(c.args)
      [] c.call = "atom_style" -> Rule("atomStyle", c.args)
      [] c.call = "edge_style" -> Rule("edgeStyle", c.args)
      [] c.call = "hide_field" -> Rule("hideField", c.args)
      [] c.call = "hide_atom" -> Rule("hideAtom", c.args)
      [] c.call = "inferred_edge" -> Rule("inferredEdge", c.args)
      [] OTHER -> Rule(c.call, c.args)

NewBuilder == [constraints |-> << >>, directives |-> << >>, last |-> "none"]

PushConstraint(b, rule) ==
    [b EXCEPT !.constraints = Append(@, rule), !.last = "constraint"]

PushUnmarked(b, rule) ==           \* last is left as it was
    [b EXCEPT !.directives = Append(@, rule)]

PushDirective(b, rule) ==
    [b EXCEPT !.directives = Append(@, rule), !.last = "directive"]

Push(b, rule) ==
    IF rule.form \in ConstraintForms THEN PushConstraint(b, rule) ELSE PushDirective(b, rule)

StampLast(rules, source) ==
    [rules EXCEPT ![Len(rules)] = [@ EXCEPT !.source = {source}]]

SourceOnAny(b, source) ==          \* a flag is stamped too
    CASE b.last = "constraint" ->
            [b EXCEPT !.constraints = StampLast(@, source)]
      [] b.last = "directive" ->
            [b EXCEPT !.directives = StampLast(@, source)]
      [] OTHER -> b

(* source: a flag has nowhere to carry one. *)
Source(b, source) ==
    CASE b.last = "constraint" ->
            [b EXCEPT !.constraints = StampLast(@, source)]
      [] b.last = "directive" /\ Last(b.directives).form # "flag" ->
            [b EXCEPT !.directives = StampLast(@, source)]
      [] OTHER -> b

ExtendWith(b, set) ==
    [constraints |-> b.constraints \o set.constraints,
     directives |-> b.directives \o set.directives,
     last |-> "none"]

Apply(b, c) ==
    CASE c.call = "source" -> Source(b, c.source)
      [] c.call = "extend_with" -> ExtendWith(b, c.set)
      [] OTHER -> Push(b, BuiltRule(c))

-----------------------------------------------------------------------------
(* extend_unique *)

(* without_source() of the one is that of the other. *)
SameRule(a, b) == a.form = b.form /\ a.args = b.args

AppendUnlessIdentical(rules, rule) ==
    IF \E n \in DOMAIN rules : SameRule(rules[n], rule) /\ rules[n].source = rule.source
    THEN rules ELSE Append(rules, rule)

AppendUnique(rules, rule) ==
    IF \E n \in DOMAIN rules : SameRule(rules[n], rule)
    THEN rules ELSE Append(rules, rule)

ExtendList(rules, others) ==
    LET upTo[n \in 0 .. Len(others)] ==
            IF n = 0 THEN rules ELSE AppendUnique(upTo[n - 1], others[n])
    IN  upTo[Len(others)]

ExtendUnique(set, other) ==
    [constraints |-> ExtendList(set.constraints, other.constraints),
     directives |-> ExtendList(set.directives, other.directives)]

-----------------------------------------------------------------------------
Init ==
    /\ attrs \in UNION {[1 .. n -> DOMAIN Catalogue] : n \in 0 .. MaxAttributes}
    /\ stage = "expanding"
    /\ next = 1
    /\ calls = << >>
    /\ shims = << >>
    /\ builder = NewBuilder
    /\ collected = [constraints |-> << >>, directives |-> << >>]

Own(n) == <<"Self", n>>

(* The call that an attribute expands to, with its stamp *)
Stamped(call, n) ==
    <<[call EXCEPT !.args = Quote(@)], [call |-> "source", source |-> Own(n)]>>

(* One round of derive_spytial_decorators's loop *)
Expanded(answer) ==
    /\ answer.ok
    /\ \/ answer.calls = {} /\ UNCHANGED <<calls, shims>>
       \/ /\ \E call \in answer.calls : calls' = calls \o Stamped(call, next)
          /\ shims' = IF Warned[attrs[next]] THEN Append(shims, next) ELSE shims

Expand ==
    /\ stage = "expanding" /\ next <= Len(attrs)
    /\ Expanded(Parsed[attrs[next]])
    /\ next' = next + 1
    /\ UNCHANGED <<attrs, stage, builder, collected>>

(* return err.to_compile_error() *)
Refuse ==
    /\ stage = "expanding" /\ next <= Len(attrs)
    /\ ~Parsed[attrs[next]].ok
    /\ stage' = "refused"
    /\ UNCHANGED <<attrs, next, calls, shims, builder, collected>>

(* The probes of the field types come after the type's own calls, and the
   expansion is compiled. *)
FinishExpansion ==
    /\ stage = "expanding" /\ next > Len(attrs)
    /\ calls' = calls \o [n \in DOMAIN Fields |-> [call |-> "extend_with", set |-> Fields[n]]]
    /\ stage' = "running"
    /\ next' = 1
    /\ UNCHANGED <<attrs, shims, builder, collected>>

RunCall ==
    /\ stage = "running" /\ next <= Len(calls)
    /\ builder' = Apply(builder, calls[next])
    /\ next' = next + 1
    /\ UNCHANGED <<attrs, stage, calls, shims, collected>>

(* build() returns to an export of a value of the type, ... *)
Build ==
    /\ stage = "running" /\ next > Len(calls)
    /\ stage' = "merging"
    /\ next' = 1
    /\ collected' = ExtendUnique(collected, builder)
    /\ UNCHANGED <<attrs, calls, shims, builder>>

(* ... which meets values of other types in it. *)
Merge ==
    /\ stage = "merging" /\ next <= Len(Met)
    /\ collected' = ExtendUnique(collected, Met[next])
    /\ next' = next + 1
    /\ UNCHANGED <<attrs, stage, calls, shims, builder>>

Next ==
    Expand \/ Refuse \/ FinishExpansion \/ RunCall \/ Build \/ Merge

Spec == Init /\ [][Next]_vars

=============================================================================
