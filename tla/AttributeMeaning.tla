-------------------------- MODULE AttributeMeaning --------------------------
(* What an attribute means, defined on the attribute as it is written (its
   items, as rustc's own parser sees them) and not on its text, and what the
   macro, the builder and the merge owe to it. *)
EXTENDS Attributes

(* The value of the first item `key` of one of the given forms *)
Written(items, key, forms) ==
    {items[i].of :
        i \in First({n \in DOMAIN items : items[n].key = key /\ items[n].form \in forms})}

Numeric == {"weight", "width", "height", "opacity"}
Boolean == {"negated", "show_label", "show_labels", "hidden"}

(* Of a plain key, the value with the key's type *)
Said(items, key) ==
    LET words == {"word"} IN
    IF key \in Numeric
    THEN {Numbers[w[1]] : w \in {v \in Written(items, key, words) : v[1] \in DOMAIN Numbers}}
    ELSE IF key \in Boolean
    THEN {w[1] = "true" : w \in {v \in Written(items, key, words) : v[1] \in {"true", "false"}}}
    ELSE Written(items, key, {"str", "raw"})

SaidBlock(items, block) ==
    {[leaf \in Blocks[block] |-> Said(g, leaf)] : g \in Written(items, block, {"group"})}

SaidAddEdge(items) ==
    {[form |-> "block", points |-> Or(Said(g, "points"), <<"none">>),
      line_style |-> SaidBlock(g, "line_style"), text_style |-> SaidBlock(g, "text_style")] :
        g \in Written(items, "add_edge", {"group"})}
    \cup {[form |-> "direction", points |-> p, line_style |-> {}, text_style |-> {}] :
             p \in Said(items, "add_edge")}

SaidDirections(items) ==
    Written(items, "directions", {"list"})
    \cup {[n \in DOMAIN w |-> <<w[n][1]>>] : w \in Written(items, "directions", {"words"})}

SaidDraw(items) ==
    {[end \in {"source", "target"} |->
        LET name == SelectSeq(IF end = "source"
                              THEN SubSeq(d, 1, Min({n \in DOMAIN d : d[n] = "->"}) - 1)
                              ELSE SubSeq(d, Min({n \in DOMAIN d : d[n] = "->"}) + 1, Len(d)),
                              LAMBDA x : x # "_")
        IN  IF name = << >> THEN {} ELSE {name}] : d \in Said(items, "draw")}

SaidAny(attr, key) ==
    CASE key \in DOMAIN Blocks \ {"add_edge"} -> SaidBlock(attr.items, key)
      [] key = "add_edge" -> SaidAddEdge(attr.items)
      [] key = "directions" -> SaidDirections(attr.items)
      [] key = "draw" -> SaidDraw(attr.items)
      [] attr.name = "size" /\ key \in {"width", "height"} /\ Said(attr.items, key) = {1} -> {}
      [] OTHER -> Said(attr.items, key)

(* What a key that is left out, or has a value of another type, stands for *)
Defaults ==
    [attribute |-> [field |-> <<"name">>],
     flag |-> [name |-> << >>],
     orientation |-> [selector |-> << >>, directions |-> << >>, negated |-> FALSE],
     align |-> [selector |-> << >>, direction |-> <<"horizontal">>, negated |-> FALSE],
     cyclic |-> [selector |-> << >>, direction |-> <<"clockwise">>, negated |-> FALSE],
     group |-> [selector |-> << >>, name |-> <<"default">>, negated |-> FALSE],
     atom_color |-> [selector |-> << >>, value |-> <<"blue">>],
     atom_style |-> << >>,
     size |-> [selector |-> << >>, height |-> 40, width |-> 60],
     icon |-> [selector |-> << >>, path |-> <<"icon.png">>, show_labels |-> FALSE],
     edge_style |-> [field |-> <<"relation">>],
     hide_field |-> [field |-> <<"field">>],
     hide_atom |-> [selector |-> << >>],
     inferred_edge |-> [name |-> <<"edge">>, selector |-> << >>],
     tag |-> [to_tag |-> << >>, name |-> << >>, value |-> << >>]]

MeantArgs(attr) ==
    [key \in Keys[attr.name] |->
       IF key \in DOMAIN Defaults[attr.name]
       THEN Or(SaidAny(attr, key), Defaults[attr.name][key])
       ELSE SaidAny(attr, key)]

PlainForm ==
    [attribute |-> "attribute", flag |-> "flag", orientation |-> "orientation",
     align |-> "align", cyclic |-> "cyclic", group |-> "group", atom_style |-> "atomStyle",
     size |-> "size", hide_field |-> "hideField", hide_atom |-> "hideAtom",
     inferred_edge |-> "inferredEdge", tag |-> "tag"]

UnstyledAtom ==
    [selector |-> {}, fill_style |-> {}, border_style |-> {}, icon_style |-> {},
     text_style |-> {}, show_label |-> {}]

EdgeArgs == {"field", "selector", "filter", "line_style", "text_style", "show_label", "hidden"}

(* The rule: the deprecated forms mean what the current ones are documented to
   draw in their place. *)
MeantBy(attr, a) ==
    CASE attr.name = "atom_color" ->
           [form |-> "atomStyle",
            args |-> [UnstyledAtom EXCEPT
                        !.selector = {a.selector},
                        !.border_style = {[color |-> {a.value}, width |-> {}]}]]
      [] attr.name = "icon" ->
           [form |-> "atomStyle",
            args |-> [UnstyledAtom EXCEPT
                        !.selector = {a.selector}, !.show_label = {a.show_labels},
                        !.icon_style = {[path |-> {a.path}, opacity |-> {},
                           placement |-> {<<IF a.show_labels THEN "badge" ELSE "full">>}]}]]
      [] attr.name = "edge_style" /\ a.line_style \cup a.text_style = {} ->
           [form |-> "edgeStyle",
            args |-> [[k \in EdgeArgs |-> a[k]] EXCEPT !.line_style =
               {[color |-> {Or(a.value, <<"blue">>)}, highlight |-> {}, weight |-> a.weight,
                 pattern |-> {IF s = <<"Dashed">> THEN <<"dashed">> ELSE s : s \in a.style}]}]]
      [] attr.name = "edge_style" /\ a.line_style \cup a.text_style # {} ->
           [form |-> "edgeStyle", args |-> [k \in EdgeArgs |-> a[k]]]
      [] OTHER -> [form |-> PlainForm[attr.name], args |-> a]

Meant(attr) == MeantBy(attr, MeantArgs(attr))

-----------------------------------------------------------------------------
(* Validity, by the tables *)

Allowed ==
    [pattern |-> Patterns, size |-> Sizes, placement |-> Placements, points |-> Points,
     add_edge |-> Points, style |-> Patterns \cup {<<"Dashed">>}]

ValidValue(items, key) ==
    /\ key \in DOMAIN Allowed => Said(items, key) \subseteq Allowed[key]
    /\ key \in {"weight", "width", "height"} => 0 \notin Said(items, key)
    /\ key = "opacity" => Said(items, key) \subseteq 0 .. Numbers["1"]

(* A word alone in a block is not taken for a key. *)
ValidKeys(items, known) ==
    \A n \in DOMAIN items :
       /\ items[n].form # "bare" => items[n].key \in known
       /\ ValidValue(items, items[n].key)

Groups(items) == {n \in DOMAIN items : items[n].form = "group"}

ValidBlock(items, block) ==
    /\ ValidKeys(items, Blocks[block])
    /\ \A n \in Groups(items) :
          /\ ValidKeys(items[n].of, Blocks[items[n].key])
          /\ Groups(items[n].of) = {}

ValidDirections(directions) ==
    LET given == {d[1] : d \in ToSet(directions)} IN
    /\ given # {} /\ {<<d>> : d \in given} \subseteq Directions
    /\ ~({"above", "below"} \subseteq given) /\ ~({"left", "right"} \subseteq given)
    /\ \A side \in {<<"directlyAbove", "above">>, <<"directlyBelow", "below">>,
                    <<"directlyLeft", "left">>, <<"directlyRight", "right">>} :
          side[1] \in given => given \subseteq ToSet(side)

ValidEnds(draw) ==
    \E left, right \in 1 .. Len(draw) :
       /\ left + right + 1 = Len(draw) /\ draw[left + 1] = "->"
       /\ \A n \in DOMAIN draw : draw[n] = "->" => n = left + 1
       /\ ~(draw[1] = "_" /\ draw[Len(draw)] = "_")

ValidArgs(attr, a) ==
    /\ \A n \in DOMAIN attr.items : attr.items[n].key \in Keys[attr.name]
    /\ ValidKeys(attr.items, Keys[attr.name])
    /\ \A n \in Groups(attr.items) : ValidBlock(attr.items[n].of, attr.items[n].key)
    /\ attr.name = "flag" => a.name \in FlagNames
    /\ attr.name = "orientation" /\ attr.list => ValidDirections(a.directions)
    /\ attr.name = "align" => a.direction \in Values({"horizontal", "vertical"})
    /\ attr.name = "cyclic" => a.direction \in Values({"clockwise", "counterclockwise"})
    /\ attr.name = "inferred_edge" => \A d \in Said(attr.items, "draw") : ValidEnds(d)
    /\ attr.name = "edge_style" =>
          \/ a.line_style \cup a.text_style = {}
          \/ a.value \cup a.style = {} /\ a.weight = {}

Valid(attr) == ValidArgs(attr, MeantArgs(attr))

(* An attribute without a list means a rule only if nothing is asked of one; the
   rest mean nothing, and are neither refused nor warned about (a flag's name is
   asked for, and it is refused). *)
MeansARule(attr) == attr.name \in DOMAIN Keys /\ (attr.list \/ attr.name = "attribute")

IsDeprecated(attr) ==
    \/ attr.name \in {"icon", "atom_color"}
    \/ /\ attr.name = "edge_style"
       /\ \E n \in DOMAIN attr.items :
             attr.items[n].key \in {"value", "style", "weight"}
             /\ attr.items[n].form \notin {"bare", "group"}

IsValid == [a \in DOMAIN Catalogue |->
              Catalogue[a].name \in DOMAIN Keys => Valid(Catalogue[a])]
Meaning == [a \in DOMAIN Catalogue |->
              IF IsValid[a] /\ MeansARule(Catalogue[a]) THEN {Meant(Catalogue[a])} ELSE {}]

(* Every attribute of the catalogue, alone, is read as it is meant.  What the
   proofs assume of a catalogue, and the states with one attribute show of the
   run's. *)
Read(a) == {BuiltRule([call EXCEPT !.args = Quote(@)]) : call \in Parsed[a].calls}

ReadAsMeant ==
    \A a \in DOMAIN Catalogue :
       /\ Parsed[a].ok <=> IsValid[a]
       /\ IsValid[a] => {[form |-> rule.form, args |-> rule.args] : rule \in Read(a)} = Meaning[a]
       /\ IsValid[a] => (Warned[a] <=> IsDeprecated(Catalogue[a]))

-----------------------------------------------------------------------------
TypeOK ==
    /\ attrs \in Seq(DOMAIN Catalogue) /\ Len(attrs) <= MaxAttributes
    /\ stage \in {"expanding", "refused", "running", "merging"}
    /\ next \in Nat \ {0}
    /\ ToSet(shims) \subseteq DOMAIN attrs
    /\ builder.last \in {"none", "constraint", "directive"}
    /\ IsDecorators(builder) /\ IsDecorators(collected)

(* The macro refuses an attribute exactly when one of its keys, at any level,
   is not in the generated tables, or one of its values is not allowed there:
   "a typo fails here rather than rendering a diagram quietly missing what you
   asked for", and what is written inside a selector is never taken for a key. *)
RefusesExactlyInvalid ==
    /\ stage = "refused" => ~IsValid[attrs[next]]
    /\ \A n \in DOMAIN attrs :
          stage \in {"running", "merging"} \/ (stage # "refused" /\ n < next) => IsValid[attrs[n]]

(* Of the attributes read so far, a warning on exactly those that are of a
   deprecated shape and have a list; a legacy key's name inside a style block or
   a selector is not the legacy key.  The deprecated that go without one are the
   bare #[icon] and #[atom_color], which draw nothing: "every spelling warns"
   (macros/src/lib.rs:2521) and "whatever it is written with" (spec_tables.rs:124)
   say that these warn too, and they do not. *)
WarnsOfDeprecatedLists ==
    LET done == {n \in DOMAIN attrs : stage \in {"running", "merging"} \/ n < next}
        deprecated == {n \in done : IsDeprecated(Catalogue[attrs[n]])}
    IN  /\ ToSet(shims) = {n \in deprecated : Catalogue[attrs[n]].list}
        /\ \A n \in deprecated : n \notin ToSet(shims) <=> Meaning[attrs[n]] = {}

(* The rules of the attributes, in the order they are written, each with the
   attribute it cites (a flag cites none), and those of the field types after
   them; constraints and directives apart *)
Cites(rules, source) ==
    {[form |-> rule.form, args |-> rule.args,
      source |-> IF rule.form = "flag" THEN {} ELSE {source}] : rule \in rules}

Constraints(rules) == {rule \in rules : rule.form \in ConstraintForms}
Directives(rules) == {rule \in rules : rule.form \notin ConstraintForms}

InSequence(rules) == IF rules = {} THEN << >> ELSE <<Or(rules, {})>>

MeantOf(type, chosen) ==
    [constraints |-> FlattenSeq([n \in DOMAIN chosen |->
         InSequence(Constraints(Cites(Meaning[chosen[n]], <<type, n>>)))]),
     directives |-> FlattenSeq([n \in DOMAIN chosen |->
         InSequence(Directives(Cites(Meaning[chosen[n]], <<type, n>>)))])]

MeantConstraints ==
    MeantOf("Self", attrs).constraints
    \o FlattenSeq([f \in DOMAIN Fields |-> Fields[f].constraints])
MeantDirectives ==
    MeantOf("Self", attrs).directives
    \o FlattenSeq([f \in DOMAIN Fields |-> Fields[f].directives])

Bare(rules) == [n \in DOMAIN rules |-> [form |-> rules[n].form, args |-> rules[n].args]]

(* The built rules say what the attributes say, no more and no less: every key
   of the rule has the value written for it at its own level, or its default,
   whatever the selectors, the style blocks and the order of the keys are. *)
RulesSayWhatIsWritten ==
    stage = "merging" =>
       /\ Bare(builder.constraints) = Bare(MeantConstraints)
       /\ Bare(builder.directives) = Bare(MeantDirectives)

CitedBy(rules) == [n \in DOMAIN rules |-> rules[n].source]

(* Every rule cites the attribute it comes from: the type's own their own, in
   spite of the other list having been pushed to meanwhile, and the field
   types' the ones they came with; a flag cites none. *)
SourcesPointHome ==
    stage = "merging" =>
       /\ CitedBy(builder.constraints) = CitedBy(MeantConstraints)
       /\ CitedBy(builder.directives) = CitedBy(MeantDirectives)

(* One rule for all that say the same, and it is the first of them *)
FirstOfEach(merged, met) ==
    /\ ToSet(merged) \subseteq ToSet(met)
    /\ \A m, n \in DOMAIN merged : SameRule(merged[m], merged[n]) => m = n
    /\ \A n \in DOMAIN met :
          (\A m \in 1 .. n - 1 : ~SameRule(met[m], met[n])) => met[n] \in ToSet(merged)

(* "the same rule reached through two types is one rule": an export holds each
   rule once, and cites where it was met first. *)
MergedOnce ==
    stage = "merging" =>
       /\ FirstOfEach(collected.constraints,
             builder.constraints \o FlattenSeq([m \in 1 .. next - 1 |-> Met[m].constraints]))
       /\ FirstOfEach(collected.directives,
             builder.directives \o FlattenSeq([m \in 1 .. next - 1 |-> Met[m].directives]))
=============================================================================
