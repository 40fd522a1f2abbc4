---------------------------- MODULE SpecCodegen ----------------------------
(***************************************************************************)
(* spec-codegen: the tables of the derive macro and the reference of its   *)
(* rustdoc are generated from spytial-core's language manifest, which      *)
(* changes with each release that is vendored, by the policy tables of     *)
(* spec-codegen/src/lib.rs, which do not.  The tests that CI runs say      *)
(* whether what is checked in may be shipped.                              *)
(*                                                                         *)
(* The text of the outputs is abstracted to what it says of each key.  A   *)
(* set of at most one element is an option.                                *)
(***************************************************************************)
EXTENDS LanguageManifest, Naturals, SequencesExt

CONSTANTS
    Changes,      \* what a release may do: [part, id, to], to an option
    MaxReleases   \* bound: releases vendored after the first

ASSUME MaxReleasesIsNatural == MaxReleases \in Nat

(* A release's version is counted. *)
ASSUME ChangesKeepVersion == \A change \in Changes : change.part # "version"

VARIABLES
    manifest,     \* templates/vendor/spytial-language.json
    tables,       \* macros/src/spec_tables.rs
    reference,    \* macros/src/attributes.md
    stage         \* "idle", or "writing" between the generator's two writes

vars == <<manifest, tables, reference, stage>>

-----------------------------------------------------------------------------
(* The policy tables *)

ATTR_SOURCES ==
    [attribute |-> <<"attribute">>, flag |-> <<"flag">>, orientation |-> <<"orientation">>,
     align |-> <<"align">>, cyclic |-> <<"cyclic">>, group |-> <<"group">>,
     atom_color |-> <<"atomColor">>, atom_style |-> <<"atomStyle">>, size |-> <<"size">>,
     icon |-> <<"icon">>, edge_style |-> <<"edgeStyle", "edgeColor">>,
     hide_field |-> <<"hideField">>, hide_atom |-> <<"hideAtom">>,
     inferred_edge |-> <<"inferredEdge">>, tag |-> <<"tag">>]

BLOCK_SOURCES ==
    [lineStyle |-> "line_style", textStyle |-> "text_style", borderStyle |-> "border_style",
     fillStyle |-> "fill_style", iconStyle |-> "icon_style"]

UNMAPPED_ITEMS == {}

ALT_FORM_BLOCKS == [add_edge |-> [item |-> "group", field |-> "addEdge"]]

FIELD_RENAMES ==
    {[item |-> "*", yaml |-> "hold", rust |-> "negated"],
     [item |-> "flag", yaml |-> "flag", rust |-> "name"]}

FIELD_SKIPS ==
    {"inferredEdge"} \X {"color", "style", "weight", "highlight"}
    \cup {"edgeColor"} \X {"highlight", "field", "selector", "filter", "showLabel", "hidden"}

SHAPE_DISCRIMINATORS == [edgeColor |-> {"value", "style", "weight"}]

DEPRECATIONS_NOT_APPLICABLE ==
    {"size@directives", "hideAtom@directives", "inferredEdge.color", "inferredEdge.style",
     "inferredEdge.weight", "inferredEdge.highlight"}

-----------------------------------------------------------------------------
Snake ==
    [lineStyle |-> "line_style", textStyle |-> "text_style", borderStyle |-> "border_style",
     fillStyle |-> "fill_style", iconStyle |-> "icon_style", showLabel |-> "show_label",
     showLabels |-> "show_labels", addEdge |-> "add_edge", toTag |-> "to_tag",
     minGap |-> "min_gap"]

(* The names with capitals are those above *)
CamelToSnake(name) == IF name \in DOMAIN Snake THEN Snake[name] ELSE name

RustKey(id, field) ==
    LET renames == {f \in FIELD_RENAMES : f.item \in {"*", id} /\ f.yaml = field}
        renamed == {r.rust : r \in renames}
    IN
    IF renamed = {} THEN CamelToSnake(field) ELSE CHOOSE key \in renamed : TRUE

IsSkipped(id, field) == <<id, field>> \in FIELD_SKIPS

Kept(id, fields) == {f \in DOMAIN fields : ~IsSkipped(id, f)}

(* Of two fields with one key, the first counts. *)
FieldFor(id, fields, key) == fields[CHOOSE f \in Kept(id, fields) : RustKey(id, f) = key]

RulesForFields(id, fields) ==
    [key \in {RustKey(id, f) : f \in Kept(id, fields)} |-> FieldFor(id, fields, key).rule]

AuthoredFrom(id) == {attr \in DOMAIN ATTR_SOURCES : Contains(ATTR_SOURCES[attr], id)}

-----------------------------------------------------------------------------
(* generate(): the tables, when it succeeds *)

EveryItemMapped(man) ==
    \A id \in DOMAIN man.items : AuthoredFrom(id) # {} \/ id \in UNMAPPED_ITEMS

AltForm(man, block) ==
    LET at == ALT_FORM_BLOCKS[block] IN
    IF at.field \in DOMAIN man.items[at.item].fields
    THEN man.items[at.item].fields[at.field].alt ELSE {}

SourcesPresent(man) ==
    /\ \A attr \in DOMAIN ATTR_SOURCES : ToSet(ATTR_SOURCES[attr]) \subseteq DOMAIN man.items
    /\ \A block \in DOMAIN ALT_FORM_BLOCKS : AltForm(man, block) # {}
    /\ "directions" \in DOMAIN man.items["orientation"].fields

WhenUnsaid(man, id, attr) ==       \* does not ask if the attribute has other sources
    LET item == man.items[id] IN
    IF item.discriminator # {}
    THEN {IF d.present THEN {RustKey(id, d.field)} ELSE {} : d \in item.discriminator}
    ELSE IF id \in DOMAIN SHAPE_DISCRIMINATORS THEN {SHAPE_DISCRIMINATORS[id]} ELSE {{}}

(* The keys that select a deprecated shape, if the tables or the manifest say *)
WhenAnyKey(man, id, attr) ==
    LET item == man.items[id] IN
    IF item.discriminator # {}
    THEN {IF d.present THEN {RustKey(id, d.field)} ELSE {} : d \in item.discriminator}
    ELSE IF id \in DOMAIN SHAPE_DISCRIMINATORS THEN {SHAPE_DISCRIMINATORS[id]}
    ELSE IF Len(ATTR_SOURCES[attr]) = 1 THEN {{}} ELSE {}

Applicable(man) == DOMAIN man.deprecations \ DEPRECATIONS_NOT_APPLICABLE

DeprecationsKnown(man) ==
    /\ \A id \in Applicable(man) :
          /\ man.deprecations[id].kind = "item"
          /\ AuthoredFrom(id) # {}
          /\ \A attr \in AuthoredFrom(id) : WhenAnyKey(man, id, attr) # {}
          /\ AuthoredFrom(man.deprecations[id].replacedBy) # {}
    /\ DEPRECATIONS_NOT_APPLICABLE \subseteq DOMAIN man.deprecations

Generates(man) ==
    /\ EveryItemMapped(man)
    /\ DOMAIN man.blocks = DOMAIN BLOCK_SOURCES
    /\ SourcesPresent(man)
    /\ DeprecationsKnown(man)

(* Of a key that several have, the first is taken. *)
Merged(rules) ==
    [key \in UNION {DOMAIN rules[n] : n \in DOMAIN rules} |->
        LET first == CHOOSE n \in DOMAIN rules :
                        key \in DOMAIN rules[n] /\ \A m \in 1 .. n - 1 : key \notin DOMAIN rules[m]
        IN  rules[first][key]]

Negated(item) == IF item.hold THEN {"negated"} ELSE {}

AttrRules(man, attr) ==
    Merged([n \in DOMAIN ATTR_SOURCES[attr] |->
              LET id == ATTR_SOURCES[attr][n] IN
              Merged(<<RulesForFields(id, man.items[id].fields),
                       Optional(Negated(man.items[id]))>>)])

BlockRules(man) ==
    Merged(<<
       [block \in {BLOCK_SOURCES[name] : name \in DOMAIN BLOCK_SOURCES} |->
          LET name == CHOOSE n \in DOMAIN BLOCK_SOURCES : BLOCK_SOURCES[n] = block IN
          RulesForFields(name, man.blocks[name])],
       [block \in DOMAIN ALT_FORM_BLOCKS |->
          LET fields == CHOOSE f \in AltForm(man, block) : TRUE IN
          RulesForFields(ALT_FORM_BLOCKS[block].field, fields)]>>)

DeprecationSpecs(man) ==
    UNION {UNION {{[attr |-> attr, when_any_key |-> keys, replaced_by |-> replacement] :
              keys \in WhenAnyKey(man, id, attr),
              replacement \in AuthoredFrom(man.deprecations[id].replacedBy)} :
                 attr \in AuthoredFrom(id)} : id \in Applicable(man)}

Tables(man) ==
    [version |-> man.version,
     attrs |-> [attr \in DOMAIN ATTR_SOURCES |-> AttrRules(man, attr)],
     blocks |-> BlockRules(man),
     deprecations |-> DeprecationSpecs(man),
     sources |-> man.sources,
     atMostOneOf |-> man.atMostOneOf,
     narrowsTo |-> man.narrowsListTo]

CheckedIn ==
    [version |-> SPYTIAL_CORE_VERSION, attrs |-> ATTRS, blocks |-> BLOCKS,
     deprecations |-> DEPRECATIONS, sources |-> SOURCE_SUPPORTED_BY,
     atMostOneOf |-> ORIENTATION_AT_MOST_ONE_OF, narrowsTo |-> ORIENTATION_NARROWS_TO]

-----------------------------------------------------------------------------
(* generate_reference(): what attributes.md says *)

FirstItem(man, attr) == man.items[ATTR_SOURCES[attr][1]]

(* Of a number's bounds, an exclusive minimum of 0 alone, else a minimum and the
   maximum with it *)
ToldBound(bound) ==
    [above |-> bound.above \cap {0},
     least |-> IF bound.above = {0} THEN {} ELSE bound.least,
     most |-> IF bound.above = {0} \/ bound.least = {} THEN {} ELSE bound.most]

(* The field's type decides whether its values and bounds are told.  A legacy
   item's keys are never said to be required. *)
FieldLine(field, legacy) ==
    [values |-> IF field.type \in {"enum", "enum-list"} THEN field.rule.values ELSE {},
     bound |-> IF field.type = "number" THEN ToldBound(field.rule.bound) ELSE Unbounded,
     default |-> field.rule.default,
     required |-> field.rule.required /\ ~legacy]

LinesOf(man, attr, n) ==
    LET id == ATTR_SOURCES[attr][n]
        fields == man.items[id].fields
    IN  [key \in {RustKey(id, f) : f \in Kept(id, fields)} |->
            FieldLine(FieldFor(id, fields, key), n > 1)]

LastLines(man, attr) ==            \* the last item that has a key describes it
    LET items == Len(ATTR_SOURCES[attr]) IN
    Merged([n \in 1 .. items |-> LinesOf(man, attr, items + 1 - n)])

KeyLines(man, attr) ==
    Merged([n \in DOMAIN ATTR_SOURCES[attr] |-> LinesOf(man, attr, n)])

ItemReference(man, attr) ==
    Merged(<<KeyLines(man, attr), Optional(Negated(FirstItem(man, attr)))>>)

(* The form, by the keys it is written with if its attribute has others *)
DeprecatedForms(man) ==
    UNION {{[attr |-> attr,
             keys |-> IF Len(ATTR_SOURCES[attr]) > 1 /\ id \in DOMAIN SHAPE_DISCRIMINATORS
                      THEN SHAPE_DISCRIMINATORS[id] ELSE {},
             replaced |-> AuthoredFrom(man.deprecations[id].replacedBy)] :
               attr \in AuthoredFrom(id)} :
           id \in {i \in DOMAIN man.deprecations : man.deprecations[i].kind = "item"}}

(* A block's leaves, every one with a line of its own *)
LeafLines(name, leaves) ==
    {[key |-> RustKey(name, f), line |-> FieldLine(leaves[f], FALSE)] : f \in DOMAIN leaves}

BlockReference(man) ==
    Merged(<<
       [block \in {BLOCK_SOURCES[name] : name \in DOMAIN BLOCK_SOURCES} |->
          LET name == CHOOSE n \in DOMAIN BLOCK_SOURCES : BLOCK_SOURCES[n] = block IN
          LeafLines(name, man.blocks[name])],
       [block \in DOMAIN ALT_FORM_BLOCKS |->
          LET fields == CHOOSE f \in AltForm(man, block) : TRUE IN
          LeafLines(ALT_FORM_BLOCKS[block].field, fields)]>>)

Reference(man) ==
    [version |-> man.version,
     sections |->
       [section \in {"constraints", "directives"} |->
          [attr \in {a \in DOMAIN ATTR_SOURCES : section \in FirstItem(man, a).sections} |->
             ItemReference(man, attr)]],
     blocks |-> BlockReference(man),
     deprecated |-> DeprecatedForms(man)]

-----------------------------------------------------------------------------
Init ==
    /\ manifest = Vendored
    /\ tables = CheckedIn
    /\ reference = Reference(Vendored)
    /\ stage = "idle"

Put(entries, id, option) ==
    IF option = {} THEN [k \in DOMAIN entries \ {id} |-> entries[k]]
    ELSE [k \in {id} |-> CHOOSE v \in option : TRUE] @@ entries

(* Another release is vendored, with its VERSION.txt. *)
Vendor(change) ==
    /\ stage = "idle" /\ manifest.version < MaxReleases
    /\ manifest' = [manifest EXCEPT ![change.part] = Put(@, change.id, change.to),
                                   !.version = @ + 1]
    /\ UNCHANGED <<tables, reference, stage>>

(* main(): both outputs are made, or neither file is written; *)
WriteTables ==
    /\ stage = "idle" /\ Generates(manifest)
    /\ tables' = Tables(manifest)
    /\ stage' = "writing"
    /\ UNCHANGED <<manifest, reference>>

WriteReference ==
    /\ stage = "writing"
    /\ reference' = Reference(manifest)
    /\ stage' = "idle"
    /\ UNCHANGED <<manifest, tables>>

(* the second write may fail. *)
WriteFails ==
    /\ stage = "writing"
    /\ stage' = "idle"
    /\ UNCHANGED <<manifest, tables, reference>>

Next ==
    \/ \E change \in Changes : Vendor(change)
    \/ WriteTables \/ WriteReference \/ WriteFails

Spec == Init /\ [][Next]_vars

-----------------------------------------------------------------------------
(* The tests: spec-codegen/tests/drift.rs and those of the macro's tables *)

UpToDate ==
    Generates(manifest) /\ tables = Tables(manifest) /\ reference = Reference(manifest)

(* attributes(...) of the derive *)
Declared ==
    {"attribute", "flag", "orientation", "align", "cyclic", "group", "atom_color",
     "atom_style", "size", "icon", "edge_style", "hide_field", "hide_atom",
     "inferred_edge", "tag"}

(* The enum of runtime.rs that emits an item *)
EmittedUnder ==
    [id \in {"orientation", "cyclic", "align", "group", "size", "hideAtom"} |-> "constraints"]
    @@ [id \in {"flag", "atomStyle", "edgeStyle", "attribute", "tag", "hideField",
                "inferredEdge"} |-> "directives"]

SectionsMatch(man) ==
    \A id \in DOMAIN EmittedUnder :
       id \in DOMAIN man.items /\ EmittedUnder[id] \in man.items[id].sections

(* source() is called for every attribute but flag. *)
SourcesMatch(made) ==
    \A attr \in DOMAIN made.attrs :
       (ATTR_SOURCES[attr][1] \in made.sources) = (attr # "flag")

DeprecationsRefer(made) ==
    \A dep \in made.deprecations :
       /\ dep.attr \in DOMAIN made.attrs /\ dep.replaced_by \in DOMAIN made.attrs
       /\ dep.when_any_key \subseteq DOMAIN made.attrs[dep.attr]

TablesFit(man, made) ==
    DOMAIN made.attrs = Declared
    /\ SectionsMatch(man) /\ SourcesMatch(made) /\ DeprecationsRefer(made)

Green == UpToDate /\ TablesFit(manifest, tables)

-----------------------------------------------------------------------------
(* The keys by which a user writes an item, with what is said of them *)
Offered(man, id) ==
    {[key |-> RustKey(id, f), rule |-> man.items[id].fields[f].rule] :
        f \in Kept(id, man.items[id].fields)}

KeysOf(man, id) == {offer.key : offer \in Offered(man, id)}

(* The keys of two items that are written as one attribute *)
Shared(attr) ==
    LET sources == ToSet(ATTR_SOURCES[attr]) IN
    {key \in UNION {KeysOf(manifest, id) : id \in sources} :
        \E a, b \in sources : a # b /\ key \in KeysOf(manifest, a) /\ key \in KeysOf(manifest, b)}

(* "Every item and block the manifest describes must be accounted for": each
   has an attribute that takes each of its fields, with the field's own values,
   bounds and default, unless the policy skips it; and no attribute takes a key
   that no item of its has, as `projection` once did. *)
EveryFieldOffered ==
    /\ \A id \in DOMAIN manifest.items : \E attr \in AuthoredFrom(id) :
          /\ \A offer \in Offered(manifest, id) :
                offer.key \notin Shared(attr) => tables.attrs[attr][offer.key] = offer.rule
          /\ Negated(manifest.items[id]) \subseteq DOMAIN tables.attrs[attr]
    /\ \A attr \in DOMAIN tables.attrs :
          DOMAIN tables.attrs[attr] \subseteq
             UNION {KeysOf(manifest, id) \cup Negated(manifest.items[id]) :
                       id \in ToSet(ATTR_SOURCES[attr])}

(* The same of the leaves of the style blocks, group's add_edge among them *)
EveryLeafOffered ==
    /\ \A name \in DOMAIN manifest.blocks :
          /\ DOMAIN tables.blocks[CamelToSnake(name)] =
                {CamelToSnake(f) : f \in DOMAIN manifest.blocks[name]}
          /\ \A f \in DOMAIN manifest.blocks[name] :
                tables.blocks[CamelToSnake(name)][CamelToSnake(f)] =
                   manifest.blocks[name][f].rule
    /\ \A form \in manifest.items["group"].fields["addEdge"].alt :
          DOMAIN tables.blocks["add_edge"] = {CamelToSnake(f) : f \in DOMAIN form}

Warned(attr, keys) ==
    \E dep \in tables.deprecations :
       dep.attr = attr /\ (dep.when_any_key = {} \/ dep.when_any_key \cap keys # {})

(* The keys that any writing of a deprecated item has *)
Telling(man, id) ==
    {offer.key : offer \in {o \in Offered(man, id) : o.rule.required}}
    \cup {RustKey(id, d.field) : d \in man.items[id].discriminator}

(* "every entry in the manifest's deprecations[] is either warned about or
   listed": a deprecated item, written with what makes it one, is warned about,
   and never an item that is not, whatever keys of its own it is written with,
   although both may be one attribute. *)
DeprecatedItemsWarned ==
    \A attr \in DOMAIN tables.attrs : \A id \in ToSet(ATTR_SOURCES[attr]) :
       IF id \in DOMAIN manifest.deprecations
       THEN Telling(manifest, id) # {} => Warned(attr, Telling(manifest, id))
       ELSE ~Warned(attr, KeysOf(manifest, id) \ Shared(attr))

(* What the policy tables take for granted of a manifest, though no test asks:
   an item is written in one of the two sections, *)
SectionsGiven(man) ==
    \A id \in DOMAIN man.items :
       man.items[id].sections \cap {"constraints", "directives"} # {}

(* no two fields of an item have one key, and none has that of its hold, *)
KeysApart(man) ==
    \A id \in DOMAIN man.items : \A f, g \in Kept(id, man.items[id].fields) :
       /\ RustKey(id, f) = RustKey(id, g) => f = g
       /\ RustKey(id, f) # "negated"

(* nor do two leaves of a block, *)
LeavesApart(man) ==
    LET Forms == man.items["group"].fields["addEdge"].alt
        Blockwise == {man.blocks[name] : name \in DOMAIN man.blocks}
    IN  /\ \A form, other \in Forms : form = other
        /\ \A leaves \in Blockwise \cup Forms :
              /\ \A f, g \in DOMAIN leaves : CamelToSnake(f) = CamelToSnake(g) => f = g
              /\ "hold" \notin DOMAIN leaves

(* the items that share an attribute after its first have no hold, *)
LegacyNeverHolds(man) ==
    \A attr \in DOMAIN ATTR_SOURCES : \A n \in DOMAIN ATTR_SOURCES[attr] :
       n > 1 => ~man.items[ATTR_SOURCES[attr][n]].hold

(* and what selects the shape of such an item is a key of its own. *)
ShapesTold(man) ==
    /\ \A id \in UNION {ToSet(ATTR_SOURCES[attr]) :
                         attr \in {a \in DOMAIN ATTR_SOURCES : Len(ATTR_SOURCES[a]) > 1}} :
          \A d \in man.items[id].discriminator :
             d.present /\ d.field \in Kept(id, man.items[id].fields)
    /\ \A id \in DOMAIN SHAPE_DISCRIMINATORS :
          /\ SHAPE_DISCRIMINATORS[id] \subseteq KeysOf(man, id)
          /\ Telling(man, id) # {} => SHAPE_DISCRIMINATORS[id] \cap Telling(man, id) # {}

(* A field that has values is an enumeration, one that has bounds is a number,
   and the bounds are of a kind that the reference has words for. *)
Fits(field) ==
    LET bound == field.rule.bound IN
    /\ field.rule.values # {} => field.type \in {"enum", "enum-list"}
    /\ \A end \in DOMAIN Unbounded : bound[end] # {} => field.type = "number"
    /\ \/ bound.above = {0} /\ bound.least = {} /\ bound.most = {}
       \/ bound.above = {} /\ (bound.most # {} => bound.least # {})

TypesFit(man) ==
    LET FieldsOf == {man.items[id].fields : id \in DOMAIN man.items}
        Leaves == {man.blocks[name] : name \in DOMAIN man.blocks}
                     \cup man.items["group"].fields["addEdge"].alt
    IN  \A fields \in FieldsOf \cup Leaves : \A f \in DOMAIN fields : Fits(fields[f])

AsForeseen(man) ==
    /\ SectionsGiven(man) /\ KeysApart(man) /\ LeavesApart(man)
    /\ LegacyNeverHolds(man) /\ ShapesTold(man) /\ TypesFit(man)

(* The repository as it is, all of it constants *)
ASSUME CheckedInPasses ==
    /\ Generates(Vendored) /\ Tables(Vendored) = CheckedIn
    /\ TablesFit(Vendored, CheckedIn) /\ AsForeseen(Vendored)

(* Where the tests pass, the tables describe the language that is vendored. *)
DescribesIfGreen == Green => EveryFieldOffered /\ EveryLeafOffered /\ DeprecatedItemsWarned

(* A repository whose tests pass has tables that describe the language it
   vendors, whatever spytial-core's releases changed and whichever of the
   generator's runs were refused or cut short; the one checked in passes, with
   a manifest as it was foreseen. *)
GreenTablesDescribe ==
    /\ manifest.version = 0 => AsForeseen(manifest) /\ (stage = "idle" => Green)
    /\ DescribesIfGreen

Discriminated(attr) ==
    \E id \in ToSet(ATTR_SOURCES[attr]) : manifest.items[id].discriminator # {}

(* A line says nothing of its key that is not so, *)
SaysNoOther(line, rule) ==
    /\ line.values \in {{}, rule.values} /\ line.default = rule.default
    /\ line.required => rule.required
    /\ \A end \in DOMAIN Unbounded : line.bound[end] \subseteq rule.bound[end]

(* and says all that the macro holds an author to. *)
SaysAll(line, rule) ==
    /\ line.values = rule.values
    /\ \A end \in DOMAIN Unbounded : line.bound[end] = rule.bound[end]

Documents(line, rule) ==
    SaysNoOther(line, rule) /\ (TypesFit(manifest) => SaysAll(line, rule))

Sections(attr) ==
    {section \in DOMAIN reference.sections : attr \in DOMAIN reference.sections[section]}

(* The reference is made by code of its own, and goes by the fields' types where
   the tables do not: it lists, for every attribute and block, the keys that the
   macro takes, none with values, bounds or a default that the macro does not go
   by, all of them where the types fit, and as required what the attribute
   itself requires; and the same deprecated shapes, but for those that a
   discriminator selects. *)
GreenReferenceAgrees ==
    Green =>
       /\ \A attr \in DOMAIN tables.attrs :
             /\ Sections(attr) # {}
             /\ \A section \in Sections(attr) :
                   LET lines == reference.sections[section][attr]
                       rules == tables.attrs[attr]
                   IN  /\ DOMAIN lines = DOMAIN rules
                       /\ \A key \in DOMAIN rules :
                             /\ Documents(lines[key], rules[key])
                             /\ key \in KeysOf(manifest, ATTR_SOURCES[attr][1])
                                   => (lines[key].required <=> rules[key].required)
       /\ DOMAIN reference.blocks = DOMAIN tables.blocks
       /\ \A block \in DOMAIN tables.blocks :
             /\ {leaf.key : leaf \in reference.blocks[block]} = DOMAIN tables.blocks[block]
             /\ \A leaf \in reference.blocks[block] :
                   Documents(leaf.line, tables.blocks[block][leaf.key])
       /\ \A attr \in {a \in DOMAIN tables.attrs : ~Discriminated(a)} :
             {form.keys : form \in {f \in reference.deprecated : f.attr = attr}}
               = {dep.when_any_key : dep \in {d \in tables.deprecations : d.attr = attr}}
=============================================================================
