-------------------------- MODULE SpecCodegenProofs --------------------------
(* Where the tests pass, the tables describe the vendored manifest and the
   reference says the same of it, for any releases of spytial-core whose items,
   blocks and shapes are as the policy tables take for granted. *)
EXTENDS SpecCodegen, TLAPS

(* Only edge_style has two. *)
LEMMA Sources ==
    ASSUME NEW attr \in DOMAIN ATTR_SOURCES
    PROVE  DOMAIN ATTR_SOURCES[attr] = IF attr = "edge_style" THEN 1 .. 2 ELSE 1 .. 1
BY DEF ATTR_SOURCES

(* What is merged has every key, with the rule of the first that has it. *)
LEMMA FirstHasIt ==
    ASSUME NEW rules, DOMAIN rules = 1 .. 1 \/ DOMAIN rules = 1 .. 2
    PROVE  /\ DOMAIN Merged(rules) = UNION {DOMAIN rules[n] : n \in DOMAIN rules}
           /\ \A n \in DOMAIN rules : \A key \in DOMAIN rules[n] :
                 (\A m \in 1 .. n - 1 : key \notin DOMAIN rules[m])
                    => Merged(rules)[key] = rules[n][key]
           /\ \A key \in DOMAIN Merged(rules) : \E n \in DOMAIN rules :
                 /\ key \in DOMAIN rules[n] /\ \A m \in 1 .. n - 1 : key \notin DOMAIN rules[m]
                 /\ Merged(rules)[key] = rules[n][key]
<1> DEFINE IsFirst(key, n) ==
              key \in DOMAIN rules[n] /\ \A m \in 1 .. n - 1 : key \notin DOMAIN rules[m]
           First(key) == CHOOSE n \in DOMAIN rules : IsFirst(key, n)
           keys == UNION {DOMAIN rules[n] : n \in DOMAIN rules}
<1>1. Merged(rules) = [key \in keys |-> rules[First(key)][key]]
      BY DEF Merged
<1>2. \A n, m \in DOMAIN rules : \A key : (IsFirst(key, n) /\ IsFirst(key, m)) => n = m
      OBVIOUS
<1>3. ASSUME NEW key \in keys PROVE \E n \in DOMAIN rules : IsFirst(key, n)
  <2>1. CASE 1 \in DOMAIN rules /\ key \in DOMAIN rules[1]
        BY <2>1
  <2>2. CASE ~(1 \in DOMAIN rules /\ key \in DOMAIN rules[1])
    <3>1. PICK n \in DOMAIN rules : key \in DOMAIN rules[n]
          BY <1>3
    <3>2. n = 2
          BY <2>2, <3>1
    <3>3. IsFirst(key, n)
          BY <2>2, <3>1, <3>2
    <3> QED BY <3>3
  <2> QED BY <2>1, <2>2
<1> HIDE DEF IsFirst
<1>4. \A n \in DOMAIN rules : \A key : IsFirst(key, n) => First(key) = n
      BY <1>2
<1> HIDE DEF First
<1>5. \A n \in DOMAIN rules : \A key \in DOMAIN rules[n] : key \in keys
      OBVIOUS
<1>6. \A n \in DOMAIN rules : \A key \in keys :
         IsFirst(key, n) => Merged(rules)[key] = rules[n][key]
      BY <1>1, <1>4
<1>7. DOMAIN Merged(rules) = keys
      BY <1>1
<1>8. \A key \in keys : \E n \in DOMAIN rules :
         IsFirst(key, n) /\ Merged(rules)[key] = rules[n][key]
      BY <1>3, <1>6
<1> QED BY <1>5, <1>6, <1>7, <1>8 DEF IsFirst

TakesFirst(all, f, g) ==
    /\ DOMAIN all = DOMAIN f \cup DOMAIN g
    /\ \A key \in DOMAIN f : all[key] = f[key]
    /\ \A key \in DOMAIN g \ DOMAIN f : all[key] = g[key]

LEMMA FirstOfTwo ==
    ASSUME NEW f, NEW g
    PROVE  TakesFirst(Merged(<<f, g>>), f, g)
<1> DEFINE rules == <<f, g>>
<1>1. DOMAIN rules = 1 .. 2 /\ rules[1] = f /\ rules[2] = g
      OBVIOUS
<1> HIDE DEF rules
<1>2. /\ DOMAIN Merged(rules) = UNION {DOMAIN rules[n] : n \in DOMAIN rules}
      /\ \A n \in DOMAIN rules : \A key \in DOMAIN rules[n] :
            (\A m \in 1 .. n - 1 : key \notin DOMAIN rules[m])
               => Merged(rules)[key] = rules[n][key]
      BY <1>1, FirstHasIt
<1>3. DOMAIN Merged(rules) = DOMAIN f \cup DOMAIN g
      BY <1>1, <1>2
<1>4. ASSUME NEW key \in DOMAIN f PROVE Merged(rules)[key] = f[key]
  <2>1. \A m \in 1 .. 1 - 1 : key \notin DOMAIN rules[m]
        OBVIOUS
  <2> QED BY <1>1, <1>2, <2>1
<1>5. ASSUME NEW key \in DOMAIN g \ DOMAIN f PROVE Merged(rules)[key] = g[key]
  <2>1. \A m \in 1 .. 2 - 1 : key \notin DOMAIN rules[m]
        BY <1>1
  <2> QED BY <1>1, <1>2, <2>1
<1> QED BY <1>3, <1>4, <1>5 DEF rules, TakesFirst

-----------------------------------------------------------------------------
(* What is said of an item's own fields, and what its attribute adds *)

FieldRules(id) == RulesForFields(id, manifest.items[id].fields)

ItemRules(id) == Merged(<<FieldRules(id), Optional(Negated(manifest.items[id]))>>)

KeptFields(id) == Kept(id, manifest.items[id].fields)

LEMMA OwnKeys ==
    ASSUME NEW id
    PROVE  /\ KeysOf(manifest, id) = {RustKey(id, f) : f \in KeptFields(id)}
           /\ DOMAIN FieldRules(id) = KeysOf(manifest, id)
<1> PICK offers, kept, fields :
       offers = Offered(manifest, id) /\ kept = KeptFields(id) /\ fields = manifest.items[id].fields
    OBVIOUS
<1>0. offers = {[key |-> RustKey(id, f), rule |-> fields[f].rule] : f \in kept}
      BY DEF Offered, KeptFields
<1>1. /\ \A offer \in offers : \E f \in kept : offer.key = RustKey(id, f)
      /\ \A f \in kept : \E offer \in offers : offer.key = RustKey(id, f)
  <2>1. ASSUME NEW offer \in offers PROVE \E f \in kept : offer.key = RustKey(id, f)
        BY <1>0
  <2>2. ASSUME NEW f \in kept PROVE \E offer \in offers : offer.key = RustKey(id, f)
    <3>1. [key |-> RustKey(id, f), rule |-> fields[f].rule] \in offers
          BY <1>0
    <3> QED BY <3>1
  <2> QED BY <2>1, <2>2
<1>2. KeysOf(manifest, id) = {offer.key : offer \in offers}
      BY DEF KeysOf
<1>3. KeysOf(manifest, id) = {RustKey(id, f) : f \in KeptFields(id)}
      BY <1>1, <1>2
<1>4. DOMAIN FieldRules(id) = {RustKey(id, f) : f \in KeptFields(id)}
      BY DEF FieldRules, RulesForFields, KeptFields
<1> QED BY <1>3, <1>4

(* An item's keys keep their rules beside what its hold adds. *)
LEMMA OwnRules ==
    ASSUME NEW id
    PROVE  /\ DOMAIN ItemRules(id) = KeysOf(manifest, id) \cup Negated(manifest.items[id])
           /\ \A key \in KeysOf(manifest, id) : ItemRules(id)[key] = FieldRules(id)[key]
           /\ \A key \in Negated(manifest.items[id]) \ KeysOf(manifest, id) :
                 ItemRules(id)[key] = Free
<1> PICK own : own = FieldRules(id)
    OBVIOUS
<1> PICK more : more = Optional(Negated(manifest.items[id]))
    OBVIOUS
<1>1. DOMAIN own = KeysOf(manifest, id)
      BY OwnKeys
<1>2. more = [k \in Negated(manifest.items[id]) |-> Free]
      BY DEF Optional
<1>3. PICK rules : rules = Merged(<<own, more>>)
      OBVIOUS
<1>4. rules = ItemRules(id)
      BY <1>3 DEF ItemRules
<1>5. TakesFirst(rules, own, more)
      BY ONLY <1>3, FirstOfTwo
<1> QED BY <1>1, <1>2, <1>4, <1>5 DEF TakesFirst

(* The rule of an attribute's key is that of the first of its items to have it. *)
LEMMA AttrRulesAre ==
    ASSUME NEW attr \in DOMAIN ATTR_SOURCES
    PROVE  /\ \A n \in DOMAIN ATTR_SOURCES[attr] :
                 \A key \in DOMAIN ItemRules(ATTR_SOURCES[attr][n]) :
                    key \in DOMAIN AttrRules(manifest, attr)
           /\ \A key \in DOMAIN AttrRules(manifest, attr) : \E n \in DOMAIN ATTR_SOURCES[attr] :
                 /\ key \in DOMAIN ItemRules(ATTR_SOURCES[attr][n])
                 /\ \A m \in 1 .. n - 1 : key \notin DOMAIN ItemRules(ATTR_SOURCES[attr][m])
                 /\ AttrRules(manifest, attr)[key] = ItemRules(ATTR_SOURCES[attr][n])[key]
<1> PICK sources : sources = ATTR_SOURCES[attr]
    OBVIOUS
<1> PICK rules : rules = [n \in DOMAIN sources |-> ItemRules(sources[n])]
    OBVIOUS
<1>1. DOMAIN sources = 1 .. 1 \/ DOMAIN sources = 1 .. 2
      BY Sources
<1>2. AttrRules(manifest, attr) = Merged(rules)
      BY DEF AttrRules, ItemRules, FieldRules
<1>3. DOMAIN rules = DOMAIN sources /\ \A n \in DOMAIN sources : rules[n] = ItemRules(sources[n])
      OBVIOUS
<1>4. DOMAIN rules = 1 .. 1 \/ DOMAIN rules = 1 .. 2
      BY <1>1, <1>3
<1>5. /\ DOMAIN Merged(rules) = UNION {DOMAIN rules[n] : n \in DOMAIN rules}
      /\ \A key \in DOMAIN Merged(rules) : \E n \in DOMAIN rules :
            /\ key \in DOMAIN rules[n] /\ \A m \in 1 .. n - 1 : key \notin DOMAIN rules[m]
            /\ Merged(rules)[key] = rules[n][key]
      BY ONLY <1>4, FirstHasIt
<1>6. \A n \in DOMAIN sources : \A m \in 1 .. n - 1 : m \in DOMAIN sources
      BY <1>1
<1>7. PICK merged : merged = AttrRules(manifest, attr) /\ merged = Merged(rules)
      BY <1>2
<1>8. ASSUME NEW key \in DOMAIN merged
      PROVE  \E n \in DOMAIN sources :
                /\ key \in DOMAIN ItemRules(sources[n])
                /\ \A m \in 1 .. n - 1 : key \notin DOMAIN ItemRules(sources[m])
                /\ merged[key] = ItemRules(sources[n])[key]
  <2>1. PICK n \in DOMAIN rules :
           /\ key \in DOMAIN rules[n] /\ \A m \in 1 .. n - 1 : key \notin DOMAIN rules[m]
           /\ merged[key] = rules[n][key]
        BY <1>5, <1>7
  <2>2. n \in DOMAIN sources /\ rules[n] = ItemRules(sources[n])
        BY <1>3
  <2>3. \A m \in 1 .. n - 1 : rules[m] = ItemRules(sources[m])
        BY <1>3, <1>6, <2>2
  <2> QED BY <2>1, <2>2, <2>3
<1>9. \A n \in DOMAIN sources : \A key \in DOMAIN ItemRules(sources[n]) : key \in DOMAIN merged
      BY <1>3, <1>5, <1>7
<1> QED BY <1>7, <1>8, <1>9

-----------------------------------------------------------------------------
(* The lines of the reference *)

(* A field's line is true of its rule, and whole if the field is of a type that
   fits it. *)
LEMMA FieldLineSays ==
    ASSUME NEW field, NEW legacy
    PROVE  /\ SaysNoOther(FieldLine(field, legacy), field.rule)
           /\ Fits(field) => SaysAll(FieldLine(field, legacy), field.rule)
<1> PICK line : line = FieldLine(field, legacy)
    OBVIOUS
<1> PICK rule : rule = field.rule
    OBVIOUS
<1>1. /\ line.values = IF field.type \in {"enum", "enum-list"} THEN rule.values ELSE {}
      /\ line.bound = IF field.type = "number" THEN ToldBound(rule.bound) ELSE Unbounded
      /\ line.default = rule.default
      BY DEF FieldLine
<1>2. line.required => rule.required
      BY DEF FieldLine
<1>3. /\ DOMAIN Unbounded = {"above", "least", "most"}
      /\ \A end \in DOMAIN Unbounded : Unbounded[end] = {}
      BY DEF Unbounded
<1>4. PICK told : told = ToldBound(rule.bound)
      OBVIOUS
<1>5. /\ told["above"] = rule.bound["above"] \cap {0}
      /\ told["least"] = IF rule.bound["above"] = {0} THEN {} ELSE rule.bound["least"]
      /\ told["most"] = IF rule.bound["above"] = {0} \/ rule.bound["least"] = {}
                        THEN {} ELSE rule.bound["most"]
      BY <1>4 DEF ToldBound
<1>6. \A end \in DOMAIN Unbounded : line.bound[end] \subseteq rule.bound[end]
      BY <1>1, <1>3, <1>4, <1>5
<1>7. SaysNoOther(line, rule)
      BY <1>1, <1>2, <1>6 DEF SaysNoOther
<1>8. ASSUME Fits(field) PROVE SaysAll(line, rule)
  <2>1. line.values = rule.values
        BY <1>1, <1>8 DEF Fits
  <2>2. /\ \A end \in DOMAIN Unbounded : rule.bound[end] # {} => field.type = "number"
        /\ \/ rule.bound["above"] = {0} /\ rule.bound["least"] = {} /\ rule.bound["most"] = {}
           \/ rule.bound["above"] = {} /\ (rule.bound["most"] # {} => rule.bound["least"] # {})
        BY <1>8 DEF Fits
  <2>3. CASE field.type = "number"
    <3>1. line.bound = told
          BY <1>1, <1>4, <2>3
    <3>2. \A end \in {"above", "least", "most"} : told[end] = rule.bound[end]
          BY <1>5, <2>2
    <3> QED BY <1>3, <2>1, <3>1, <3>2 DEF SaysAll
  <2>4. CASE field.type # "number"
    <3>1. \A end \in DOMAIN Unbounded : line.bound[end] = rule.bound[end]
          BY <1>1, <1>3, <2>2, <2>4
    <3> QED BY <2>1, <3>1 DEF SaysAll
  <2> QED BY <2>3, <2>4
<1> QED BY <1>7, <1>8

FieldOf(id, key) == FieldFor(id, manifest.items[id].fields, key)

(* Its own keys stand for fields of the item. *)
LEMMA FieldOfKey ==
    ASSUME NEW id, NEW key \in KeysOf(manifest, id)
    PROVE  /\ FieldRules(id)[key] = FieldOf(id, key).rule
           /\ \E f \in DOMAIN manifest.items[id].fields :
                 FieldOf(id, key) = manifest.items[id].fields[f]
<1>1. key \in {RustKey(id, f) : f \in KeptFields(id)}
      BY OwnKeys
<1>2. FieldRules(id)[key] = FieldOf(id, key).rule
      BY <1>1 DEF FieldRules, RulesForFields, FieldOf, KeptFields
<1>3. PICK kept : kept = KeptFields(id)
      OBVIOUS
<1>4. PICK f : f = CHOOSE g \in kept : RustKey(id, g) = key
      OBVIOUS
<1>5. f \in kept
      BY <1>1, <1>3, <1>4
<1>6. f \in DOMAIN manifest.items[id].fields
      BY <1>3, <1>5 DEF KeptFields, Kept
<1>7. FieldOf(id, key) = manifest.items[id].fields[f]
      BY <1>3, <1>4 DEF FieldOf, FieldFor, KeptFields
<1> QED BY <1>2, <1>6, <1>7

(* A line is of the first item that has its key, as the rule is. *)
LEMMA KeyLinesAre ==
    ASSUME NEW attr \in DOMAIN ATTR_SOURCES
    PROVE  /\ DOMAIN KeyLines(manifest, attr) =
                 UNION {KeysOf(manifest, ATTR_SOURCES[attr][n]) : n \in DOMAIN ATTR_SOURCES[attr]}
           /\ \A n \in DOMAIN ATTR_SOURCES[attr] :
                 \A key \in KeysOf(manifest, ATTR_SOURCES[attr][n]) :
                 (\A m \in 1 .. n - 1 : key \notin KeysOf(manifest, ATTR_SOURCES[attr][m]))
                    => KeyLines(manifest, attr)[key]
                         = FieldLine(FieldOf(ATTR_SOURCES[attr][n], key), n > 1)
<1> PICK sources : sources = ATTR_SOURCES[attr]
    OBVIOUS
<1> PICK lines : lines = [n \in DOMAIN sources |-> LinesOf(manifest, attr, n)]
    OBVIOUS
<1>1. DOMAIN sources = 1 .. 1 \/ DOMAIN sources = 1 .. 2
      BY Sources
<1>2. DOMAIN lines = DOMAIN sources
      OBVIOUS
<1>3. ASSUME NEW n \in DOMAIN sources
      PROVE  /\ DOMAIN lines[n] = KeysOf(manifest, sources[n])
             /\ \A key \in KeysOf(manifest, sources[n]) :
                   lines[n][key] = FieldLine(FieldOf(sources[n], key), n > 1)
  <2> PICK id : id = sources[n]
      OBVIOUS
  <2>1. LinesOf(manifest, attr, n) =
           [key \in {RustKey(id, f) : f \in KeptFields(id)} |-> FieldLine(FieldOf(id, key), n > 1)]
        BY DEF LinesOf, FieldOf, KeptFields
  <2>2. {RustKey(id, f) : f \in KeptFields(id)} = KeysOf(manifest, id)
        BY OwnKeys
  <2>3. lines[n] = LinesOf(manifest, attr, n)
        OBVIOUS
  <2> QED BY <2>1, <2>2, <2>3
<1>4. DOMAIN lines = 1 .. 1 \/ DOMAIN lines = 1 .. 2
      BY <1>1, <1>2
<1>5. PICK merged : merged = Merged(lines)
      OBVIOUS
<1>6. /\ DOMAIN merged = UNION {DOMAIN lines[n] : n \in DOMAIN lines}
      /\ \A n \in DOMAIN lines : \A key \in DOMAIN lines[n] :
            (\A m \in 1 .. n - 1 : key \notin DOMAIN lines[m]) => merged[key] = lines[n][key]
      BY ONLY <1>4, <1>5, FirstHasIt
<1>7. merged = KeyLines(manifest, attr)
      BY <1>5 DEF KeyLines
<1>8. \A n \in DOMAIN sources : \A m \in 1 .. n - 1 : m \in DOMAIN sources
      BY <1>1
<1>9. DOMAIN merged = UNION {KeysOf(manifest, sources[n]) : n \in DOMAIN sources}
      BY <1>2, <1>3, <1>6
<1>10. ASSUME NEW n \in DOMAIN sources, NEW key \in KeysOf(manifest, sources[n]),
              \A m \in 1 .. n - 1 : key \notin KeysOf(manifest, sources[m])
       PROVE  merged[key] = FieldLine(FieldOf(sources[n], key), n > 1)
  <2>1. \A m \in 1 .. n - 1 : key \notin DOMAIN lines[m]
        BY <1>3, <1>8, <1>10
  <2>2. n \in DOMAIN lines /\ key \in DOMAIN lines[n]
        BY <1>2, <1>3
  <2>3. merged[key] = lines[n][key]
        BY <1>6, <2>1, <2>2
  <2> QED BY <1>3, <2>3
<1> QED BY <1>7, <1>9, <1>10

LEMMA ReferenceLines ==
    ASSUME NEW attr \in DOMAIN ATTR_SOURCES
    PROVE  LET negated == Negated(FirstItem(manifest, attr)) IN
           /\ DOMAIN ItemReference(manifest, attr) = DOMAIN KeyLines(manifest, attr) \cup negated
           /\ \A key \in DOMAIN KeyLines(manifest, attr) :
                 ItemReference(manifest, attr)[key] = KeyLines(manifest, attr)[key]
           /\ \A key \in negated \ DOMAIN KeyLines(manifest, attr) :
                 ItemReference(manifest, attr)[key] = Free
<1> PICK lines, negated, more : /\ lines = KeyLines(manifest, attr)
                                /\ negated = Negated(FirstItem(manifest, attr))
                                /\ more = Optional(negated)
    OBVIOUS
<1>1. PICK all : all = Merged(<<lines, more>>)
      OBVIOUS
<1>2. all = ItemReference(manifest, attr)
      BY <1>1 DEF ItemReference
<1>3. more = [k \in negated |-> Free]
      BY DEF Optional
<1>4. TakesFirst(all, lines, more)
      BY ONLY <1>1, FirstOfTwo
<1> QED BY <1>2, <1>3, <1>4 DEF TakesFirst

AllDescribed(attr) ==
    \A n \in DOMAIN ATTR_SOURCES[attr] : ATTR_SOURCES[attr][n] \in DOMAIN manifest.items

LEMMA NoNegatedField ==
    ASSUME KeysApart(manifest), NEW id \in DOMAIN manifest.items
    PROVE  "negated" \notin KeysOf(manifest, id)
<1>1. \A f \in KeptFields(id) : RustKey(id, f) # "negated"
      BY DEF KeysApart, KeptFields
<1> QED BY <1>1, OwnKeys

LEMMA FreeIsDocumented == Documents(Free, Free)
<1>1. Free.values \in {{}, Free.values}
      OBVIOUS
<1> QED BY <1>1 DEF Documents, SaysNoOther, SaysAll

(* A field's line documents its rule in the tables. *)
LEMMA LineDocuments ==
    ASSUME NEW id \in DOMAIN manifest.items, NEW key \in KeysOf(manifest, id), NEW legacy
    PROVE  Documents(FieldLine(FieldOf(id, key), legacy), FieldRules(id)[key])
<1>1. PICK f \in DOMAIN manifest.items[id].fields :
         FieldOf(id, key) = manifest.items[id].fields[f]
      BY FieldOfKey
<1>2. PICK field : field = FieldOf(id, key)
      OBVIOUS
<1>3. FieldRules(id)[key] = field.rule
      BY <1>2, FieldOfKey
<1>4. TypesFit(manifest) => Fits(field)
      BY <1>1, <1>2 DEF TypesFit
<1>5. /\ SaysNoOther(FieldLine(field, legacy), field.rule)
      /\ Fits(field) => SaysAll(FieldLine(field, legacy), field.rule)
      BY FieldLineSays
<1> QED BY <1>2, <1>3, <1>4, <1>5 DEF Documents

LinesDocument(attr) ==
    /\ DOMAIN ItemReference(manifest, attr) = DOMAIN AttrRules(manifest, attr)
    /\ \A key \in DOMAIN AttrRules(manifest, attr) :
          /\ Documents(ItemReference(manifest, attr)[key], AttrRules(manifest, attr)[key])
          /\ key \in KeysOf(manifest, ATTR_SOURCES[attr][1])
                => (ItemReference(manifest, attr)[key].required
                      <=> AttrRules(manifest, attr)[key].required)

(* Two pieces of generator code, one reading of an attribute *)
LEMMA LinesAgree ==
    ASSUME NEW attr \in DOMAIN ATTR_SOURCES, AllDescribed(attr),
           KeysApart(manifest), LegacyNeverHolds(manifest)
    PROVE  LinesDocument(attr)
<1> PICK sources : sources = ATTR_SOURCES[attr]
    OBVIOUS
<1> PICK rules : rules = AttrRules(manifest, attr)
    OBVIOUS
<1> PICK lines : lines = ItemReference(manifest, attr)
    OBVIOUS
<1> PICK own : own = KeyLines(manifest, attr)
    OBVIOUS
<1> DEFINE negated(n) == Negated(manifest.items[sources[n]])
<1>1. /\ 1 \in DOMAIN sources
      /\ \A n \in DOMAIN sources : n = 1 \/ n > 1
      /\ \A n \in DOMAIN sources : \A m \in 1 .. n - 1 : m \in DOMAIN sources
      BY Sources
<1>2. \A n \in DOMAIN sources : "negated" \notin KeysOf(manifest, sources[n])
      BY NoNegatedField DEF AllDescribed
<1>3. /\ \A n \in DOMAIN sources : n > 1 => negated(n) = {}
      /\ \A n \in DOMAIN sources : \A key \in negated(n) : key = "negated"
      BY DEF LegacyNeverHolds, Negated
<1>4. Negated(FirstItem(manifest, attr)) = negated(1)
      BY DEF FirstItem
<1>5. \A n \in DOMAIN sources :
         /\ DOMAIN ItemRules(sources[n]) = KeysOf(manifest, sources[n]) \cup negated(n)
         /\ \A key \in KeysOf(manifest, sources[n]) :
               ItemRules(sources[n])[key] = FieldRules(sources[n])[key]
         /\ \A key \in negated(n) \ KeysOf(manifest, sources[n]) : ItemRules(sources[n])[key] = Free
      BY OwnRules
<1> HIDE DEF negated
<1>6. /\ \A n \in DOMAIN sources : \A key \in DOMAIN ItemRules(sources[n]) : key \in DOMAIN rules
      /\ \A key \in DOMAIN rules : \E n \in DOMAIN sources :
            /\ key \in DOMAIN ItemRules(sources[n])
            /\ \A m \in 1 .. n - 1 : key \notin DOMAIN ItemRules(sources[m])
            /\ rules[key] = ItemRules(sources[n])[key]
      BY AttrRulesAre
<1>7. /\ DOMAIN own = UNION {KeysOf(manifest, sources[n]) : n \in DOMAIN sources}
      /\ \A n \in DOMAIN sources : \A key \in KeysOf(manifest, sources[n]) :
            (\A m \in 1 .. n - 1 : key \notin KeysOf(manifest, sources[m]))
               => own[key] = FieldLine(FieldOf(sources[n], key), n > 1)
      BY KeyLinesAre
<1>8. /\ DOMAIN lines = DOMAIN own \cup negated(1)
      /\ \A key \in DOMAIN own : lines[key] = own[key]
      /\ \A key \in negated(1) \ DOMAIN own : lines[key] = Free
      BY <1>4, ReferenceLines
<1>9. DOMAIN lines = DOMAIN rules
  <2>1. ASSUME NEW key \in DOMAIN lines PROVE key \in DOMAIN rules
    <3>1. CASE key \in DOMAIN own
      <4>1. PICK n \in DOMAIN sources : key \in KeysOf(manifest, sources[n])
            BY <1>7, <3>1
      <4> QED BY <1>5, <1>6, <4>1
    <3>2. CASE key \in negated(1)
          BY <1>1, <1>5, <1>6, <3>2
    <3> QED BY <1>8, <3>1, <3>2
  <2>2. ASSUME NEW key \in DOMAIN rules PROVE key \in DOMAIN lines
    <3>1. PICK n \in DOMAIN sources : key \in DOMAIN ItemRules(sources[n])
          BY <1>6
    <3>2. CASE key \in KeysOf(manifest, sources[n])
          BY <1>7, <1>8, <3>2
    <3>3. CASE key \in negated(n)
          BY <1>1, <1>3, <1>8, <3>3
    <3> QED BY <1>5, <3>1, <3>2, <3>3
  <2> QED BY <2>1, <2>2
<1>10. ASSUME NEW key \in DOMAIN rules
       PROVE  /\ Documents(lines[key], rules[key])
              /\ key \in KeysOf(manifest, sources[1])
                    => (lines[key].required <=> rules[key].required)
  <2>1. PICK n \in DOMAIN sources :
           /\ key \in DOMAIN ItemRules(sources[n])
           /\ \A m \in 1 .. n - 1 : key \notin DOMAIN ItemRules(sources[m])
           /\ rules[key] = ItemRules(sources[n])[key]
        BY <1>6
  <2>2. CASE key \in KeysOf(manifest, sources[n])
    <3>1. PICK id : id = sources[n]
          OBVIOUS
    <3>2. rules[key] = FieldRules(id)[key]
          BY <1>5, <2>1, <2>2, <3>1
    <3>3. \A m \in 1 .. n - 1 : key \notin KeysOf(manifest, sources[m])
      <4>1. \A m \in 1 .. n - 1 : m \in DOMAIN sources
            BY <1>1
      <4> QED BY <1>5, <2>1, <4>1
    <3>4. own[key] = FieldLine(FieldOf(id, key), n > 1)
          BY <1>7, <2>2, <3>1, <3>3
    <3>5. key \in DOMAIN own
          BY <1>7, <2>2
    <3>6. lines[key] = FieldLine(FieldOf(id, key), n > 1)
          BY <1>8, <3>4, <3>5
    <3>7. Documents(lines[key], rules[key])
      <4>1. id \in DOMAIN manifest.items
            BY <3>1 DEF AllDescribed
      <4>2. PICK legacy : legacy = (n > 1)
            OBVIOUS
      <4>3. Documents(FieldLine(FieldOf(id, key), legacy), FieldRules(id)[key])
            BY <2>2, <3>1, <4>1, LineDocuments
      <4> QED BY <3>2, <3>6, <4>2, <4>3
    <3>8. ASSUME key \in KeysOf(manifest, sources[1])
          PROVE  lines[key].required <=> rules[key].required
      <4>1. n > 1 => 1 \in 1 .. n - 1
            BY Sources
      <4>2. ~(n > 1)
            BY <3>3, <3>8, <4>1
      <4>3. PICK field : field = FieldOf(id, key)
            OBVIOUS
      <4>4. rules[key] = field.rule
            BY <2>2, <3>1, <3>2, <4>3, FieldOfKey
      <4>5. FieldLine(field, n > 1).required <=> (field.rule.required /\ ~(n > 1))
            BY Zenon DEF FieldLine
      <4>6. lines[key] = FieldLine(field, n > 1)
            BY <3>6, <4>3
      <4> QED BY <4>2, <4>4, <4>5, <4>6
    <3> QED BY <3>7, <3>8
  <2>3. CASE key \notin KeysOf(manifest, sources[n])
    <3>1. key \in negated(n) /\ rules[key] = Free
          BY <1>5, <2>1, <2>3
    <3>2. n = 1 /\ key = "negated"
          BY <1>1, <1>3, <3>1
    <3>3. key \notin DOMAIN own
          BY <1>2, <1>7, <3>2
    <3>4. lines[key] = Free
          BY <1>8, <3>1, <3>2, <3>3
    <3> QED BY <3>1, <3>4, FreeIsDocumented
  <2> QED BY <2>2, <2>3
<1> QED BY <1>9, <1>10 DEF LinesDocument

-----------------------------------------------------------------------------
(* The deprecated shapes *)

LEMMA ItsSources ==
    ASSUME NEW attr \in DOMAIN ATTR_SOURCES, NEW id
    PROVE  attr \in AuthoredFrom(id) <=> id \in ToSet(ATTR_SOURCES[attr])
BY DEF AuthoredFrom, Contains, ToSet, ATTR_SOURCES

(* What is listed as not applicable is no item that an attribute is written for. *)
LEMMA NotAuthored ==
    ASSUME NEW id \in DEPRECATIONS_NOT_APPLICABLE, NEW attr \in AuthoredFrom(id)
    PROVE  FALSE
<1>1. attr \in DOMAIN ATTR_SOURCES
      BY DEF AuthoredFrom
<1>2. id \in ToSet(ATTR_SOURCES[attr])
      BY <1>1, ItsSources
<1> QED BY <1>1, <1>2 DEF DEPRECATIONS_NOT_APPLICABLE, ToSet, ATTR_SOURCES

LEMMA ManySources ==
    ASSUME NEW attr \in DOMAIN ATTR_SOURCES
    PROVE  /\ Len(ATTR_SOURCES[attr]) = 1 <=> attr # "edge_style"
           /\ Len(ATTR_SOURCES[attr]) > 1 <=> attr = "edge_style"
BY DEF ATTR_SOURCES

LEMMA ShapesAreShared ==
    ASSUME NEW id \in DOMAIN SHAPE_DISCRIMINATORS, NEW attr \in AuthoredFrom(id)
    PROVE  attr = "edge_style"
<1>1. attr \in DOMAIN ATTR_SOURCES
      BY DEF AuthoredFrom
<1>2. id = "edgeColor"
      BY DEF SHAPE_DISCRIMINATORS
<1>3. "edgeColor" \in ToSet(ATTR_SOURCES[attr])
      BY <1>1, <1>2, ItsSources
<1> QED BY <1>1, <1>3 DEF ToSet, ATTR_SOURCES

(* The entries of the two lists, which are made separately *)
FormOf(id, attr) ==
    [attr |-> attr,
     keys |-> IF Len(ATTR_SOURCES[attr]) > 1 /\ id \in DOMAIN SHAPE_DISCRIMINATORS
              THEN SHAPE_DISCRIMINATORS[id] ELSE {},
     replaced |-> AuthoredFrom(manifest.deprecations[id].replacedBy)]

Warning(attr, keys, replacement) ==
    [attr |-> attr, when_any_key |-> keys, replaced_by |-> replacement]

LEMMA FormsAre ==
    /\ \A form \in DeprecatedForms(manifest) : \E id \in DOMAIN manifest.deprecations :
          /\ manifest.deprecations[id].kind = "item"
          /\ \E attr \in AuthoredFrom(id) : form = FormOf(id, attr)
    /\ \A id \in DOMAIN manifest.deprecations : manifest.deprecations[id].kind = "item" =>
          \A attr \in AuthoredFrom(id) : FormOf(id, attr) \in DeprecatedForms(manifest)
<1> DEFINE ids == {i \in DOMAIN manifest.deprecations : manifest.deprecations[i].kind = "item"}
<1>1. DeprecatedForms(manifest) =
         UNION {{FormOf(id, attr) : attr \in AuthoredFrom(id)} : id \in ids}
      BY DEF DeprecatedForms, FormOf
<1> HIDE DEF FormOf
<1> QED BY <1>1

LEMMA WarningsAre ==
    /\ \A dep \in DeprecationSpecs(manifest) :
          \E id \in Applicable(manifest) : \E attr \in AuthoredFrom(id) :
             \E keys \in WhenAnyKey(manifest, id, attr) :
                \E replacement \in AuthoredFrom(manifest.deprecations[id].replacedBy) :
                   dep = Warning(attr, keys, replacement)
    /\ \A id \in Applicable(manifest) : \A attr \in AuthoredFrom(id) :
          \A keys \in WhenAnyKey(manifest, id, attr) :
             \A replacement \in AuthoredFrom(manifest.deprecations[id].replacedBy) :
                Warning(attr, keys, replacement) \in DeprecationSpecs(manifest)
<1> DEFINE Of(id, attr) ==
              {Warning(attr, keys, replacement) : keys \in WhenAnyKey(manifest, id, attr),
                 replacement \in AuthoredFrom(manifest.deprecations[id].replacedBy)}
<1>1. DeprecationSpecs(manifest) =
         UNION {UNION {Of(id, attr) : attr \in AuthoredFrom(id)} : id \in Applicable(manifest)}
      BY DEF DeprecationSpecs, Warning
<1>2. ASSUME NEW id, NEW attr
      PROVE  /\ \A dep \in Of(id, attr) : \E keys \in WhenAnyKey(manifest, id, attr) :
                   \E replacement \in AuthoredFrom(manifest.deprecations[id].replacedBy) :
                      dep = Warning(attr, keys, replacement)
             /\ \A keys \in WhenAnyKey(manifest, id, attr) :
                   \A replacement \in AuthoredFrom(manifest.deprecations[id].replacedBy) :
                      Warning(attr, keys, replacement) \in Of(id, attr)
      OBVIOUS
<1> HIDE DEF Of
<1>3. \A dep \in DeprecationSpecs(manifest) :
         \E id \in Applicable(manifest) : \E attr \in AuthoredFrom(id) : dep \in Of(id, attr)
      BY <1>1
<1>4. \A id \in Applicable(manifest) : \A attr \in AuthoredFrom(id) :
         \A dep \in Of(id, attr) : dep \in DeprecationSpecs(manifest)
      BY <1>1
<1> QED BY <1>2, <1>3, <1>4

LEMMA ApplicableItems ==
    ASSUME Generates(manifest), NEW id \in Applicable(manifest), NEW attr \in AuthoredFrom(id)
    PROVE  /\ id \in DOMAIN manifest.deprecations
           /\ manifest.deprecations[id].kind = "item"
           /\ WhenAnyKey(manifest, id, attr) # {}
           /\ AuthoredFrom(manifest.deprecations[id].replacedBy) # {}
BY DEF Generates, DeprecationsKnown, Applicable

(* A form and its warning tell a deprecated shape by the same keys, *)
LEMMA ShapeAgrees ==
    ASSUME Generates(manifest), NEW id \in Applicable(manifest), NEW attr \in AuthoredFrom(id),
           manifest.items[id].discriminator = {}
    PROVE  WhenAnyKey(manifest, id, attr) = {FormOf(id, attr).keys}
<1>1. attr \in DOMAIN ATTR_SOURCES
      BY DEF AuthoredFrom
<1>2. WhenAnyKey(manifest, id, attr) =
         IF id \in DOMAIN SHAPE_DISCRIMINATORS THEN {SHAPE_DISCRIMINATORS[id]}
         ELSE IF Len(ATTR_SOURCES[attr]) = 1 THEN {{}} ELSE {}
      BY DEF WhenAnyKey
<1>3. FormOf(id, attr).keys =
         IF Len(ATTR_SOURCES[attr]) > 1 /\ id \in DOMAIN SHAPE_DISCRIMINATORS
         THEN SHAPE_DISCRIMINATORS[id] ELSE {}
      BY DEF FormOf
<1>4. CASE id \in DOMAIN SHAPE_DISCRIMINATORS
  <2>1. Len(ATTR_SOURCES[attr]) > 1
        BY <1>1, <1>4, ShapesAreShared, ManySources
  <2> QED BY <1>2, <1>3, <1>4, <2>1
<1>5. CASE id \notin DOMAIN SHAPE_DISCRIMINATORS
  <2>1. WhenAnyKey(manifest, id, attr) # {}
        BY ApplicableItems
  <2> QED BY <1>2, <1>3, <1>5, <2>1
<1> QED BY <1>4, <1>5

(* so that both lists have the same shapes of an attribute. *)
LEMMA ShapesAgree ==
    ASSUME Generates(manifest), NEW attr \in DOMAIN ATTR_SOURCES, ~Discriminated(attr)
    PROVE  {form.keys : form \in {f \in DeprecatedForms(manifest) : f.attr = attr}}
             = {dep.when_any_key : dep \in {d \in DeprecationSpecs(manifest) : d.attr = attr}}
<1>1. ASSUME NEW id, attr \in AuthoredFrom(id) PROVE manifest.items[id].discriminator = {}
      BY <1>1, ItsSources DEF Discriminated
<1>2. ASSUME NEW form \in DeprecatedForms(manifest), form.attr = attr
      PROVE  \E dep \in DeprecationSpecs(manifest) : dep.attr = attr /\ dep.when_any_key = form.keys
  <2>1. PICK id \in DOMAIN manifest.deprecations :
           /\ manifest.deprecations[id].kind = "item"
           /\ \E a \in AuthoredFrom(id) : form = FormOf(id, a)
        BY FormsAre
  <2>2. attr \in AuthoredFrom(id) /\ form = FormOf(id, attr)
        BY <1>2, <2>1 DEF FormOf
  <2>3. id \in Applicable(manifest)
        BY <2>2, NotAuthored DEF Applicable
  <2>4. WhenAnyKey(manifest, id, attr) = {form.keys}
        BY <1>1, <2>2, <2>3, ShapeAgrees
  <2>5. PICK replacement \in AuthoredFrom(manifest.deprecations[id].replacedBy) : TRUE
        BY <2>2, <2>3, ApplicableItems
  <2>6. Warning(attr, form.keys, replacement) \in DeprecationSpecs(manifest)
        BY <2>2, <2>3, <2>4, <2>5, WarningsAre
  <2> QED BY <2>6 DEF Warning
<1>3. ASSUME NEW dep \in DeprecationSpecs(manifest), dep.attr = attr
      PROVE  \E form \in DeprecatedForms(manifest) :
                form.attr = attr /\ form.keys = dep.when_any_key
  <2>1. PICK id \in Applicable(manifest) : \E a \in AuthoredFrom(id) :
           \E keys \in WhenAnyKey(manifest, id, a) :
              \E replacement \in AuthoredFrom(manifest.deprecations[id].replacedBy) :
                 dep = Warning(a, keys, replacement)
        BY WarningsAre
  <2>2. attr \in AuthoredFrom(id) /\ dep.when_any_key \in WhenAnyKey(manifest, id, attr)
        BY <1>3, <2>1 DEF Warning
  <2>3. dep.when_any_key = FormOf(id, attr).keys
        BY <1>1, <2>2, ShapeAgrees
  <2>4. FormOf(id, attr) \in DeprecatedForms(manifest)
        BY <2>2, ApplicableItems, FormsAre
  <2>5. FormOf(id, attr).attr = attr
        BY DEF FormOf
  <2> QED BY <2>3, <2>4, <2>5
<1> QED BY <1>2, <1>3

-----------------------------------------------------------------------------
(* What passing tests say: both outputs are of the vendored manifest. *)

LEMMA GreenTables ==
    ASSUME Green
    PROVE  /\ DOMAIN tables.attrs = DOMAIN ATTR_SOURCES
           /\ \A attr \in DOMAIN ATTR_SOURCES : tables.attrs[attr] = AttrRules(manifest, attr)
           /\ tables.blocks = BlockRules(manifest)
           /\ tables.deprecations = DeprecationSpecs(manifest)
<1>1. tables = Tables(manifest)
      BY DEF Green, UpToDate
<1> HIDE DEF Green
<1> QED BY <1>1 DEF Tables

LEMMA GreenReference ==
    ASSUME Green
    PROVE  /\ DOMAIN reference.sections = {"constraints", "directives"}
           /\ \A section \in {"constraints", "directives"} :
                 /\ DOMAIN reference.sections[section] =
                       {a \in DOMAIN ATTR_SOURCES : section \in FirstItem(manifest, a).sections}
                 /\ \A attr \in DOMAIN reference.sections[section] :
                       reference.sections[section][attr] = ItemReference(manifest, attr)
           /\ reference.blocks = BlockReference(manifest)
           /\ reference.deprecated = DeprecatedForms(manifest)
<1>1. reference = Reference(manifest)
      BY DEF Green, UpToDate
<1> QED BY <1>1 DEF Reference

LEMMA GreenGenerates ==
    ASSUME Green
    PROVE  /\ Generates(manifest)
           /\ \A attr \in DOMAIN ATTR_SOURCES : AllDescribed(attr)
<1>1. Generates(manifest)
      BY DEF Green, UpToDate
<1>2. \A attr \in DOMAIN ATTR_SOURCES : ToSet(ATTR_SOURCES[attr]) \subseteq DOMAIN manifest.items
      BY <1>1 DEF Generates, SourcesPresent
<1> QED BY <1>1, <1>2 DEF AllDescribed, ToSet

-----------------------------------------------------------------------------
(* Every field is offered. *)

(* No two fields have one key, so that each keeps its own rule, *)
LEMMA OfferedRule ==
    ASSUME KeysApart(manifest), NEW id \in DOMAIN manifest.items,
           NEW offer \in Offered(manifest, id)
    PROVE  offer.key \in KeysOf(manifest, id) /\ FieldRules(id)[offer.key] = offer.rule
<1> PICK fields, kept : fields = manifest.items[id].fields /\ kept = KeptFields(id)
    OBVIOUS
<1>1. PICK f \in kept : offer = [key |-> RustKey(id, f), rule |-> fields[f].rule]
      BY DEF Offered, KeptFields
<1>2. \A g \in kept : RustKey(id, g) = offer.key => g = f
      BY <1>1 DEF KeysApart, KeptFields
<1>3. offer.key \in KeysOf(manifest, id)
      BY <1>1, OwnKeys
<1>4. FieldRules(id) = [key \in {RustKey(id, g) : g \in kept} |->
                          fields[CHOOSE g \in kept : RustKey(id, g) = key].rule]
      BY DEF FieldRules, RulesForFields, FieldFor, KeptFields
<1>5. (CHOOSE g \in kept : RustKey(id, g) = offer.key) = f
      BY <1>1, <1>2
<1>6. offer.key \in {RustKey(id, g) : g \in kept} /\ offer.rule = fields[f].rule
      BY <1>1
<1> QED BY <1>3, <1>4, <1>5, <1>6

(* in the attribute too, where no other of its items has the key. *)
LEMMA TakesOffers ==
    ASSUME KeysApart(manifest), NEW attr \in DOMAIN ATTR_SOURCES, AllDescribed(attr),
           NEW id \in ToSet(ATTR_SOURCES[attr]), NEW offer \in Offered(manifest, id),
           offer.key \notin Shared(attr)
    PROVE  AttrRules(manifest, attr)[offer.key] = offer.rule
<1> PICK sources : sources = ATTR_SOURCES[attr]
    OBVIOUS
<1> PICK rules : rules = AttrRules(manifest, attr)
    OBVIOUS
<1>1. PICK k \in DOMAIN sources : sources[k] = id
      BY DEF ToSet
<1>2. \A n \in DOMAIN sources :
         sources[n] \in DOMAIN manifest.items /\ sources[n] \in ToSet(sources)
      BY DEF AllDescribed, ToSet
<1>3. offer.key \in KeysOf(manifest, id) /\ FieldRules(id)[offer.key] = offer.rule
      BY <1>1, <1>2, OfferedRule
<1>4. \A n \in DOMAIN sources :
         /\ DOMAIN ItemRules(sources[n]) =
               KeysOf(manifest, sources[n]) \cup Negated(manifest.items[sources[n]])
         /\ \A key \in KeysOf(manifest, sources[n]) :
               ItemRules(sources[n])[key] = FieldRules(sources[n])[key]
      BY OwnRules
<1>5. /\ \A n \in DOMAIN sources : \A key \in DOMAIN ItemRules(sources[n]) : key \in DOMAIN rules
      /\ \A key \in DOMAIN rules : \E n \in DOMAIN sources :
            key \in DOMAIN ItemRules(sources[n]) /\ rules[key] = ItemRules(sources[n])[key]
      BY AttrRulesAre
<1>6. offer.key \in DOMAIN rules
      BY <1>1, <1>3, <1>4, <1>5
<1>7. PICK n \in DOMAIN sources :
         /\ offer.key \in DOMAIN ItemRules(sources[n])
         /\ rules[offer.key] = ItemRules(sources[n])[offer.key]
      BY <1>5, <1>6
<1>8. offer.key # "negated"
      BY <1>1, <1>2, <1>3, NoNegatedField
<1>9. offer.key \in KeysOf(manifest, sources[n])
  <2>1. \A item : \A key \in Negated(item) : key = "negated"
        BY DEF Negated
  <2> QED BY <1>4, <1>7, <1>8, <2>1
<1>10. sources[n] = id
       BY <1>2, <1>3, <1>9 DEF Shared
<1> QED BY <1>3, <1>4, <1>7, <1>9, <1>10

LEMMA FieldsOffered ==
    ASSUME Green, KeysApart(manifest)
    PROVE  EveryFieldOffered
<1>1. \A attr \in DOMAIN ATTR_SOURCES : tables.attrs[attr] = AttrRules(manifest, attr)
      BY GreenTables
<1>2. \A id : DOMAIN ItemRules(id) = KeysOf(manifest, id) \cup Negated(manifest.items[id])
      BY OwnRules
<1>3. ASSUME NEW attr \in DOMAIN ATTR_SOURCES
      PROVE  /\ \A id \in ToSet(ATTR_SOURCES[attr]) :
                   Negated(manifest.items[id]) \subseteq DOMAIN tables.attrs[attr]
             /\ \A key \in DOMAIN tables.attrs[attr] : \E id \in ToSet(ATTR_SOURCES[attr]) :
                   key \in KeysOf(manifest, id) \cup Negated(manifest.items[id])
  <2>1. /\ \A n \in DOMAIN ATTR_SOURCES[attr] :
              \A key \in DOMAIN ItemRules(ATTR_SOURCES[attr][n]) : key \in DOMAIN tables.attrs[attr]
        /\ \A key \in DOMAIN tables.attrs[attr] : \E n \in DOMAIN ATTR_SOURCES[attr] :
              key \in DOMAIN ItemRules(ATTR_SOURCES[attr][n])
        BY <1>1, AttrRulesAre
  <2> QED BY <1>2, <2>1 DEF ToSet
<1>4. ASSUME NEW id \in DOMAIN manifest.items
      PROVE  \E attr \in AuthoredFrom(id) :
                /\ \A offer \in Offered(manifest, id) :
                      offer.key \notin Shared(attr) => tables.attrs[attr][offer.key] = offer.rule
                /\ Negated(manifest.items[id]) \subseteq DOMAIN tables.attrs[attr]
  <2>1. PICK attr \in AuthoredFrom(id) : TRUE
        BY GreenGenerates DEF Generates, EveryItemMapped, UNMAPPED_ITEMS
  <2>2. attr \in DOMAIN ATTR_SOURCES
        BY <2>1 DEF AuthoredFrom
  <2>3. id \in ToSet(ATTR_SOURCES[attr]) /\ AllDescribed(attr)
        BY <2>1, <2>2, ItsSources, GreenGenerates
  <2>4. Negated(manifest.items[id]) \subseteq DOMAIN tables.attrs[attr]
        BY <1>3, <2>2, <2>3
  <2>5. \A offer \in Offered(manifest, id) :
           offer.key \notin Shared(attr) => tables.attrs[attr][offer.key] = offer.rule
        BY <1>1, <2>2, <2>3, TakesOffers
  <2> QED BY <2>1, <2>4, <2>5
<1>5. ASSUME NEW attr \in DOMAIN tables.attrs
      PROVE  DOMAIN tables.attrs[attr] \subseteq
                UNION {KeysOf(manifest, id) \cup Negated(manifest.items[id]) :
                          id \in ToSet(ATTR_SOURCES[attr])}
      BY <1>3, GreenTables
<1> QED BY <1>4, <1>5 DEF EveryFieldOffered

-----------------------------------------------------------------------------
(* Every leaf is offered. *)

IsBlock(name) == name \in DOMAIN BLOCK_SOURCES \/ name = "addEdge"

Leafy(leaves) ==
    /\ \A f, g \in DOMAIN leaves : CamelToSnake(f) = CamelToSnake(g) => f = g
    /\ "hold" \notin DOMAIN leaves

(* The leaves of a block are neither renamed nor skipped. *)
LEMMA LeavesAreWritten ==
    ASSUME NEW name, IsBlock(name), NEW leaves, Leafy(leaves)
    PROVE  /\ Kept(name, leaves) = DOMAIN leaves
           /\ \A f \in DOMAIN leaves : RustKey(name, f) = CamelToSnake(f)
<1>1. name \notin {"*", "flag", "inferredEdge", "edgeColor"}
      BY DEF IsBlock, BLOCK_SOURCES
<1>2. \A f : <<name, f>> \notin FIELD_SKIPS
      BY <1>1 DEF FIELD_SKIPS
<1>3. \A f \in DOMAIN leaves : \A r \in FIELD_RENAMES : ~(r.item \in {"*", name} /\ r.yaml = f)
      BY <1>1 DEF FIELD_RENAMES, Leafy
<1>4. ASSUME NEW f \in DOMAIN leaves PROVE RustKey(name, f) = CamelToSnake(f)
  <2>1. {r.rust : r \in {x \in FIELD_RENAMES : x.item \in {"*", name} /\ x.yaml = f}} = {}
        BY <1>3
  <2> QED BY <2>1 DEF RustKey
<1> QED BY <1>2, <1>4 DEF Kept, IsSkipped

LeafByLeaf(rules, leaves) ==
    /\ DOMAIN rules = {CamelToSnake(f) : f \in DOMAIN leaves}
    /\ \A f \in DOMAIN leaves : rules[CamelToSnake(f)] = leaves[f].rule

LEMMA LeafRules ==
    ASSUME NEW name, IsBlock(name), NEW leaves, Leafy(leaves)
    PROVE  LeafByLeaf(RulesForFields(name, leaves), leaves)
<1>1. /\ Kept(name, leaves) = DOMAIN leaves
      /\ \A f \in DOMAIN leaves : RustKey(name, f) = CamelToSnake(f)
      BY LeavesAreWritten
<1>2. RulesForFields(name, leaves) =
         [key \in {RustKey(name, f) : f \in DOMAIN leaves} |->
             leaves[CHOOSE f \in DOMAIN leaves : RustKey(name, f) = key].rule]
      BY <1>1 DEF RulesForFields, FieldFor
<1>3. {RustKey(name, f) : f \in DOMAIN leaves} = {CamelToSnake(f) : f \in DOMAIN leaves}
      BY <1>1
<1>4. ASSUME NEW f \in DOMAIN leaves
      PROVE  RulesForFields(name, leaves)[CamelToSnake(f)] = leaves[f].rule
  <2>1. PICK key : key = RustKey(name, f)
        OBVIOUS
  <2>2. (CHOOSE g \in DOMAIN leaves : RustKey(name, g) = key) = f
        BY <1>1, <2>1 DEF Leafy
  <2>3. key \in {RustKey(name, g) : g \in DOMAIN leaves}
        BY <2>1
  <2> QED BY <1>1, <1>2, <2>1, <2>2, <2>3
<1> QED BY <1>2, <1>3, <1>4 DEF LeafByLeaf

(* Where the blocks and an item's other form go *)
LEMMA BlocksAre ==
    /\ \A name \in DOMAIN BLOCK_SOURCES :
          BlockRules(manifest)[CamelToSnake(name)] = RulesForFields(name, manifest.blocks[name])
    /\ BlockRules(manifest)["add_edge"] =
          RulesForFields("addEdge", CHOOSE f \in AltForm(manifest, "add_edge") : TRUE)
<1> PICK styles : styles =
       [block \in {BLOCK_SOURCES[name] : name \in DOMAIN BLOCK_SOURCES} |->
          LET name == CHOOSE n \in DOMAIN BLOCK_SOURCES : BLOCK_SOURCES[n] = block IN
          RulesForFields(name, manifest.blocks[name])]
    OBVIOUS
<1> PICK forms : forms =
       [block \in DOMAIN ALT_FORM_BLOCKS |->
          LET fields == CHOOSE f \in AltForm(manifest, block) : TRUE IN
          RulesForFields(ALT_FORM_BLOCKS[block].field, fields)]
    OBVIOUS
<1>1. PICK all : all = Merged(<<styles, forms>>)
      OBVIOUS
<1>2. all = BlockRules(manifest)
      BY <1>1 DEF BlockRules
<1>3. TakesFirst(all, styles, forms)
      BY ONLY <1>1, FirstOfTwo
<1>4. ASSUME NEW name \in DOMAIN BLOCK_SOURCES
      PROVE  BlockRules(manifest)[CamelToSnake(name)] = RulesForFields(name, manifest.blocks[name])
  <2>1. PICK block : block = BLOCK_SOURCES[name]
        OBVIOUS
  <2>2. CamelToSnake(name) = block
        BY <2>1 DEF CamelToSnake, Snake, BLOCK_SOURCES
  <2>3. \A n \in DOMAIN BLOCK_SOURCES : BLOCK_SOURCES[n] = block => n = name
        BY <2>1 DEF BLOCK_SOURCES
  <2>4. (CHOOSE n \in DOMAIN BLOCK_SOURCES : BLOCK_SOURCES[n] = block) = name
        BY <2>1, <2>3
  <2>5. block \in DOMAIN styles
        BY <2>1
  <2>6. styles[block] = RulesForFields(name, manifest.blocks[name])
        BY <2>4, <2>5
  <2> QED BY <1>2, <1>3, <2>2, <2>5, <2>6 DEF TakesFirst
<1>5. BlockRules(manifest)["add_edge"] =
         RulesForFields("addEdge", CHOOSE f \in AltForm(manifest, "add_edge") : TRUE)
  <2>1. "add_edge" \notin DOMAIN styles
        BY DEF BLOCK_SOURCES
  <2>2. "add_edge" \in DOMAIN ALT_FORM_BLOCKS /\ ALT_FORM_BLOCKS["add_edge"].field = "addEdge"
        BY DEF ALT_FORM_BLOCKS
  <2> QED BY <1>2, <1>3, <2>1, <2>2 DEF TakesFirst
<1> QED BY <1>4, <1>5

LEMMA LeavesOffered ==
    ASSUME Green, LeavesApart(manifest)
    PROVE  EveryLeafOffered
<1> PICK forms : forms = manifest.items["group"].fields["addEdge"].alt
    OBVIOUS
<1>1. /\ tables.blocks = BlockRules(manifest)
      /\ DOMAIN manifest.blocks = DOMAIN BLOCK_SOURCES
      BY GreenTables, GreenGenerates DEF Generates
<1>2. /\ \A name \in DOMAIN manifest.blocks : Leafy(manifest.blocks[name])
      /\ \A form \in forms : Leafy(form) /\ \A other \in forms : other = form
      BY DEF LeavesApart, Leafy
<1>3. ASSUME NEW name \in DOMAIN manifest.blocks
      PROVE  /\ DOMAIN tables.blocks[CamelToSnake(name)] =
                   {CamelToSnake(f) : f \in DOMAIN manifest.blocks[name]}
             /\ \A f \in DOMAIN manifest.blocks[name] :
                   tables.blocks[CamelToSnake(name)][CamelToSnake(f)] =
                      manifest.blocks[name][f].rule
  <2>1. tables.blocks[CamelToSnake(name)] = RulesForFields(name, manifest.blocks[name])
        BY <1>1, BlocksAre
  <2>2. PICK leaves : leaves = manifest.blocks[name]
        OBVIOUS
  <2>3. Leafy(leaves) /\ IsBlock(name)
        BY <1>1, <1>2, <2>2 DEF IsBlock
  <2>4. LeafByLeaf(RulesForFields(name, leaves), leaves)
        BY ONLY <2>3, LeafRules
  <2> QED BY <2>1, <2>2, <2>4 DEF LeafByLeaf
<1>4. ASSUME NEW form \in forms
      PROVE  DOMAIN tables.blocks["add_edge"] = {CamelToSnake(f) : f \in DOMAIN form}
  <2>1. AltForm(manifest, "add_edge") # {}
        BY GreenGenerates DEF Generates, SourcesPresent, ALT_FORM_BLOCKS
  <2>2. AltForm(manifest, "add_edge") = forms
        BY <2>1 DEF AltForm, ALT_FORM_BLOCKS
  <2>3. (CHOOSE f \in AltForm(manifest, "add_edge") : TRUE) = form
        BY <1>2, <2>2
  <2>4. tables.blocks["add_edge"] = RulesForFields("addEdge", form)
        BY <1>1, <2>3, BlocksAre
  <2>5. Leafy(form) /\ IsBlock("addEdge")
        BY <1>2 DEF IsBlock
  <2>6. LeafByLeaf(RulesForFields("addEdge", form), form)
        BY ONLY <2>5, LeafRules
  <2> QED BY <2>4, <2>6 DEF LeafByLeaf
<1> QED BY <1>3, <1>4 DEF EveryLeafOffered

-----------------------------------------------------------------------------
(* The reference of the blocks is made leaf by leaf, and agrees. *)

LEMMA BlockNames ==
    DOMAIN BlockRules(manifest) =
       {BLOCK_SOURCES[name] : name \in DOMAIN BLOCK_SOURCES} \cup DOMAIN ALT_FORM_BLOCKS
<1> PICK styles : styles =
       [block \in {BLOCK_SOURCES[name] : name \in DOMAIN BLOCK_SOURCES} |->
          LET name == CHOOSE n \in DOMAIN BLOCK_SOURCES : BLOCK_SOURCES[n] = block IN
          RulesForFields(name, manifest.blocks[name])]
    OBVIOUS
<1> PICK forms : forms =
       [block \in DOMAIN ALT_FORM_BLOCKS |->
          LET fields == CHOOSE f \in AltForm(manifest, block) : TRUE IN
          RulesForFields(ALT_FORM_BLOCKS[block].field, fields)]
    OBVIOUS
<1>1. PICK all : all = Merged(<<styles, forms>>)
      OBVIOUS
<1>2. all = BlockRules(manifest)
      BY <1>1 DEF BlockRules
<1>3. TakesFirst(all, styles, forms)
      BY ONLY <1>1, FirstOfTwo
<1> QED BY <1>2, <1>3 DEF TakesFirst

(* Where the lines of the blocks and of an item's other form go *)
LEMMA BlockLinesAre ==
    /\ DOMAIN BlockReference(manifest) = DOMAIN BlockRules(manifest)
    /\ \A block \in DOMAIN BlockReference(manifest) :
          block = "add_edge" \/ \E name \in DOMAIN BLOCK_SOURCES : block = CamelToSnake(name)
    /\ \A name \in DOMAIN BLOCK_SOURCES :
          BlockReference(manifest)[CamelToSnake(name)] = LeafLines(name, manifest.blocks[name])
    /\ BlockReference(manifest)["add_edge"] =
          LeafLines("addEdge", CHOOSE f \in AltForm(manifest, "add_edge") : TRUE)
<1> PICK snakes : snakes = {BLOCK_SOURCES[name] : name \in DOMAIN BLOCK_SOURCES}
    OBVIOUS
<1> PICK styles : styles =
       [block \in snakes |->
          LET name == CHOOSE n \in DOMAIN BLOCK_SOURCES : BLOCK_SOURCES[n] = block IN
          LeafLines(name, manifest.blocks[name])]
    OBVIOUS
<1> PICK forms : forms =
       [block \in DOMAIN ALT_FORM_BLOCKS |->
          LET fields == CHOOSE f \in AltForm(manifest, block) : TRUE IN
          LeafLines(ALT_FORM_BLOCKS[block].field, fields)]
    OBVIOUS
<1>1. PICK all : all = Merged(<<styles, forms>>)
      OBVIOUS
<1>2. all = BlockReference(manifest)
      BY <1>1 DEF BlockReference
<1>3. TakesFirst(all, styles, forms)
      BY ONLY <1>1, FirstOfTwo
<1>4. DOMAIN all = snakes \cup DOMAIN ALT_FORM_BLOCKS
      BY <1>3 DEF TakesFirst
<1>5. DOMAIN BlockRules(manifest) = snakes \cup DOMAIN ALT_FORM_BLOCKS
      BY BlockNames
<1>6. ASSUME NEW name \in DOMAIN BLOCK_SOURCES
      PROVE  all[CamelToSnake(name)] = LeafLines(name, manifest.blocks[name])
  <2>1. PICK block : block = BLOCK_SOURCES[name]
        OBVIOUS
  <2>2. CamelToSnake(name) = block
        BY <2>1 DEF CamelToSnake, Snake, BLOCK_SOURCES
  <2>3. \A n \in DOMAIN BLOCK_SOURCES : BLOCK_SOURCES[n] = block => n = name
        BY <2>1 DEF BLOCK_SOURCES
  <2>4. (CHOOSE n \in DOMAIN BLOCK_SOURCES : BLOCK_SOURCES[n] = block) = name
        BY <2>1, <2>3
  <2>5. block \in DOMAIN styles
        BY <2>1
  <2>6. styles[block] = LeafLines(name, manifest.blocks[name])
        BY <2>4, <2>5
  <2> QED BY <1>3, <2>2, <2>5, <2>6 DEF TakesFirst
<1>7. all["add_edge"] = LeafLines("addEdge", CHOOSE f \in AltForm(manifest, "add_edge") : TRUE)
  <2>1. "add_edge" \notin DOMAIN styles
        BY DEF BLOCK_SOURCES
  <2>2. "add_edge" \in DOMAIN ALT_FORM_BLOCKS /\ ALT_FORM_BLOCKS["add_edge"].field = "addEdge"
        BY DEF ALT_FORM_BLOCKS
  <2> QED BY <1>3, <2>1, <2>2 DEF TakesFirst
<1>8. ASSUME NEW block \in DOMAIN all
      PROVE  block = "add_edge" \/ \E name \in DOMAIN BLOCK_SOURCES : block = CamelToSnake(name)
  <2>1. CASE block \in snakes
    <3>1. PICK name \in DOMAIN BLOCK_SOURCES : block = BLOCK_SOURCES[name]
          BY <2>1
    <3>2. CamelToSnake(name) = block
          BY <3>1 DEF CamelToSnake, Snake, BLOCK_SOURCES
    <3> QED BY <3>2
  <2>2. CASE block \in DOMAIN ALT_FORM_BLOCKS
        BY <2>2 DEF ALT_FORM_BLOCKS
  <2> QED BY <1>4, <2>1, <2>2
<1> QED BY <1>2, <1>4, <1>5, <1>6, <1>7, <1>8

LeavesDocument(lines, rules) ==
    /\ {leaf.key : leaf \in lines} = DOMAIN rules
    /\ \A leaf \in lines : Documents(leaf.line, rules[leaf.key])

LEMMA LeafLinesDocument ==
    ASSUME NEW name, IsBlock(name), NEW leaves, Leafy(leaves),
           TypesFit(manifest) => \A f \in DOMAIN leaves : Fits(leaves[f])
    PROVE  LeavesDocument(LeafLines(name, leaves), RulesForFields(name, leaves))
<1> PICK rules, lines : rules = RulesForFields(name, leaves) /\ lines = LeafLines(name, leaves)
    OBVIOUS
<1>1. \A f \in DOMAIN leaves : RustKey(name, f) = CamelToSnake(f)
      BY LeavesAreWritten
<1>2. LeafByLeaf(rules, leaves)
      BY LeafRules
<1>3. /\ \A leaf \in lines : \E f \in DOMAIN leaves :
            leaf.key = CamelToSnake(f) /\ leaf.line = FieldLine(leaves[f], FALSE)
      /\ \A f \in DOMAIN leaves : \E leaf \in lines : leaf.key = CamelToSnake(f)
  <2>1. lines = {[key |-> RustKey(name, f), line |-> FieldLine(leaves[f], FALSE)] :
                    f \in DOMAIN leaves}
        BY DEF LeafLines
  <2>2. ASSUME NEW leaf \in lines
        PROVE  \E f \in DOMAIN leaves :
                  leaf.key = CamelToSnake(f) /\ leaf.line = FieldLine(leaves[f], FALSE)
    <3>1. PICK f \in DOMAIN leaves :
             leaf = [key |-> RustKey(name, f), line |-> FieldLine(leaves[f], FALSE)]
          BY <2>1
    <3>2. leaf.key = RustKey(name, f) /\ leaf.line = FieldLine(leaves[f], FALSE)
          BY <3>1
    <3> QED BY <1>1, <3>2
  <2>3. ASSUME NEW f \in DOMAIN leaves PROVE \E leaf \in lines : leaf.key = CamelToSnake(f)
    <3>1. [key |-> RustKey(name, f), line |-> FieldLine(leaves[f], FALSE)] \in lines
          BY <2>1
    <3> QED BY <1>1, <3>1
  <2> QED BY <2>2, <2>3
<1>4. {leaf.key : leaf \in lines} = DOMAIN rules
  <2>1. DOMAIN rules = {CamelToSnake(f) : f \in DOMAIN leaves}
        BY <1>2 DEF LeafByLeaf
  <2>2. \A leaf \in lines : leaf.key \in DOMAIN rules
        BY <1>3, <2>1
  <2>3. \A key \in DOMAIN rules : \E leaf \in lines : leaf.key = key
        BY <1>3, <2>1
  <2> QED BY ONLY <2>2, <2>3
<1>5. ASSUME NEW leaf \in lines PROVE Documents(leaf.line, rules[leaf.key])
  <2>1. PICK f \in DOMAIN leaves :
           leaf.key = CamelToSnake(f) /\ leaf.line = FieldLine(leaves[f], FALSE)
        BY <1>3
  <2>2. PICK field : field = leaves[f]
        OBVIOUS
  <2>3. rules[leaf.key] = field.rule
        BY <1>2, <2>1, <2>2 DEF LeafByLeaf
  <2>4. TypesFit(manifest) => Fits(field)
        BY <2>2
  <2>5. /\ SaysNoOther(FieldLine(field, FALSE), field.rule)
        /\ Fits(field) => SaysAll(FieldLine(field, FALSE), field.rule)
        BY FieldLineSays
  <2> QED BY <2>1, <2>2, <2>3, <2>4, <2>5 DEF Documents
<1> QED BY <1>4, <1>5 DEF LeavesDocument

LEMMA BlocksDocumented ==
    ASSUME Green, LeavesApart(manifest)
    PROVE  /\ DOMAIN reference.blocks = DOMAIN tables.blocks
           /\ \A block \in DOMAIN tables.blocks :
                 LeavesDocument(reference.blocks[block], tables.blocks[block])
<1> PICK forms : forms = manifest.items["group"].fields["addEdge"].alt
    OBVIOUS
<1>1. /\ tables.blocks = BlockRules(manifest) /\ reference.blocks = BlockReference(manifest)
      /\ DOMAIN manifest.blocks = DOMAIN BLOCK_SOURCES
      BY GreenTables, GreenReference, GreenGenerates DEF Generates
<1>2. DOMAIN reference.blocks = DOMAIN tables.blocks
      BY <1>1, BlockLinesAre
<1>3. ASSUME NEW name \in DOMAIN BLOCK_SOURCES
      PROVE  LeavesDocument(reference.blocks[CamelToSnake(name)], tables.blocks[CamelToSnake(name)])
  <2>1. PICK leaves : leaves = manifest.blocks[name]
        OBVIOUS
  <2>2. Leafy(leaves) /\ IsBlock(name)
        BY <1>1, <2>1 DEF LeavesApart, Leafy, IsBlock
  <2>3. TypesFit(manifest) => \A f \in DOMAIN leaves : Fits(leaves[f])
        BY <1>1, <2>1 DEF TypesFit
  <2>4. LeavesDocument(LeafLines(name, leaves), RulesForFields(name, leaves))
        BY ONLY <2>2, <2>3, LeafLinesDocument
  <2>5. /\ tables.blocks[CamelToSnake(name)] = RulesForFields(name, leaves)
        /\ reference.blocks[CamelToSnake(name)] = LeafLines(name, leaves)
        BY <1>1, <2>1, BlocksAre, BlockLinesAre
  <2> QED BY <2>4, <2>5
<1>4. LeavesDocument(reference.blocks["add_edge"], tables.blocks["add_edge"])
  <2>1. AltForm(manifest, "add_edge") # {}
        BY GreenGenerates DEF Generates, SourcesPresent, ALT_FORM_BLOCKS
  <2>2. AltForm(manifest, "add_edge") = forms
        BY <2>1 DEF AltForm, ALT_FORM_BLOCKS
  <2>3. PICK form : form = CHOOSE f \in AltForm(manifest, "add_edge") : TRUE
        OBVIOUS
  <2>4. form \in forms
        BY <2>1, <2>2, <2>3
  <2>5. Leafy(form) /\ IsBlock("addEdge")
        BY <2>4 DEF LeavesApart, Leafy, IsBlock
  <2>6. TypesFit(manifest) => \A f \in DOMAIN form : Fits(form[f])
        BY <2>4 DEF TypesFit
  <2>7. LeavesDocument(LeafLines("addEdge", form), RulesForFields("addEdge", form))
        BY ONLY <2>5, <2>6, LeafLinesDocument
  <2>8. /\ tables.blocks["add_edge"] = RulesForFields("addEdge", form)
        /\ reference.blocks["add_edge"] = LeafLines("addEdge", form)
        BY <1>1, <2>3, BlocksAre, BlockLinesAre
  <2> QED BY <2>7, <2>8
<1> QED BY <1>1, <1>2, <1>3, <1>4, BlockLinesAre

LEMMA Agreement ==
    ASSUME SectionsGiven(manifest), KeysApart(manifest), LeavesApart(manifest),
           LegacyNeverHolds(manifest)
    PROVE  GreenReferenceAgrees
<1> SUFFICES ASSUME Green
             PROVE  /\ \A attr \in DOMAIN tables.attrs :
                          /\ Sections(attr) # {}
                          /\ \A section \in Sections(attr) :
                                /\ reference.sections[section][attr] = ItemReference(manifest, attr)
                                /\ tables.attrs[attr] = AttrRules(manifest, attr)
                                /\ LinesDocument(attr)
                    /\ DOMAIN reference.blocks = DOMAIN tables.blocks
                    /\ \A block \in DOMAIN tables.blocks :
                          LeavesDocument(reference.blocks[block], tables.blocks[block])
                    /\ \A attr \in {a \in DOMAIN tables.attrs : ~Discriminated(a)} :
                          {form.keys : form \in {f \in reference.deprecated : f.attr = attr}}
                            = {dep.when_any_key :
                                 dep \in {d \in tables.deprecations : d.attr = attr}}
    BY DEF GreenReferenceAgrees, LinesDocument, LeavesDocument
<1>1. ASSUME NEW attr \in DOMAIN tables.attrs
      PROVE  /\ Sections(attr) # {}
             /\ \A section \in Sections(attr) :
                   /\ reference.sections[section][attr] = ItemReference(manifest, attr)
                   /\ tables.attrs[attr] = AttrRules(manifest, attr)
                   /\ LinesDocument(attr)
  <2>1. attr \in DOMAIN ATTR_SOURCES /\ AllDescribed(attr)
        BY GreenTables, GreenGenerates
  <2>2. 1 \in DOMAIN ATTR_SOURCES[attr]
        BY <2>1, Sources
  <2>3. PICK section \in {"constraints", "directives"} :
           section \in FirstItem(manifest, attr).sections
        BY <2>1, <2>2 DEF SectionsGiven, AllDescribed, FirstItem
  <2>4. section \in Sections(attr)
        BY <2>1, <2>3, GreenReference DEF Sections
  <2>5. \A s \in Sections(attr) :
           reference.sections[s][attr] = ItemReference(manifest, attr)
        BY GreenReference DEF Sections
  <2>6. tables.attrs[attr] = AttrRules(manifest, attr)
        BY <2>1, GreenTables
  <2>7. LinesDocument(attr)
        BY <2>1, LinesAgree
  <2> QED BY <2>4, <2>5, <2>6, <2>7
<1>2. /\ DOMAIN reference.blocks = DOMAIN tables.blocks
      /\ \A block \in DOMAIN tables.blocks :
            LeavesDocument(reference.blocks[block], tables.blocks[block])
      BY BlocksDocumented
<1>3. ASSUME NEW attr \in DOMAIN tables.attrs, ~Discriminated(attr)
      PROVE  {form.keys : form \in {f \in reference.deprecated : f.attr = attr}}
               = {dep.when_any_key : dep \in {d \in tables.deprecations : d.attr = attr}}
  <2>1. /\ attr \in DOMAIN ATTR_SOURCES /\ Generates(manifest)
        /\ reference.deprecated = DeprecatedForms(manifest)
        /\ tables.deprecations = DeprecationSpecs(manifest)
        BY GreenTables, GreenReference, GreenGenerates
  <2> QED BY <1>3, <2>1, ShapesAgree
<1> QED BY <1>1, <1>2, <1>3

(* Where the tests pass, the rustdoc reference, whose lines go by a field's type,
   and the tables, which do not, agree: the same keys of every attribute and
   block, no line with a value, bound, default or requirement that the macro does
   not have, every value and bound where the types fit, and the same deprecated
   shapes.  So for any manifest that gives its items a section, its fields and
   leaves distinct keys, and no hold to an item that shares an attribute with an
   earlier one; types of any kind. *)
THEOREM ReferenceAgrees ==
    Spec => []((/\ SectionsGiven(manifest) /\ KeysApart(manifest)
                /\ LeavesApart(manifest) /\ LegacyNeverHolds(manifest))
                  => GreenReferenceAgrees)
<1>1. (/\ SectionsGiven(manifest) /\ KeysApart(manifest)
       /\ LeavesApart(manifest) /\ LegacyNeverHolds(manifest))
         => GreenReferenceAgrees
      BY Agreement
<1> QED BY <1>1, PTL

-----------------------------------------------------------------------------
(* Deprecated items are warned about, and no others. *)

(* What makes an item deprecated is among the keys of its warning, or it has none. *)
LEMMA DeprecatedWarned ==
    ASSUME Green, ShapesTold(manifest),
           NEW attr \in DOMAIN ATTR_SOURCES, NEW id \in ToSet(ATTR_SOURCES[attr]),
           id \in DOMAIN manifest.deprecations, Telling(manifest, id) # {}
    PROVE  Warned(attr, Telling(manifest, id))
<1>1. Generates(manifest) /\ tables.deprecations = DeprecationSpecs(manifest)
      BY GreenGenerates, GreenTables
<1>2. attr \in AuthoredFrom(id)
      BY ItsSources
<1>3. id \in Applicable(manifest)
      BY <1>2, NotAuthored DEF Applicable
<1>4. PICK keys \in WhenAnyKey(manifest, id, attr) : TRUE
      BY <1>1, <1>2, <1>3, ApplicableItems
<1>5. PICK replacement \in AuthoredFrom(manifest.deprecations[id].replacedBy) : TRUE
      BY <1>1, <1>2, <1>3, ApplicableItems
<1>6. Warning(attr, keys, replacement) \in tables.deprecations
      BY <1>1, <1>2, <1>3, <1>4, <1>5, WarningsAre
<1>7. keys = {} \/ keys \cap Telling(manifest, id) # {}
  <2>1. CASE manifest.items[id].discriminator # {}
    <3>1. PICK d \in manifest.items[id].discriminator :
             keys = IF d.present THEN {RustKey(id, d.field)} ELSE {}
          BY <1>4, <2>1 DEF WhenAnyKey
    <3>2. RustKey(id, d.field) \in Telling(manifest, id)
          BY DEF Telling
    <3> QED BY <3>1, <3>2
  <2>2. CASE manifest.items[id].discriminator = {} /\ id \in DOMAIN SHAPE_DISCRIMINATORS
    <3>1. keys = SHAPE_DISCRIMINATORS[id]
          BY <1>4, <2>2 DEF WhenAnyKey
    <3> QED BY <2>2, <3>1 DEF ShapesTold
  <2>3. CASE manifest.items[id].discriminator = {} /\ id \notin DOMAIN SHAPE_DISCRIMINATORS
        BY <1>4, <2>3 DEF WhenAnyKey
  <2> QED BY <2>1, <2>2, <2>3
<1> QED BY <1>6, <1>7 DEF Warned, Warning

LEMMA OthersShare ==
    ASSUME NEW attr \in DOMAIN ATTR_SOURCES, NEW a \in ToSet(ATTR_SOURCES[attr]),
           NEW b \in ToSet(ATTR_SOURCES[attr]), a # b
    PROVE  Len(ATTR_SOURCES[attr]) > 1 /\ Len(ATTR_SOURCES[attr]) # 1
<1>1. PICK m, n \in DOMAIN ATTR_SOURCES[attr] :
         ATTR_SOURCES[attr][m] = a /\ ATTR_SOURCES[attr][n] = b
      BY DEF ToSet
<1>2. attr = "edge_style"
      BY <1>1, Sources
<1> QED BY <1>2, ManySources

(* A warning of another item is for keys that only that item has. *)
LEMMA OthersNotWarned ==
    ASSUME Green, ShapesTold(manifest),
           NEW attr \in DOMAIN ATTR_SOURCES, NEW id \in ToSet(ATTR_SOURCES[attr]),
           id \notin DOMAIN manifest.deprecations, Warned(attr, KeysOf(manifest, id) \ Shared(attr))
    PROVE  FALSE
<1>1. Generates(manifest) /\ tables.deprecations = DeprecationSpecs(manifest)
      BY GreenGenerates, GreenTables
<1>2. PICK dep \in DeprecationSpecs(manifest) :
         /\ dep.attr = attr
         /\ \/ dep.when_any_key = {}
            \/ dep.when_any_key \cap (KeysOf(manifest, id) \ Shared(attr)) # {}
      BY <1>1 DEF Warned
<1>3. PICK other \in Applicable(manifest) : \E a \in AuthoredFrom(other) :
         \E keys \in WhenAnyKey(manifest, other, a) :
            \E replacement \in AuthoredFrom(manifest.deprecations[other].replacedBy) :
               dep = Warning(a, keys, replacement)
      BY WarningsAre
<1>4. PICK keys : keys = dep.when_any_key
      OBVIOUS
<1>5. attr \in AuthoredFrom(other) /\ keys \in WhenAnyKey(manifest, other, attr)
      BY <1>2, <1>3, <1>4 DEF Warning
<1>6. other \in ToSet(ATTR_SOURCES[attr]) /\ other # id
      BY <1>1, <1>5, ItsSources, ApplicableItems
<1>7. Len(ATTR_SOURCES[attr]) > 1 /\ Len(ATTR_SOURCES[attr]) # 1
      BY <1>6, OthersShare
<1>8. \/ keys \cap (KeysOf(manifest, id) \ Shared(attr)) = {}
      \/ ~(keys \subseteq KeysOf(manifest, other))
      BY <1>6 DEF Shared
<1>9. keys # {} /\ keys \subseteq KeysOf(manifest, other)
  <2>1. CASE manifest.items[other].discriminator # {}
    <3>1. PICK d \in manifest.items[other].discriminator :
             keys = IF d.present THEN {RustKey(other, d.field)} ELSE {}
          BY <1>5, <2>1 DEF WhenAnyKey
    <3>2. d.present /\ d.field \in KeptFields(other)
          BY <1>6, <1>7 DEF ShapesTold, KeptFields
    <3>3. RustKey(other, d.field) \in KeysOf(manifest, other)
          BY <3>2, OwnKeys
    <3> QED BY <3>1, <3>2, <3>3
  <2>2. CASE manifest.items[other].discriminator = {} /\ other \in DOMAIN SHAPE_DISCRIMINATORS
    <3>1. keys = SHAPE_DISCRIMINATORS[other]
          BY <1>5, <2>2 DEF WhenAnyKey
    <3>2. keys \subseteq KeysOf(manifest, other)
          BY <2>2, <3>1 DEF ShapesTold
    <3>3. keys # {}
          BY <2>2, <3>1 DEF SHAPE_DISCRIMINATORS
    <3> QED BY <3>2, <3>3
  <2>3. CASE manifest.items[other].discriminator = {} /\ other \notin DOMAIN SHAPE_DISCRIMINATORS
        BY <1>5, <1>7, <2>3 DEF WhenAnyKey
  <2> QED BY <2>1, <2>2, <2>3
<1> QED BY <1>2, <1>4, <1>8, <1>9

LEMMA Description ==
    ASSUME KeysApart(manifest), LeavesApart(manifest), ShapesTold(manifest)
    PROVE  DescribesIfGreen
<1> SUFFICES ASSUME Green
             PROVE  EveryFieldOffered /\ EveryLeafOffered /\ DeprecatedItemsWarned
    BY DEF DescribesIfGreen
<1>1. EveryFieldOffered
      BY FieldsOffered
<1>2. EveryLeafOffered
      BY LeavesOffered
<1>3. DOMAIN tables.attrs = DOMAIN ATTR_SOURCES
      BY GreenTables
<1>4. \A attr \in DOMAIN ATTR_SOURCES : \A id \in ToSet(ATTR_SOURCES[attr]) :
         IF id \in DOMAIN manifest.deprecations
         THEN Telling(manifest, id) # {} => Warned(attr, Telling(manifest, id))
         ELSE ~Warned(attr, KeysOf(manifest, id) \ Shared(attr))
      BY DeprecatedWarned, OthersNotWarned
<1>5. DeprecatedItemsWarned
      BY <1>3, <1>4 DEF DeprecatedItemsWarned
<1> QED BY <1>1, <1>2, <1>5

-----------------------------------------------------------------------------
(* The repository as it is checked in *)

(* Before the first release, nothing but what is checked in is ever written. *)
VersionInv ==
    /\ "version" \in DOMAIN manifest /\ manifest.version \in Nat
    /\ manifest.version = 0 =>
          manifest = Vendored /\ tables = CheckedIn /\ reference = Reference(Vendored)

LEMMA VersionInit == Init => VersionInv
<1> SUFFICES ASSUME Init PROVE VersionInv
    OBVIOUS
<1>1. "version" \in DOMAIN Vendored /\ Vendored.version \in Nat
      BY DEF Vendored, SPYTIAL_CORE_VERSION
<1> QED BY <1>1 DEF Init, VersionInv

LEMMA VersionStep == VersionInv /\ [Next]_vars => VersionInv'
<1> SUFFICES ASSUME VersionInv, [Next]_vars PROVE VersionInv'
    OBVIOUS
<1> USE DEF VersionInv
<1>1. ASSUME NEW change \in Changes, Vendor(change) PROVE VersionInv'
  <2>1. PICK put : put = Put(manifest[change.part], change.id, change.to)
        OBVIOUS
  <2>2. change.part # "version"
        BY ChangesKeepVersion
  <2>3. manifest' = [manifest EXCEPT ![change.part] = put, !.version = @ + 1]
        BY <1>1, <2>1 DEF Vendor
  <2>4. "version" \in DOMAIN manifest' /\ manifest'.version = manifest.version + 1
        BY <2>2, <2>3
  <2> QED BY <2>4
<1>2. CASE WriteTables
      BY <1>2, CheckedInPasses DEF WriteTables
<1>3. CASE WriteReference
      BY <1>3 DEF WriteReference
<1>4. CASE WriteFails
      BY <1>4 DEF WriteFails
<1>5. CASE UNCHANGED vars
      BY <1>5 DEF vars
<1> QED BY <1>1, <1>2, <1>3, <1>4, <1>5 DEF Next

LEMMA CheckedInIsGreen ==
    ASSUME VersionInv, manifest.version = 0
    PROVE  AsForeseen(manifest) /\ Green
<1>1. manifest = Vendored /\ tables = CheckedIn /\ reference = Reference(Vendored)
      BY DEF VersionInv
<1> QED BY <1>1, CheckedInPasses DEF Green, UpToDate

(* What is checked in passes the tests, and where they pass the tables describe
   the vendored language: every field and leaf is taken with its own rule, every
   deprecated item is warned about and no other, of any manifest that gives its
   fields and leaves distinct keys and its shared attributes shapes that can be
   told apart, after any releases, refusals and half-finished runs. *)
THEOREM TablesDescribe ==
    Spec => []((KeysApart(manifest) /\ LeavesApart(manifest) /\ ShapesTold(manifest))
                  => GreenTablesDescribe)
<1>1. VersionInv => ((KeysApart(manifest) /\ LeavesApart(manifest) /\ ShapesTold(manifest))
                        => GreenTablesDescribe)
      BY Description, CheckedInIsGreen DEF GreenTablesDescribe
<1> QED BY <1>1, VersionInit, VersionStep, PTL DEF Spec
=============================================================================
