--------------------------- MODULE AttributeText ---------------------------
(* The scanners of the derive macro.  An attribute such as

       #[edge_style(field = "next", line_style(weight = 2.0))]

   is read from the text its tokens print as.  Here a text is a sequence of
   lexemes: a word (identifier, number, true, false) is one lexeme, and so is
   each punctuation mark, a string literal being its quotes, its escapes and
   what is between them.  Words are never split, so the code's tests for
   identifier boundaries and its skipping of white space are the lexing.

   An option is a set of at most one element. *)
EXTENDS Integers, Sequences, SequencesExt

Or(option, default) == IF option = {} THEN default ELSE CHOOSE v \in option : TRUE

IsWord(x) == x \notin {"=", "(", ")", ",", "[", "]", "\"", "\\", "#", "->"}

-----------------------------------------------------------------------------
(* String literals: "with \" escapes" or r#"raw"#. *)

(* Whether the literal's backslash before k escapes the lexeme at k *)
Escaped(t, i, k) ==
    LET escaped[j \in i + 1 .. k] ==
            j > i + 1 /\ t[j - 1] = "\\" /\ ~escaped[j - 1]
    IN  escaped[k]

Hashes(t, i) ==
    CHOOSE h \in 0 .. Len(t) - i :
       /\ \A j \in i + 1 .. i + h : t[j] = "#"
       /\ i + h = Len(t) \/ t[i + h + 1] # "#"

IsRaw(t, i) ==
    /\ t[i] = "r"
    /\ LET quote == i + Hashes(t, i) + 1 IN quote <= Len(t) /\ t[quote] = "\""

StringLiteralEndAtFirstQuote(t, i) ==   \* escapes are not looked at
    LET closing == {k \in i + 1 .. Len(t) : t[k] = "\""} IN
    IF t[i] \in {"\"", "r"} /\ closing # {} THEN Min(closing) + 1 ELSE 0

EndOf(closing, hashes) == IF closing = {} THEN 0 ELSE Min(closing) + hashes + 1

(* The position after the literal that starts at i; 0 if none does. *)
StringLiteralEnd(t, i) ==
    IF i > Len(t) THEN 0
    ELSE IF t[i] = "\"" THEN
       EndOf({k \in i + 1 .. Len(t) : t[k] = "\"" /\ ~Escaped(t, i, k)}, 0)
    ELSE IF IsRaw(t, i) THEN
       LET h == Hashes(t, i) IN
       EndOf({k \in i + h + 2 .. Len(t) - h :
                t[k] = "\"" /\ \A j \in k + 1 .. k + h : t[j] = "#"}, h)
    ELSE 0

At(t, positions) == [n \in DOMAIN positions |-> t[positions[n]]]

(* The value of a literal, as rustc decodes it *)
LitStr(t) ==
    IF t[1] = "r"
    THEN LET h == Hashes(t, 1) IN SubSeq(t, h + 3, Len(t) - h - 1)
    ELSE At(t, SelectSeq([n \in 1 .. Len(t) - 2 |-> n + 1],
                         LAMBDA k : t[k] # "\\" \/ Escaped(t, 1, k)))

-----------------------------------------------------------------------------
(* What every scan keeps track of.  At each position: the lexeme, whether it is
   code or inside a literal, whether a literal starts there, where that literal
   ends, and how many groups are open before it and after it. *)
Lexeme(x, i, inside, end, depth) ==
    [x |-> x, code |-> end <= i, starts |-> ~inside /\ end > i, end |-> end,
     depth |-> depth,
     after |-> CASE end <= i /\ x = "(" -> depth + 1
                 [] end <= i /\ x = ")" /\ depth > 0 -> depth - 1
                 [] OTHER -> depth]

LexemeAfter(last, t, i) ==
    Lexeme(t[i], i, last.end > i,
           IF last.end > i THEN last.end ELSE StringLiteralEnd(t, i), last.after)

Scan(t) ==
    LET scan[i \in 0 .. Len(t)] ==
            IF i = 0 THEN << >>
            ELSE LET before == scan[i - 1] IN
                 Append(before, LexemeAfter(IF i = 1 THEN [end |-> 0, after |-> 0]
                                            ELSE Last(before), t, i))
    IN  scan[Len(t)]

Words(s) == [i \in DOMAIN s |-> s[i].x]

(* From here on, s is a scanned text. *)

KeyValueStarts(s, key) ==
    {i \in 3 .. Len(s) : s[i - 2].code /\ s[i - 2].x = key /\ s[i - 1].x = "="}

HasKey(s, key) == KeyValueStarts(s, key) # {}

(* Of the keys written at depth 0, the ones with a value or a group *)
TopLevelKeys(s) ==
    {s[i].x : i \in {j \in 1 .. Len(s) - 1 :
                 s[j].code /\ s[j].depth = 0 /\ IsWord(s[j].x) /\ s[j + 1].x \in {"=", "("}}}

StripNothing(s) == s

StripGroups(s) ==
    Scan(Words(SelectSeq(s,
        LAMBDA l : l.depth = 0 \/ (l.code /\ l.x = ")" /\ l.depth = 1))))

(* The text of the group that opens at i, without its parentheses *)
GroupText(s, i) ==
    LET close == {j \in i + 2 .. Len(s) :
                    s[j].code /\ s[j].x = ")" /\ s[j].depth = s[i].depth + 1}
    IN  IF close = {} THEN {} ELSE {Scan(Words(SubSeq(s, i + 2, Min(close) - 1)))}

First(positions) == IF positions = {} THEN {} ELSE {Min(positions)}

GroupAnywhere(s, key) ==           \* depth is not looked at
    UNION {GroupText(s, i) : i \in First({j \in 1 .. Len(s) - 1 :
              s[j].code /\ s[j].x = key /\ s[j + 1].x = "("})}

(* The text inside the first group `key (...)` at depth 0 *)
ExtractGroup(s, key) ==
    UNION {GroupText(s, i) : i \in First({j \in 1 .. Len(s) - 1 :
              s[j].code /\ s[j].depth = 0 /\ s[j].x = key /\ s[j + 1].x = "("})}

-----------------------------------------------------------------------------
(* Values: the first `key = ` whose value has the kind asked for *)

Literal(s, i) == LitStr(Words(SubSeq(s, i, s[i].end - 1)))

ExtractString(s, key) ==
    {Literal(s, i) : i \in First({j \in KeyValueStarts(s, key) : s[j].starts})}

(* The numbers that occur, in halves; a u32 has no point. *)
Numbers == [w \in {"0", "0.5", "1", "2"} |->
              CASE w = "0" -> 0 [] w = "0.5" -> 1 [] w = "1" -> 2 [] OTHER -> 4]

ExtractScalar(s, key, values) ==
    {values[s[i].x] : i \in First({j \in KeyValueStarts(s, key) : s[j].x \in DOMAIN values})}

ExtractFloat(s, key) == ExtractScalar(s, key, Numbers)
ExtractNumber(s, key) ==
    ExtractScalar(s, key, [w \in DOMAIN Numbers \ {"0.5"} |-> Numbers[w]])
ExtractBool(s, key) ==
    ExtractScalar(s, key, [w \in {"true", "false"} |-> w = "true"])

Flushed(a) == IF a.bare = << >> THEN a.items ELSE Append(a.items, a.bare)

(* The items between [ and ]: literals decoded, bare words as written *)
ArrayItems(s, i, close) ==
    LET upTo[j \in i .. close - 1] ==
            IF j = i THEN [items |-> << >>, bare |-> << >>]
            ELSE LET a == upTo[j - 1] IN
                 CASE s[j].starts -> [a EXCEPT !.items = Append(@, Literal(s, j))]
                   [] s[j].code /\ s[j].x = "," -> [items |-> Flushed(a), bare |-> << >>]
                   [] s[j].code /\ s[j].x # "," -> [a EXCEPT !.bare = Append(@, s[j].x)]
                   [] OTHER -> a
    IN  Flushed(upTo[close - 1])

Closing(s, i) == {j \in i + 1 .. Len(s) : s[j].code /\ s[j].x = "]"}

ExtractArray(s, key) ==
    {ArrayItems(s, i, Min(Closing(s, i))) :
        i \in First({j \in KeyValueStarts(s, key) : s[j].x = "[" /\ Closing(s, j) # {}})}

-----------------------------------------------------------------------------
(* An attribute as it is written: [name, list, items], where list says whether
   it has a parenthesized list at all, and an item is [key, form, of] with the
   form "bare" (`key`), "word" (`key = true`), "str" or "raw" (`key = "..."`),
   "list" (`key = ["...", ...]`), "words" (`key = [a, ...]`) or "group"
   (`key(...)`).  Text is what its token stream prints as. *)

Commas(parts) ==
    FlattenSeq([n \in DOMAIN parts |->
                  IF n = 1 THEN parts[n] ELSE <<",">> \o parts[n]])

Quoted(value) ==
    <<"\"">> \o FlattenSeq([n \in DOMAIN value |->
                 IF value[n] \in {"\"", "\\"} THEN <<"\\", value[n]>> ELSE <<value[n]>>])
             \o <<"\"">>

ItemText(item, inner) ==
    CASE item.form = "bare" -> <<item.key>>
      [] item.form = "word" -> <<item.key, "=">> \o item.of
      [] item.form = "str" -> <<item.key, "=">> \o Quoted(item.of)
      [] item.form = "raw" ->
            <<item.key, "=", "r", "#", "\"">> \o item.of \o <<"\"", "#">>
      [] item.form = "list" -> <<item.key, "=", "[">> \o
            Commas([n \in DOMAIN item.of |-> Quoted(item.of[n])]) \o <<"]">>
      [] item.form = "words" -> <<item.key, "=", "[">> \o
            Commas([n \in DOMAIN item.of |-> item.of[n]]) \o <<"]">>
      [] item.form = "group" -> <<item.key, "(">> \o inner \o <<")">>

(* Groups nest at most twice: add_edge(line_style(...)). *)
LeafText(items) ==
    Commas([n \in DOMAIN items |-> ItemText(items[n], << >>)])
BlockText(items) ==
    Commas([n \in DOMAIN items |-> ItemText(items[n], LeafText(items[n].of))])
Text(items) ==
    Commas([n \in DOMAIN items |-> ItemText(items[n], BlockText(items[n].of))])
=============================================================================
