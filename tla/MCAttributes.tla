---------------------------- MODULE MCAttributes ----------------------------
(* A catalogue of attributes: every attribute, its defaults, every style block,
   legacy and current shapes, what must be refused, and selectors whose text
   looks like the rest of an attribute. *)
EXTENDS AttributeMeaning

Item(key, form, of) == [key |-> key, form |-> form, of |-> of]
Str(key, word) == Item(key, "str", <<word>>)
Word1(key, word) == Item(key, "word", <<word>>)
Group(key, items) == Item(key, "group", items)
Attr(name, items) == [name |-> name, list |-> TRUE, items |-> items]
Path(name) == [name |-> name, list |-> FALSE, items |-> << >>]

(* {x | @:(x.color) = "negated = true, style(" } *)
Tricky == <<"x", "(", "color", ")", "=", "\"", "negated", "=", "true", ",",
            "directions", "=", "[", "line_style", "(", "weight", "=", "0", "\"">>
(* unbalanced, and ending in an escaped backslash *)
Unbalanced == <<")", ")", "(", "value", "=", "\"", "blue", "\"", "\\">>
FieldText == <<"field", "=", "\"", "x", "\"">>

Dotted == Group("line_style", <<Str("pattern", "dotted"), Word1("weight", "0.5")>>)
Small == Group("text_style", <<Str("size", "small"), Str("color", "gray")>>)

MCCatalogue == <<
    Attr("orientation", <<Item("selector", "str", Tricky),
                          Item("directions", "list", <<<<"above">>, <<"left">>>>)>>),
    Attr("orientation", <<Item("directions", "words", <<<<"directlyLeft">>, <<"left">>>>),
                          Word1("negated", "true"), Item("selector", "raw", Tricky)>>),
    Attr("orientation", <<Item("directions", "list", <<<<"above">>, <<"below">>>>)>>),
    Attr("orientation", <<Item("directions", "list", <<<<"directlyLeft">>, <<"above">>>>)>>),
    Attr("orientation", <<Item("selector", "str", <<"x">>)>>),
    Path("orientation"),
    Attr("align", <<Str("selector", "x"), Word1("negated", "true")>>),
    Attr("align", <<Str("direction", "up")>>),
    Attr("align", <<Str("typo", "x")>>),
    Attr("cyclic", <<Item("selector", "str", Unbalanced), Item("negated", "str", <<"true">>)>>),
    Attr("cyclic", <<Str("direction", "counterclockwise")>>),
    Attr("group", <<Group("add_edge", <<Str("points", "togroup"), Small,
                       Group("line_style", <<Str("color", "red"), Word1("weight", "2")>>)>>),
                    Group("text_style", <<Str("color", "blue")>>),
                    Word1("show_label", "false"), Item("selector", "str", FieldText)>>),
    Attr("group", <<Str("field", "x"), Str("name", "g")>>),
    Attr("group", <<Str("add_edge", "fromgroup"), Str("name", "g"), Word1("negated", "true")>>),
    Attr("group", <<Str("add_edge", "sideways")>>),
    Attr("group", <<Group("add_edge", <<Str("pointz", "togroup")>>)>>),
    Attr("group", <<Group("add_edge", <<Group("line_style", <<Str("colour", "red")>>)>>)>>),
    Attr("group", <<Group("add_edge", <<Group("text_style", <<Str("size", "huge")>>)>>)>>),
    Attr("atom_color", <<Str("selector", "x"), Str("value", "red")>>),
    Attr("atom_style", <<Item("selector", "raw", Unbalanced),
                         Group("fill_style", <<Str("color", "white")>>),
                         Group("border_style", <<Word1("width", "1")>>),
                         Group("icon_style", <<Str("path", "p"), Str("placement", "badge"),
                                               Word1("opacity", "0.5")>>),
                         Small, Word1("show_label", "true")>>),
    Attr("atom_style", <<Str("selector", "x"),
                         Group("border_style", <<Str("color", "red")>>)>>),
    Attr("atom_style", <<Group("icon_style", <<Word1("opacity", "2")>>)>>),
    Attr("atom_style", <<Group("border_style", <<Word1("width", "0")>>)>>),
    Attr("size", <<Word1("height", "2"), Word1("width", "0.5")>>),
    Attr("size", <<Word1("height", "0"), Str("selector", "x")>>),
    Attr("icon", <<Str("selector", "x"), Word1("show_labels", "true")>>),
    Attr("icon", << >>),
    Path("icon"),
    Attr("edge_style", <<Str("field", "x"), Str("style", "Dashed"), Word1("weight", "2"),
                         Word1("hidden", "true")>>),
    Attr("edge_style", <<Str("field", "x"), Dotted>>),
    Attr("edge_style", <<Item("selector", "str", Unbalanced), Small, Dotted>>),
    Attr("edge_style", <<Str("field", "x"), Word1("show_label", "false")>>),
    Attr("edge_style", <<Str("value", "red"), Dotted>>),
    Attr("edge_style", <<Str("style", "dashd")>>),
    Attr("edge_style", <<Word1("weight", "0")>>),
    Attr("edge_style", <<Item("filter", "raw", <<"weight", "=", "0">>), Str("value", "red")>>),
    Attr("hide_field", <<Str("filter", "x")>>),
    Attr("hide_atom", <<Item("selector", "str", <<"x", "(", "y">>)>>),
    Attr("inferred_edge", <<Item("draw", "str", <<"_", "->", "g">>), Dotted,
                            Item("selector", "str", <<"x", "->", "y">>)>>),
    Attr("inferred_edge", <<Item("draw", "str", <<"_", "->", "_">>)>>),
    Attr("inferred_edge", <<Item("draw", "str", <<"a", "->", "b", "->", "c">>)>>),
    Attr("inferred_edge", <<Item("draw", "str", <<"a", "->">>), Str("name", "e")>>),
    Attr("tag", <<Small, Str("to_tag", "x"), Str("name", "size"), Str("value", "color")>>),
    Attr("attribute", <<Str("selector", "x"), Small>>),
    Path("attribute"),
    Attr("flag", <<Str("name", "hideDisconnected")>>),
    Attr("flag", <<Str("name", "important")>>),
    Path("flag"),
    Path("atom_color"),
    Path("derive")
>>

(* The rules of other types: the field types and those an export meets.  The
   first of each has what one of the catalogue's atom_color and align mean. *)
Decorated(types, chosen) == [f \in DOMAIN types |-> MeantOf(types[f], chosen[f])]
MCFields == Decorated(<<"F", "G", "H">>, <<<<7, 21, 30>>, << >>, <<7, 38>>>>)
MCMet == Decorated(<<"F", "M">>, <<<<7, 21, 30>>, <<38, 14, 19>>>>)
=============================================================================
