---------------------------- MODULE MCDecorators ----------------------------
(* Families of types on which TLC checks Decorators. *)
EXTENDS Decorators, TLC

Self == [d \in Derives |-> d]

(* Pair (serde(rename = "P2")) has fields of types left::Item and, under an
   alias, right::Item, and left::Item has one of type right::Item.  Wrap is
   generic over a type that it does not require to be decorated. *)
PairDerives == {"Pair", "left::Item", "right::Item", "Wrap"}
PairTypes == (PairDerives \ {"Wrap"}) \cup {"Wrap<left::Item>", "Wrap<right::Item>"}
PairDerive == [t \in PairTypes |-> IF t \in PairDerives THEN t ELSE "Wrap"]
PairFields == [t \in PairTypes |->
    CASE t = "Pair" -> <<"left::Item", "right::Item">>
      [] t = "left::Item" -> <<"right::Item">>
      [] OTHER -> << >>]
PairContained == [t \in PairTypes |->
    CASE t = "Pair" -> {t, "left::Item", "right::Item"}
      [] t \in {"left::Item", "Wrap<right::Item>"} -> {t, "right::Item"}
      [] t = "Wrap<left::Item>" -> {t, "left::Item", "right::Item"}
      [] OTHER -> {t}]
PairShort == [d \in PairDerives |->
    CASE d = "Pair" -> "P" [] d = "Wrap" -> "W" [] OTHER -> "Item"]
PairSerialized == [PairShort EXCEPT !["Pair"] = "P2"]

(* Two types named Item, each with a serde(rename) of its own. *)
ItemTypes == {"left::Item", "right::Item"}
ItemShort == [t \in ItemTypes |-> "Item"]
ItemSerialized == [t \in ItemTypes |-> IF t = "left::Item" THEN "L" ELSE "R"]
ItemFields == [t \in ItemTypes |-> << >>]
ItemContained == [t \in ItemTypes |-> {t}]

(* Types that refer to each other, as a node and its list of edges do. *)
GraphTypes == {"Node", "Edge"}
GraphShort == [t \in GraphTypes |-> IF t = "Node" THEN "N" ELSE "E"]
GraphFields == [t \in GraphTypes |-> IF t = "Node" THEN <<"Edge">> ELSE <<"Node">>]
GraphContained == [t \in GraphTypes |-> GraphTypes]
=============================================================================
