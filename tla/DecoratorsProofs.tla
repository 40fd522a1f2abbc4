-------------------------- MODULE DecoratorsProofs --------------------------
(* For any types, however they refer to one another, and any number of
   threads: calls are well formed; what decorators() returns is the transitive
   set of rules; that is what is registered when its Once is done; and what an
   export collects is decided by its value. *)
EXTENDS Decorators, TLAPS

-----------------------------------------------------------------------------
(* The three ways in which a stack changes. *)

LEMMA CallerExists ==
    ASSUME NEW s \in Seq(Calls), s # << >>, Len(s) # 1
    PROVE  Len(s) > 1
OBVIOUS

LEMMA PushCall ==
    ASSUME NEW s \in Seq(Calls), NEW c \in Calls
    PROVE  LET r == <<c>> \o s IN
           /\ r \in Seq(Calls) /\ r # << >> /\ Len(r) = Len(s) + 1 /\ r[1] = c
           /\ \A i \in 1 .. Len(s) : r[i + 1] = s[i]
OBVIOUS

LEMMA ReplaceCall ==
    ASSUME NEW s \in Seq(Calls), s # << >>, NEW c \in Calls
    PROVE  LET r == <<c>> \o Tail(s) IN
           /\ r \in Seq(Calls) /\ r # << >> /\ Len(r) = Len(s) /\ r[1] = c
           /\ \A i \in 2 .. Len(s) : r[i] = s[i]
<1>1. /\ Tail(s) \in Seq(Calls) /\ Len(Tail(s)) = Len(s) - 1
      /\ \A i \in 1 .. Len(s) - 1 : Tail(s)[i] = s[i + 1]
      OBVIOUS
<1>2. /\ <<c>> \o Tail(s) \in Seq(Calls) /\ Len(<<c>> \o Tail(s)) = Len(s)
      /\ (<<c>> \o Tail(s))[1] = c
      BY <1>1
<1>3. \A i \in 2 .. Len(s) : (<<c>> \o Tail(s))[i] = Tail(s)[i - 1]
      BY <1>1
<1>4. \A i \in 2 .. Len(s) : Tail(s)[i - 1] = s[i]
      BY <1>1
<1> QED BY <1>2, <1>3, <1>4

LEMMA CallBelow ==
    ASSUME NEW s \in Seq(Calls), s # << >>, NEW c \in Calls, NEW d \in Calls
    PROVE  LET r == <<c, d>> \o Tail(s) IN
           /\ r \in Seq(Calls) /\ r # << >> /\ Len(r) = Len(s) + 1
           /\ r[1] = c /\ r[2] = d
           /\ \A i \in 2 .. Len(s) : r[i + 1] = s[i]
<1>1. /\ Tail(s) \in Seq(Calls) /\ Len(Tail(s)) = Len(s) - 1
      /\ \A i \in 1 .. Len(s) - 1 : Tail(s)[i] = s[i + 1]
      OBVIOUS
<1>2. /\ <<c, d>> \o Tail(s) \in Seq(Calls) /\ Len(<<c, d>> \o Tail(s)) = Len(s) + 1
      /\ (<<c, d>> \o Tail(s))[1] = c /\ (<<c, d>> \o Tail(s))[2] = d
      BY <1>1
<1>3. \A i \in 2 .. Len(s) : (<<c, d>> \o Tail(s))[i + 1] = Tail(s)[i - 1]
      BY <1>1
<1>4. \A i \in 2 .. Len(s) : Tail(s)[i - 1] = s[i]
      BY <1>1
<1> QED BY <1>2, <1>3, <1>4

LEMMA ReturnCall ==
    ASSUME NEW s \in Seq(Calls), Len(s) > 1, NEW c \in Calls
    PROVE  LET r == <<c>> \o Tail(Tail(s)) IN
           /\ r \in Seq(Calls) /\ r # << >> /\ Len(r) = Len(s) - 1 /\ r[1] = c
           /\ \A i \in 2 .. Len(s) - 1 : r[i] = s[i + 1]
<1>0. s # << >>
      OBVIOUS
<1>1. /\ Tail(s) \in Seq(Calls) /\ Len(Tail(s)) = Len(s) - 1
      /\ \A i \in 1 .. Len(s) - 1 : Tail(s)[i] = s[i + 1]
      BY <1>0
<1>2. LET r == <<c>> \o Tail(Tail(s)) IN
      /\ r \in Seq(Calls) /\ r # << >> /\ Len(r) = Len(Tail(s)) /\ r[1] = c
      /\ \A i \in 2 .. Len(Tail(s)) : r[i] = Tail(s)[i]
    <2>1. Len(Tail(s)) > 0
          BY <1>1
    <2>2. Tail(s) # << >>
      <3>1. ASSUME NEW r \in Seq(Calls), Len(r) > 0
            PROVE  r # << >>
            BY <3>1
      <3> QED BY <1>1, <2>1, <3>1
    <2> QED BY <1>1, <2>2, ReplaceCall
<1> QED BY <1>1, <1>2

-----------------------------------------------------------------------------
(* Rules: the rules of a type are its own and those of its fields' types. *)

LEMMA ReachableBasic ==
    ASSUME NEW t \in Types
    PROVE  /\ Reachable[t] \subseteq Types
           /\ t \in Reachable[t]
           /\ FieldClosed(Reachable[t])
           /\ \A S \in SUBSET Types : t \in S /\ FieldClosed(S) => Reachable[t] \subseteq S
<1>1. Reachable[t] =
         {u \in Types : \A S \in SUBSET Types : t \in S /\ FieldClosed(S) => u \in S}
      BY DEF Reachable
<1>2. FieldClosed(Reachable[t])
  <2> SUFFICES ASSUME NEW u \in Reachable[t], NEW i \in 1 .. Len(Fields[u])
               PROVE  Fields[u][i] \in Reachable[t]
      BY DEF FieldClosed
  <2>1. u \in Types /\ Fields[u][i] \in Types
        BY <1>1, DecoratorsAssumption
  <2>2. ASSUME NEW S \in SUBSET Types, t \in S, FieldClosed(S)
        PROVE  Fields[u][i] \in S
        BY <1>1, <2>1, <2>2 DEF FieldClosed
  <2> QED BY <1>1, <2>1, <2>2
<1> QED BY <1>1, <1>2

LEMMA ReachableByFields ==
    ASSUME NEW t \in Types
    PROVE  Reachable[t] =
             {t} \cup UNION {Reachable[Fields[t][i]] : i \in 1 .. Len(Fields[t])}
<1> DEFINE below == UNION {Reachable[Fields[t][i]] : i \in 1 .. Len(Fields[t])}
<1>1. \A i \in 1 .. Len(Fields[t]) : Fields[t][i] \in Types
      BY DecoratorsAssumption
<1>2. ASSUME NEW i \in 1 .. Len(Fields[t])
      PROVE  Reachable[Fields[t][i]] \subseteq Reachable[t]
  <2>1. Reachable[t] \in SUBSET Types /\ FieldClosed(Reachable[t])
        BY ReachableBasic
  <2>2. Fields[t][i] \in Reachable[t]
        BY ReachableBasic DEF FieldClosed
  <2> QED BY <1>1, <2>1, <2>2, ReachableBasic
<1>3. {t} \cup below \in SUBSET Types
      BY <1>1, ReachableBasic
<1>4. FieldClosed({t} \cup below)
  <2> SUFFICES ASSUME NEW u \in {t} \cup below, NEW j \in 1 .. Len(Fields[u])
               PROVE  Fields[u][j] \in {t} \cup below
      BY DEF FieldClosed
  <2>1. CASE u = t
        BY <1>1, <2>1, ReachableBasic
  <2>2. CASE u \in below
    <3>1. PICK i \in 1 .. Len(Fields[t]) : u \in Reachable[Fields[t][i]]
          BY <2>2
    <3>2. Fields[u][j] \in Reachable[Fields[t][i]]
          BY <1>1, <3>1, ReachableBasic DEF FieldClosed
    <3> QED BY <3>2
  <2> QED BY <2>1, <2>2
<1>5. Reachable[t] \subseteq {t} \cup below
      BY <1>3, <1>4, ReachableBasic
<1> QED BY <1>2, <1>5, ReachableBasic

(* The rules of the types still to be probed *)
Pending(probes) == UNION {Rules[probes[i]] : i \in 1 .. Len(probes)}

LEMMA RulesByFields ==
    ASSUME NEW t \in Types
    PROVE  /\ Rules[t] = {Derive[t]} \cup Pending(Fields[t])
           /\ Rules[t] \subseteq Derives
<1>1. \A u \in Types : Rules[u] = {Derive[v] : v \in Reachable[u]}
      BY DEF Rules
<1>2. \A i \in 1 .. Len(Fields[t]) : Fields[t][i] \in Types
      BY DecoratorsAssumption
<1>3. {Derive[v] : v \in Reachable[t]} = {Derive[t]} \cup Pending(Fields[t])
      BY <1>1, <1>2, ReachableByFields DEF Pending
<1>4. {Derive[v] : v \in Reachable[t]} \subseteq Derives
      BY ReachableBasic, DecoratorsAssumption
<1> QED BY <1>1, <1>3, <1>4

LEMMA PendingByHead ==
    ASSUME NEW p \in Seq(Types)
    PROVE  /\ p = << >> => Pending(p) = {}
           /\ p # << >> => Pending(p) = Rules[Head(p)] \cup Pending(Tail(p))
<1>1. CASE p = << >>
      BY <1>1 DEF Pending
<1>2. CASE p # << >>
  <2>1. /\ Len(Tail(p)) = Len(p) - 1 /\ Len(p) \in Nat \ {0}
        /\ \A i \in 1 .. Len(p) - 1 : Tail(p)[i] = p[i + 1]
        /\ Head(p) = p[1]
        BY <1>2
  <2>2. Pending(p) \subseteq Rules[Head(p)] \cup Pending(Tail(p))
    <3> SUFFICES ASSUME NEW i \in 1 .. Len(p)
                 PROVE  Rules[p[i]] \subseteq Rules[Head(p)] \cup Pending(Tail(p))
        BY DEF Pending
    <3>1. CASE i = 1
          BY <2>1, <3>1
    <3>2. CASE i # 1
      <4>1. i - 1 \in 1 .. Len(Tail(p)) /\ Tail(p)[i - 1] = p[i]
            BY <2>1, <3>2
      <4> QED BY <4>1 DEF Pending
    <3> QED BY <3>1, <3>2
  <2>3. Rules[Head(p)] \subseteq Pending(p)
    <3>1. 1 \in 1 .. Len(p) /\ Head(p) = p[1]
          BY <2>1
    <3> QED BY <3>1 DEF Pending
  <2>4. Pending(Tail(p)) \subseteq Pending(p)
    <3> SUFFICES ASSUME NEW i \in 1 .. Len(Tail(p))
                 PROVE  Rules[Tail(p)[i]] \subseteq Pending(p)
        BY DEF Pending
    <3>1. i + 1 \in 1 .. Len(p) /\ Tail(p)[i] = p[i + 1]
          BY <2>1
    <3> QED BY <3>1 DEF Pending
  <2> QED BY <1>2, <2>2, <2>3, <2>4
<1> QED BY <1>1, <1>2

-----------------------------------------------------------------------------
(* What is right about a stack of calls.  Call i is above call i + 1: exports
   are at the bottom, a lookup or a link-time registration right above one, and
   what a build has, will get from the call it waits for, and has yet to ask
   for is what it has to return. *)

AboveExport(s, i) == i < Len(s) /\ s[i + 1].at = "collect"

Target(s, i) ==
    IF AboveExport(s, i) THEN LinkRules[s[i].type] ELSE Rules[s[i].type]

FromAbove(s, i) == IF i = 1 THEN {} ELSE Rules[s[i - 1].type]

CallOK(s, i) ==
    /\ i > 1 => s[i].at \in {"first", "build", "collect"}
    /\ s[i].at = "collect" => i = Len(s)
    /\ AboveExport(s, i) => s[i].at \in {"look", "build"}
    /\ s[i].at = "look" => AboveExport(s, i)
    /\ s[i].at \in {"first", "build", "look"} =>
          s[i].rules \cup Pending(s[i].probes) \cup FromAbove(s, i) = Target(s, i)

StackOK(s) == \A i \in 1 .. Len(s) : CallOK(s, i)

LEMMA CallTypes ==
    ASSUME NEW t \in Types
    PROVE  /\ DecoratorsCall(t) \in Calls
           /\ \A keys \in Seq(Keys), place \in {"first", "build"} :
                 Build(t, place, keys) \in Calls
           /\ \A keys \in Seq(Keys) : LookUp(t, keys) \in Calls
           /\ Collect(t) \in Calls
           /\ RegistrationKeys(t) \in Seq(Keys)
           /\ SerializedKeys(t) \in Seq(Keys)
           /\ <<t>> \in Seq(Keys)
<1>1. /\ Derive[t] \in Derives /\ Fields[t] \in Seq(Types)
      /\ Short[Derive[t]] \in Keys /\ Serialized[Derive[t]] \in Keys /\ t \in Keys
      BY DecoratorsAssumption DEF Keys
<1>2. << >> \in Seq(Keys) /\ << >> \in Seq(Types)
      OBVIOUS
<1>3. DecoratorsCall(t) \in Calls /\ Collect(t) \in Calls
      BY <1>2 DEF DecoratorsCall, Collect, Calls
<1>4. \A keys \in Seq(Keys), place \in {"first", "build"} :
         Build(t, place, keys) \in Calls
      BY <1>1 DEF Build, Calls
<1>5. \A keys \in Seq(Keys) : LookUp(t, keys) \in Calls
      BY <1>1, <1>2 DEF LookUp, Calls
<1>6. RegistrationKeys(t) \in Seq(Keys) /\ SerializedKeys(t) \in Seq(Keys)
      BY <1>1 DEF RegistrationKeys, SerializedKeys
<1> QED BY <1>1, <1>3, <1>4, <1>5, <1>6

(* A call below the top is as right as it was while it, its caller and the type
   of the call it waits for stay the same. *)
LEMMA SameBelow ==
    ASSUME NEW s \in Seq(Calls), NEW r \in Seq(Calls),
           NEW i \in 2 .. Len(s), NEW j \in 2 .. Len(r),
           r[j] = s[i], Len(r) - j = Len(s) - i,
           i < Len(s) => r[j + 1] = s[i + 1],
           r[j - 1].type = s[i - 1].type,
           CallOK(s, i)
    PROVE  CallOK(r, j)
<1>1. AboveExport(r, j) <=> AboveExport(s, i)
      BY DEF AboveExport
<1>2. Target(r, j) = Target(s, i) /\ FromAbove(r, j) = FromAbove(s, i)
      BY <1>1 DEF Target, FromAbove
<1>3. s[i].at = "collect" => j = Len(r)
      BY DEF CallOK
<1> QED BY <1>1, <1>2, <1>3 DEF CallOK

LEMMA BecomeOK ==
    ASSUME NEW s \in Seq(Calls), s # << >>, StackOK(s),
           NEW c \in Calls, c.type = s[1].type,
           CallOK(<<c>> \o Tail(s), 1)
    PROVE  <<c>> \o Tail(s) \in Seq(Calls) /\ StackOK(<<c>> \o Tail(s))
<1> DEFINE r == <<c>> \o Tail(s)
<1>1. /\ r \in Seq(Calls) /\ Len(r) = Len(s) /\ r[1] = c
      /\ \A i \in 2 .. Len(s) : r[i] = s[i]
      BY ReplaceCall
<1>2. ASSUME NEW i \in 2 .. Len(s)
      PROVE  CallOK(r, i)
  <2>1. CallOK(s, i) /\ r[i] = s[i]
        BY <1>1 DEF StackOK
  <2>2. i < Len(s) => r[i + 1] = s[i + 1]
        BY <1>1
  <2>3. r[i - 1].type = s[i - 1].type
        BY <1>1
  <2> HIDE DEF r
  <2> QED BY <1>1, <2>1, <2>2, <2>3, SameBelow
<1>3. \A i \in 1 .. Len(r) : i = 1 \/ i \in 2 .. Len(s)
      BY <1>1
<1> QED BY <1>1, <1>2, <1>3 DEF StackOK

LEMMA ProbeOK ==
    ASSUME NEW s \in Seq(Calls), s # << >>, StackOK(s),
           s[1].at \in {"first", "build"}, s[1].probes # << >>
    PROVE  LET r == <<DecoratorsCall(Head(s[1].probes)),
                      [s[1] EXCEPT !.probes = Tail(@)]>> \o Tail(s) IN
           r \in Seq(Calls) /\ StackOK(r)
<1> DEFINE c == DecoratorsCall(Head(s[1].probes))
           d == [s[1] EXCEPT !.probes = Tail(@)]
           r == <<c, d>> \o Tail(s)
<1>0. s[1] \in Calls
      OBVIOUS
<1>1. s[1] \in Calls /\ s[1].probes \in Seq(Types) /\ s[1].type \in Types
      BY <1>0 DEF Calls
<1>2. Head(s[1].probes) \in Types /\ Tail(s[1].probes) \in Seq(Types)
      BY <1>1
<1>3. c \in Calls /\ c.at = "once" /\ c.type = Head(s[1].probes)
      BY <1>2, CallTypes DEF DecoratorsCall
<1>4. /\ d \in Calls /\ d.at = s[1].at /\ d.type = s[1].type
      /\ d.rules = s[1].rules /\ d.probes = Tail(s[1].probes)
      BY <1>1, <1>2 DEF Calls
<1> HIDE DEF c, d
<1>5. /\ r \in Seq(Calls) /\ Len(r) = Len(s) + 1 /\ r[1] = c /\ r[2] = d
      /\ \A i \in 2 .. Len(s) : r[i + 1] = s[i]
      BY <1>3, <1>4, CallBelow
<1> HIDE DEF r
<1>6. CallOK(r, 1)
      BY <1>3, <1>4, <1>5 DEF CallOK, AboveExport
<1>7. CallOK(r, 2)
  <2>1. CallOK(s, 1)
        BY DEF StackOK
  <2>2. AboveExport(r, 2) <=> AboveExport(s, 1)
        BY <1>5 DEF AboveExport
  <2>3. Target(r, 2) = Target(s, 1)
        BY <1>4, <1>5, <2>2 DEF Target
  <2>4. FromAbove(r, 2) = Rules[Head(s[1].probes)] /\ FromAbove(s, 1) = {}
        BY <1>3, <1>5 DEF FromAbove
  <2>5. Pending(s[1].probes) = Rules[Head(s[1].probes)] \cup Pending(Tail(s[1].probes))
        BY <1>1, PendingByHead
  <2>6. d.rules \cup Pending(d.probes) \cup FromAbove(r, 2) = Target(r, 2)
        BY <1>4, <2>1, <2>3, <2>4, <2>5 DEF CallOK
  <2> QED BY <1>4, <1>5, <2>1, <2>2, <2>6 DEF CallOK
<1>8. ASSUME NEW j \in 3 .. Len(r)
      PROVE  CallOK(r, j)
  <2>1. PICK i \in 2 .. Len(s) : j = i + 1
        BY <1>5
  <2>2. CallOK(s, i) /\ r[j] = s[i] /\ j \in 2 .. Len(r) /\ Len(r) - j = Len(s) - i
        BY <1>5, <2>1 DEF StackOK
  <2>3. i < Len(s) => r[j + 1] = s[i + 1]
        BY <1>5, <2>1
  <2>4. r[j - 1].type = s[i - 1].type
        BY <1>4, <1>5, <2>1
  <2> QED BY <1>5, <2>2, <2>3, <2>4, SameBelow
<1>9. ASSUME NEW i \in 1 .. Len(r)
      PROVE  CallOK(r, i)
  <2>1. i = 1 \/ i = 2 \/ i \in 3 .. Len(r)
        BY <1>5
  <2> QED BY <1>6, <1>7, <1>8, <2>1
<1> QED BY <1>5, <1>9 DEF StackOK, r, c, d

LEMMA ReturnOK ==
    ASSUME NEW s \in Seq(Calls), Len(s) > 1, StackOK(s),
           NEW rules \in SUBSET Derives,
           s[2].at # "collect" => rules = Rules[s[1].type]
    PROVE  LET r == <<[s[2] EXCEPT !.rules = @ \cup rules]>> \o Tail(Tail(s)) IN
           r \in Seq(Calls) /\ StackOK(r)
<1> DEFINE d == [s[2] EXCEPT !.rules = @ \cup rules]
           r == <<d>> \o Tail(Tail(s))
<1>1. s[2] \in Calls
      OBVIOUS
<1>2. /\ d \in Calls /\ d.at = s[2].at /\ d.type = s[2].type
      /\ d.rules = s[2].rules \cup rules /\ d.probes = s[2].probes
      BY <1>1 DEF Calls
<1> HIDE DEF d
<1>3. /\ r \in Seq(Calls) /\ Len(r) = Len(s) - 1 /\ r[1] = d
      /\ \A i \in 2 .. Len(s) - 1 : r[i] = s[i + 1]
      BY <1>2, ReturnCall
<1> HIDE DEF r
<1>4. CallOK(r, 1)
  <2>1. CallOK(s, 2)
        BY DEF StackOK
  <2>2. AboveExport(r, 1) <=> AboveExport(s, 2)
        BY <1>3 DEF AboveExport
  <2>3. Target(r, 1) = Target(s, 2)
        BY <1>2, <1>3, <2>2 DEF Target
  <2>4. FromAbove(r, 1) = {} /\ FromAbove(s, 2) = Rules[s[1].type]
        BY DEF FromAbove
  <2>5. s[2].at \in {"first", "build", "collect"} /\ (s[2].at = "collect" => Len(r) = 1)
        BY <1>3, <2>1 DEF CallOK
  <2>6. CASE s[2].at = "collect"
        BY <1>2, <1>3, <2>1, <2>2, <2>5, <2>6 DEF CallOK
  <2>7. CASE s[2].at # "collect"
    <3>1. s[2].rules \cup Pending(s[2].probes) \cup Rules[s[1].type] = Target(s, 2)
          BY <2>1, <2>4, <2>5, <2>7 DEF CallOK
    <3>2. d.rules \cup Pending(d.probes) \cup FromAbove(r, 1) = Target(r, 1)
          BY <1>2, <2>3, <2>4, <2>7, <3>1
    <3> QED BY <1>2, <1>3, <2>1, <2>2, <2>5, <2>7, <3>2 DEF CallOK
  <2> QED BY <2>6, <2>7
<1>5. ASSUME NEW j \in 2 .. Len(r)
      PROVE  CallOK(r, j)
  <2>1. PICK i \in 3 .. Len(s) : i = j + 1
        BY <1>3
  <2>2. /\ CallOK(s, i) /\ r[j] = s[i] /\ i \in 2 .. Len(s)
        /\ Len(r) - j = Len(s) - i
        BY <1>3, <2>1 DEF StackOK
  <2>3. i < Len(s) => r[j + 1] = s[i + 1]
        BY <1>3, <2>1
  <2>4. r[j - 1].type = s[i - 1].type
        BY <1>2, <1>3, <2>1
  <2> QED BY <1>3, <2>2, <2>3, <2>4, SameBelow
<1>6. \A i \in 1 .. Len(r) : i = 1 \/ i \in 2 .. Len(r)
      BY <1>3
<1> QED BY <1>3, <1>4, <1>5, <1>6 DEF StackOK, r, d

LEMMA SingleOK ==
    ASSUME NEW r \in Seq(Calls), Len(r) = 1, r[1].at \in {"once", "collect"}
    PROVE  StackOK(r)
BY DEF StackOK, CallOK, AboveExport

LEMMA LookUpOK ==
    ASSUME NEW r \in Seq(Calls), Len(r) = 2, r[2].at = "collect",
           NEW t \in Types, NEW keys \in Seq(Keys), r[1] = LookUp(t, keys)
    PROVE  StackOK(r)
<1>1. AboveExport(r, 1)
      BY DEF AboveExport
<1>2. /\ r[1].at = "look" /\ r[1].type = t /\ r[1].rules = {Derive[t]}
      /\ r[1].probes = IF Derive[t] \in Generic THEN << >> ELSE Fields[t]
      BY DEF LookUp
<1>3. Target(r, 1) = LinkRules[t]
      BY <1>1, <1>2 DEF Target
<1>4. {Derive[t]} \cup Pending(r[1].probes) = LinkRules[t]
  <2>1. << >> \in Seq(Types)
        OBVIOUS
  <2>2. CASE Derive[t] \in Generic
        BY <1>2, <2>1, <2>2, PendingByHead DEF LinkRules
  <2>3. CASE Derive[t] \notin Generic
        BY <1>2, <2>3, RulesByFields DEF LinkRules
  <2> QED BY <2>2, <2>3
<1>5. CallOK(r, 1)
      BY <1>1, <1>2, <1>3, <1>4 DEF CallOK, FromAbove
<1>6. CallOK(r, 2)
      BY DEF CallOK, AboveExport
<1>7. \A i \in 1 .. Len(r) : i = 1 \/ i = 2
      OBVIOUS
<1> QED BY <1>5, <1>6, <1>7 DEF StackOK

LEMMA PassedOK ==
    ASSUME NEW s \in Seq(Calls), s # << >>, StackOK(s),
           s[1].at \in {"once", "first"},
           NEW place \in {"first", "build"}, NEW keys \in Seq(Keys)
    PROVE  LET r == <<Build(s[1].type, place, keys)>> \o Tail(s) IN
           r \in Seq(Calls) /\ StackOK(r)
<1> DEFINE c == Build(s[1].type, place, keys)
           r == <<c>> \o Tail(s)
<1>1. s[1] \in Calls /\ 1 \in 1 .. Len(s)
      OBVIOUS
<1>2. s[1].type \in Types
      BY <1>1 DEF Calls
<1>3. /\ c \in Calls /\ c.at = place /\ c.type = s[1].type
      /\ c.rules = {Derive[c.type]} /\ c.probes = Fields[c.type]
      BY <1>2, CallTypes DEF Build
<1> HIDE DEF c
<1>4. Len(r) = Len(s) /\ r[1] = c /\ (1 < Len(s) => r[2] = s[2])
      BY <1>3, ReplaceCall
<1> HIDE DEF r
<1>5. CallOK(s, 1)
      BY <1>1 DEF StackOK
<1>6. ~AboveExport(r, 1)
      BY <1>4, <1>5 DEF CallOK, AboveExport
<1>7. {Derive[c.type]} \cup Pending(Fields[c.type]) = Rules[c.type]
      BY <1>2, <1>3, RulesByFields
<1>8. CallOK(r, 1)
      BY <1>3, <1>4, <1>6, <1>7 DEF CallOK, Target, FromAbove
<1> QED BY <1>3, <1>8, BecomeOK DEF r, c

LEMMA KeptOK ==
    ASSUME NEW s \in Seq(Calls), s # << >>, StackOK(s),
           NEW c \in Calls,
           c.at = s[1].at \/ (s[1].at = "look" /\ c.at = "build"),
           c.type = s[1].type, c.rules = s[1].rules, c.probes = s[1].probes
    PROVE  <<c>> \o Tail(s) \in Seq(Calls) /\ StackOK(<<c>> \o Tail(s))
<1> DEFINE r == <<c>> \o Tail(s)
<1>1. s[1] \in Calls /\ 1 \in 1 .. Len(s)
      OBVIOUS
<1>2. Len(r) = Len(s) /\ r[1] = c /\ (1 < Len(s) => r[2] = s[2])
      BY ReplaceCall
<1> HIDE DEF r
<1>3. CallOK(s, 1)
      BY <1>1 DEF StackOK
<1>4. AboveExport(r, 1) <=> AboveExport(s, 1)
      BY <1>2 DEF AboveExport
<1>5. Target(r, 1) = Target(s, 1) /\ FromAbove(r, 1) = {} /\ FromAbove(s, 1) = {}
      BY <1>2, <1>4 DEF Target, FromAbove
<1>6. CallOK(r, 1)
      BY <1>2, <1>3, <1>4, <1>5 DEF CallOK
<1> QED BY <1>6, BecomeOK DEF r

(* What the call on top returns, once it has nothing left to probe *)
LEMMA TopReturns ==
    ASSUME NEW s \in Seq(Calls), s # << >>, StackOK(s),
           s[1].at \in {"first", "build"}, s[1].probes = << >>
    PROVE  /\ s[1].rules = Target(s, 1)
           /\ Len(s) > 1 /\ s[2].at # "collect" => s[1].rules = Rules[s[1].type]
           /\ s[1].at = "first" => s[1].rules = Rules[s[1].type]
<1>1. CallOK(s, 1) /\ FromAbove(s, 1) = {}
      BY DEF StackOK, FromAbove
<1>2. s[1] \in Calls
      OBVIOUS
<1>3. s[1].probes \in Seq(Types)
      BY <1>2 DEF Calls
<1>4. s[1].rules = Target(s, 1)
      BY <1>1, <1>3, PendingByHead DEF CallOK
<1>5. s[1].at = "first" => ~AboveExport(s, 1)
      BY <1>1 DEF CallOK
<1>6. Len(s) > 1 /\ s[2].at # "collect" => ~AboveExport(s, 1)
      BY DEF AboveExport
<1> QED BY <1>4, <1>5, <1>6 DEF Target

-----------------------------------------------------------------------------
(* Calls stay well formed. *)

StacksOK == \A th \in Threads : StackOK(stack[th])

CallsInv == TypeOK /\ StacksOK

LEMMA OneStack ==
    ASSUME stack \in [Threads -> Seq(Calls)], StacksOK,
           NEW th \in Threads, NEW r \in Seq(Calls), StackOK(r),
           stack' = [stack EXCEPT ![th] = r]
    PROVE  (stack \in [Threads -> Seq(Calls)])' /\ StacksOK'
BY DEF StacksOK

LEMMA TopCall ==
    ASSUME CallsInv, NEW th \in Threads, stack[th] # << >>
    PROVE  /\ stack[th] \in Seq(Calls) /\ StackOK(stack[th])
           /\ stack[th][1] \in Calls
           /\ stack[th][1].type \in Types /\ stack[th][1].keys \in Seq(Keys)
           /\ stack[th][1].probes \in Seq(Types)
           /\ stack[th][1].rules \in SUBSET Derives
<1>1. stack[th] \in Seq(Calls) /\ StackOK(stack[th])
      BY DEF CallsInv, StacksOK, TypeOK
<1>2. stack[th][1] \in Calls
      BY <1>1
<1> QED BY <1>1, <1>2 DEF Calls

LEMMA ReturnKeeps ==
    ASSUME CallsInv, NEW th \in Threads, stack[th] # << >>,
           NEW rules \in SUBSET Derives,
           Len(stack[th]) > 1 /\ stack[th][2].at # "collect"
              => rules = Rules[stack[th][1].type],
           Return(th, rules)
    PROVE  (stack \in [Threads -> Seq(Calls)])' /\ StacksOK'
<1>1. PICK s : s = stack[th]
      OBVIOUS
<1>2. s \in Seq(Calls) /\ s # << >> /\ StackOK(s)
      BY <1>1, TopCall
<1> DEFINE caller == [s[2] EXCEPT !.rules = @ \cup rules]
<1>3. stack' = [stack EXCEPT ![th] =
                  IF Len(s) = 1 THEN << >> ELSE <<caller>> \o Tail(Tail(s))]
      BY <1>1 DEF Return
<1>4. CASE Len(s) = 1
  <2>1. << >> \in Seq(Calls) /\ StackOK(<< >>)
        BY DEF StackOK
  <2>2. stack' = [stack EXCEPT ![th] = << >>]
        BY <1>3, <1>4
  <2> QED BY <2>1, <2>2, OneStack DEF CallsInv, TypeOK
<1>5. CASE Len(s) # 1
  <2> DEFINE r == <<caller>> \o Tail(Tail(s))
  <2>0. Len(s) > 1
        BY <1>2, <1>5, CallerExists
  <2>1. r \in Seq(Calls) /\ StackOK(r)
        BY <1>1, <1>2, <2>0, ReturnOK
  <2>2. stack' = [stack EXCEPT ![th] = r]
        BY <1>3, <1>5
  <2> HIDE DEF r
  <2> QED BY <2>1, <2>2, OneStack DEF CallsInv, TypeOK
<1> QED BY <1>4, <1>5

LEMMA CallsInit == Init => CallsInv
<1> SUFFICES ASSUME Init PROVE CallsInv
    OBVIOUS
<1>1. << >> \in Seq(Calls) /\ StackOK(<< >>)
      BY DEF StackOK
<1>2. \A th \in Threads : stack[th] = << >>
      BY DEF Init
<1>3. StacksOK
      BY <1>1, <1>2 DEF StacksOK
<1>4. TypeOK
      BY <1>1, DecoratorsAssumption DEF Init, TypeOK
<1> QED BY <1>3, <1>4 DEF CallsInv

(* A thread that is idle begins a stack. *)
LEMMA BeginKeeps ==
    ASSUME CallsInv, NEW th \in Threads, Idle(th), NEW c \in Calls,
           c.at \in {"once", "collect"}, Push(th, c)
    PROVE  (stack \in [Threads -> Seq(Calls)])' /\ StacksOK'
<1> DEFINE r == <<c>> \o << >>
<1>1. << >> \in Seq(Calls) /\ Len(<< >>) = 0
      OBVIOUS
<1>2. r \in Seq(Calls) /\ Len(r) = 1 /\ r[1] = c
      BY <1>1, PushCall
<1>3. stack' = [stack EXCEPT ![th] = r]
      BY DEF Push, Idle, CallsInv, TypeOK
<1> HIDE DEF r
<1>4. StackOK(r)
      BY <1>2, SingleOK
<1> QED BY <1>2, <1>3, <1>4, OneStack DEF CallsInv, TypeOK

LEMMA CallsStep ==
    ASSUME CallsInv, NEW th \in Threads,
           Step(th) \/ FinishExport(th)
           \/ \E t \in Types : Decorators(th, t) \/ Export(th, t) \/ Visit(th, t)
                 \/ \E name \in Names : ExportExcluding(th, t, name)
    PROVE  CallsInv'
<1> DEFINE stacked == (stack \in [Threads -> Seq(Calls)])' /\ StacksOK'
           rest == /\ (once \in [Derives -> {"new", "running", "done"}])'
                   /\ (registry \in [Keys -> SUBSET SUBSET Derives])'
                   /\ (\A k \in Keys : \A a, b \in registry[k] : a = b)'
                   /\ (visited \in [Threads -> SUBSET Names])'
                   /\ (exclude \in [Threads -> SUBSET Names])'
<1> USE DEF At
<1>1. CASE PassOnce(th)
  <2>1. PICK place \in {"first", "build"}, keys \in Seq(Keys) :
           /\ Become(th, Build(stack[th][1].type, place, keys))
           /\ once' \in [Derives -> {"new", "running", "done"}]
    <3>1. /\ RegistrationKeys(stack[th][1].type) \in Seq(Keys) /\ << >> \in Seq(Keys)
          /\ Derive[stack[th][1].type] \in Derives
          BY <1>1, TopCall, CallTypes, DecoratorsAssumption DEF PassOnce
    <3> QED BY <1>1, <3>1 DEF PassOnce, CallsInv, TypeOK
  <2>2. stacked
    <3> DEFINE r == <<Build(stack[th][1].type, place, keys)>> \o Tail(stack[th])
    <3>1. r \in Seq(Calls) /\ StackOK(r)
          BY <1>1, TopCall, PassedOK DEF PassOnce
    <3>2. stack' = [stack EXCEPT ![th] = r]
          BY <2>1 DEF Become
    <3> HIDE DEF r
    <3> QED BY <3>1, <3>2, OneStack DEF CallsInv, TypeOK
  <2>3. rest
        BY <1>1, <2>1 DEF PassOnce, CallsInv, TypeOK
  <2> QED BY <2>2, <2>3 DEF CallsInv, TypeOK
<1>2. CASE Probe(th)
  <2> DEFINE c == DecoratorsCall(Head(stack[th][1].probes))
             r == <<c, [stack[th][1] EXCEPT !.probes = Tail(@)]>> \o Tail(stack[th])
  <2>1. r \in Seq(Calls) /\ StackOK(r)
        BY <1>2, TopCall, ProbeOK DEF Probe
  <2>2. stack' = [stack EXCEPT ![th] = r]
        BY <1>2 DEF Probe
  <2> HIDE DEF r
  <2>3. stacked
        BY <2>1, <2>2, OneStack DEF CallsInv, TypeOK
  <2>4. rest
        BY <1>2 DEF Probe, CallsInv, TypeOK
  <2> QED BY <2>3, <2>4 DEF CallsInv, TypeOK
<1>3. CASE Register(th)
  <2>1. /\ stack[th] # << >> /\ stack[th][1].at = "first"
        /\ stack[th][1].rules \in SUBSET Derives
        /\ stack[th][1].keys \in Seq(Keys) /\ Derive[stack[th][1].type] \in Derives
        /\ stack[th][1] \in Calls
        BY <1>3, TopCall, DecoratorsAssumption DEF Register
  <2>2. registry' =
           [registry EXCEPT ![Head(stack[th][1].keys)] = {stack[th][1].rules}]
        BY <1>3 DEF Register
  <2>3. rest
    <3>1. once' \in [Derives -> {"new", "running", "done"}]
          BY <1>3, <2>1 DEF Register, CallsInv, TypeOK
    <3>2. registry' \in [Keys -> SUBSET SUBSET Derives]
          BY <2>1, <2>2 DEF CallsInv, TypeOK
    <3>3. \A k \in Keys : registry'[k] = registry[k] \/ registry'[k] = {stack[th][1].rules}
          BY <2>2 DEF CallsInv, TypeOK
    <3>4. \A k \in Keys : \A a, b \in registry'[k] : a = b
          BY <3>3 DEF CallsInv, TypeOK
    <3> QED BY <1>3, <3>1, <3>2, <3>4 DEF Register, CallsInv, TypeOK
  <2>4. CASE Len(stack[th][1].keys) > 1
    <3> DEFINE c == [stack[th][1] EXCEPT !.keys = Tail(@)]
    <3>1. Tail(stack[th][1].keys) \in Seq(Keys)
          BY <2>1, <2>4
    <3>2. /\ c \in Calls /\ c.at = stack[th][1].at /\ c.type = stack[th][1].type
          /\ c.rules = stack[th][1].rules /\ c.probes = stack[th][1].probes
          BY <2>1, <3>1 DEF Calls
    <3>3. stack' = [stack EXCEPT ![th] = <<c>> \o Tail(stack[th])]
          BY <1>3, <2>4 DEF Register, Become
    <3> HIDE DEF c
    <3>4. <<c>> \o Tail(stack[th]) \in Seq(Calls) /\ StackOK(<<c>> \o Tail(stack[th]))
          BY <2>1, <3>2, TopCall, KeptOK
    <3>5. stacked
          BY <3>3, <3>4, OneStack DEF CallsInv, TypeOK
    <3> QED BY <2>3, <3>5 DEF CallsInv, TypeOK
  <2>5. CASE ~(Len(stack[th][1].keys) > 1)
    <3> DEFINE r == <<Build(stack[th][1].type, "build", << >>)>> \o Tail(stack[th])
    <3>1. << >> \in Seq(Keys)
          OBVIOUS
    <3>2. r \in Seq(Calls) /\ StackOK(r)
          BY <2>1, <3>1, TopCall, PassedOK
    <3>3. stack' = [stack EXCEPT ![th] = r]
          BY <1>3, <2>5 DEF Register, Become
    <3> HIDE DEF r
    <3>4. stacked
          BY <3>2, <3>3, OneStack DEF CallsInv, TypeOK
    <3> QED BY <2>3, <3>4 DEF CallsInv, TypeOK
  <2> QED BY <2>4, <2>5
<1>4. CASE Built(th)
  <2>1. stacked
    <3>1. stack[th] # << >> /\ stack[th][1].at = "build" /\ stack[th][1].probes = << >>
          BY <1>4 DEF Built
    <3>2. /\ stack[th][1].rules \in SUBSET Derives
          /\ Len(stack[th]) > 1 /\ stack[th][2].at # "collect"
                => stack[th][1].rules = Rules[stack[th][1].type]
          BY <3>1, TopCall, TopReturns
    <3>3. Return(th, stack[th][1].rules)
          BY <1>4 DEF Built
    <3> QED BY <3>1, <3>2, <3>3, ReturnKeeps
  <2>2. rest
        BY <1>4 DEF Built, CallsInv, TypeOK
  <2> QED BY <2>1, <2>2 DEF CallsInv, TypeOK
<1>5. CASE TryKey(th)
  <2>1. /\ stack[th] # << >> /\ stack[th][1].at = "look"
        /\ stack[th] \in Seq(Calls) /\ StackOK(stack[th])
        /\ stack[th][1] \in Calls /\ stack[th][1].keys \in Seq(Keys)
        BY <1>5, TopCall DEF TryKey
  <2>2. rest
        BY <1>5 DEF TryKey, CallsInv, TypeOK
  <2>3. CASE stack[th][1].keys = << >> /\ Become(th, [stack[th][1] EXCEPT !.at = "build"])
    <3> DEFINE c == [stack[th][1] EXCEPT !.at = "build"]
    <3>1. /\ c \in Calls /\ c.at = "build" /\ c.type = stack[th][1].type
          /\ c.rules = stack[th][1].rules /\ c.probes = stack[th][1].probes
          BY <2>1 DEF Calls
    <3>2. stack' = [stack EXCEPT ![th] = <<c>> \o Tail(stack[th])]
          BY <2>3 DEF Become
    <3> HIDE DEF c
    <3>3. <<c>> \o Tail(stack[th]) \in Seq(Calls) /\ StackOK(<<c>> \o Tail(stack[th]))
          BY <2>1, <3>1, KeptOK
    <3>4. stacked
          BY <3>2, <3>3, OneStack DEF CallsInv, TypeOK
    <3> QED BY <2>2, <3>4 DEF CallsInv, TypeOK
  <2>4. CASE /\ stack[th][1].keys # << >>
             /\ Become(th, [stack[th][1] EXCEPT !.keys = Tail(@)])
    <3> DEFINE c == [stack[th][1] EXCEPT !.keys = Tail(@)]
    <3>0. Tail(stack[th][1].keys) \in Seq(Keys)
          BY <2>1, <2>4
    <3>1. /\ c \in Calls /\ c.at = stack[th][1].at /\ c.type = stack[th][1].type
          /\ c.rules = stack[th][1].rules /\ c.probes = stack[th][1].probes
          BY <2>1, <3>0 DEF Calls
    <3>2. stack' = [stack EXCEPT ![th] = <<c>> \o Tail(stack[th])]
          BY <2>4 DEF Become
    <3> HIDE DEF c
    <3>3. <<c>> \o Tail(stack[th]) \in Seq(Calls) /\ StackOK(<<c>> \o Tail(stack[th]))
          BY <2>1, <3>1, KeptOK
    <3>4. stacked
          BY <3>2, <3>3, OneStack DEF CallsInv, TypeOK
    <3> QED BY <2>2, <3>4 DEF CallsInv, TypeOK
  <2>5. CASE /\ stack[th][1].keys # << >>
             /\ \E rules \in registry[Head(stack[th][1].keys)] : Return(th, rules)
    <3>1. Head(stack[th][1].keys) \in Keys
          BY <2>1, <2>5
    <3>2. registry[Head(stack[th][1].keys)] \in SUBSET SUBSET Derives
          BY <3>1 DEF CallsInv, TypeOK
    <3>3. PICK rules \in SUBSET Derives : Return(th, rules)
          BY <2>5, <3>2
    <3>4. CallOK(stack[th], 1)
          BY <2>1 DEF StackOK
    <3>5. Len(stack[th]) > 1 => stack[th][2].at = "collect"
          BY <2>1, <3>4 DEF CallOK, AboveExport
    <3>6. stacked
          BY <2>1, <3>3, <3>5, ReturnKeeps
    <3> QED BY <2>2, <3>6 DEF CallsInv, TypeOK
  <2> QED BY <1>5, <2>3, <2>4, <2>5 DEF TryKey
<1>6. CASE FinishExport(th)
  <2>1. << >> \in Seq(Calls) /\ StackOK(<< >>)
        BY DEF StackOK
  <2>2. stack' = [stack EXCEPT ![th] = << >>]
        BY <1>6 DEF FinishExport
  <2>3. stacked
        BY <2>1, <2>2, OneStack DEF CallsInv, TypeOK
  <2>4. rest
        BY <1>6 DEF FinishExport, CallsInv, TypeOK
  <2> QED BY <2>3, <2>4 DEF CallsInv, TypeOK
<1>7. ASSUME NEW t \in Types, Decorators(th, t)
      PROVE  CallsInv'
  <2>1. DecoratorsCall(t) \in Calls /\ DecoratorsCall(t).at = "once"
        BY CallTypes DEF DecoratorsCall
  <2>2. Idle(th) /\ Push(th, DecoratorsCall(t))
        BY <1>7 DEF Decorators
  <2>3. stacked
        BY <2>1, <2>2, BeginKeeps
  <2>4. rest
        BY <1>7 DEF Decorators, CallsInv, TypeOK
  <2> QED BY <2>3, <2>4 DEF CallsInv, TypeOK
<1>8. ASSUME NEW t \in Types, Export(th, t)
      PROVE  CallsInv'
  <2> DEFINE r == <<LookUp(t, <<t>>), Collect(t)>>
  <2>1. <<t>> \in Seq(Keys)
        BY CallTypes
  <2>2. LookUp(t, <<t>>) \in Calls /\ Collect(t) \in Calls
        BY <2>1, CallTypes
  <2>3. r \in Seq(Calls) /\ Len(r) = 2 /\ r[2].at = "collect" /\ r[1] = LookUp(t, <<t>>)
        BY <2>2 DEF Collect
  <2>4. stack' = [stack EXCEPT ![th] = r]
        BY <1>8 DEF Export
  <2> HIDE DEF r
  <2>5. StackOK(r)
        BY <2>1, <2>3, LookUpOK
  <2>6. stacked
        BY <2>3, <2>4, <2>5, OneStack DEF CallsInv, TypeOK
  <2>7. rest
        BY <1>8 DEF Export, CallsInv, TypeOK
  <2> QED BY <2>6, <2>7 DEF CallsInv, TypeOK
<1>9. ASSUME NEW u \in Types, Visit(th, u)
      PROVE  CallsInv'
  <2>1. /\ stack[th] # << >> /\ stack[th][1].at = "collect"
        /\ stack[th] \in Seq(Calls) /\ StackOK(stack[th])
        BY <1>9, TopCall DEF Visit
  <2>2. rest
    <3>1. Serialized[Derive[u]] \in Names
          BY DecoratorsAssumption
    <3> QED BY <1>9, <3>1 DEF Visit, CallsInv, TypeOK
  <2>3. CASE stack' = stack
    <3>1. stacked
          BY <2>3 DEF CallsInv, TypeOK, StacksOK
    <3> QED BY <2>2, <3>1 DEF CallsInv, TypeOK
  <2>4. CASE Push(th, LookUp(u, SerializedKeys(u)))
    <3>1. SerializedKeys(u) \in Seq(Keys)
          BY CallTypes
    <3>2. LookUp(u, SerializedKeys(u)) \in Calls
          BY <3>1, CallTypes
    <3> DEFINE r == <<LookUp(u, SerializedKeys(u))>> \o stack[th]
    <3>3. CallOK(stack[th], 1)
          BY <2>1 DEF StackOK
    <3>4. Len(stack[th]) = 1
          BY <2>1, <3>3 DEF CallOK, AboveExport
    <3>5. /\ r \in Seq(Calls) /\ Len(r) = 2 /\ r[2].at = "collect"
          /\ r[1] = LookUp(u, SerializedKeys(u))
          BY <2>1, <3>2, <3>4, PushCall
    <3>6. stack' = [stack EXCEPT ![th] = r]
          BY <2>4 DEF Push, CallsInv, TypeOK
    <3> HIDE DEF r
    <3>7. StackOK(r)
          BY <3>1, <3>5, LookUpOK
    <3>8. stacked
          BY <3>5, <3>6, <3>7, OneStack DEF CallsInv, TypeOK
    <3> QED BY <2>2, <3>8 DEF CallsInv, TypeOK
  <2> QED BY <1>9, <2>3, <2>4 DEF Visit
<1>10. ASSUME NEW t \in Types, NEW name \in Names, ExportExcluding(th, t, name)
       PROVE  CallsInv'
  <2>1. Collect(t) \in Calls /\ Collect(t).at = "collect"
        BY CallTypes DEF Collect
  <2>2. Idle(th) /\ Push(th, Collect(t))
        BY <1>10 DEF ExportExcluding
  <2>3. stacked
        BY <2>1, <2>2, BeginKeeps
  <2>4. rest
        BY <1>10 DEF ExportExcluding, CallsInv, TypeOK
  <2> QED BY <2>3, <2>4 DEF CallsInv, TypeOK
<1> QED BY <1>1, <1>2, <1>3, <1>4, <1>5, <1>6, <1>7, <1>8, <1>9, <1>10 DEF Step

LEMMA CallsStutter ==
    ASSUME CallsInv, UNCHANGED vars
    PROVE  CallsInv'
BY DEF vars, CallsInv, TypeOK, StacksOK

LEMMA CallsAlways == Spec => []CallsInv
<1>1. CallsInv /\ [Next]_vars => CallsInv'
      BY CallsStep, CallsStutter DEF Next
<1> QED BY <1>1, CallsInit, PTL DEF Spec

(* Of every set of types, however they contain each other and whatever the
   threads call: the Onces, the registries and the calls in progress have their
   types, and a registry key has at most one entry. *)
THEOREM CallsTyped == Spec => []TypeOK
<1>1. CallsInv => TypeOK
      BY DEF CallsInv
<1> QED BY <1>1, CallsAlways, PTL

(* What decorators() returns, and what it registers, is the transitive rule
   set of its type, for any field types: cyclic, shared, generic. *)
THEOREM ReturnedRules == Spec => []ReturnsFullSet
<1>1. ASSUME CallsInv
      PROVE  ReturnsFullSet
  <2> SUFFICES ASSUME NEW th \in Threads, At(th, "first") \/ At(th, "build"),
                      stack[th][1].probes = << >>
               PROVE  LET s == stack[th] IN
                      s[1].rules = IF Len(s) = 2 /\ s[2].at = "collect"
                                   THEN LinkRules[s[1].type] ELSE Rules[s[1].type]
      BY DEF ReturnsFullSet
  <2>1. PICK s : s = stack[th]
        OBVIOUS
  <2>2. /\ s \in Seq(Calls) /\ s # << >> /\ StackOK(s)
        /\ s[1].at \in {"first", "build"} /\ s[1].probes = << >>
        BY <1>1, <2>1, TopCall DEF At
  <2>3. s[1].rules = Target(s, 1)
        BY <2>2, TopReturns
  <2>4. AboveExport(s, 1) <=> Len(s) = 2 /\ s[2].at = "collect"
    <3>1. Len(s) > 1 => CallOK(s, 2)
          BY <2>2 DEF StackOK
    <3> QED BY <2>2, <3>1 DEF AboveExport, CallOK
  <2> QED BY <2>1, <2>3, <2>4 DEF Target
<1> QED BY <1>1, CallsAlways, PTL

-----------------------------------------------------------------------------
(* Steps and the calls they leave.  A set of calls is closed if it has every
   call that begins, and with a call all that a step makes of it, registering
   aside. *)

Closed(S) ==
    /\ S \subseteq Calls
    /\ \A c \in Calls : c.at \in {"once", "build", "collect"} => c \in S
    /\ \A t \in Types :
          /\ Build(t, "first", RegistrationKeys(t)) \in S
          /\ LookUp(t, <<t>>) \in S
          /\ Identifies(Serialized[Derive[t]], Derive[t])
                => LookUp(t, SerializedKeys(t)) \in S
    /\ \A c \in S, d \in Calls :
          d.at = c.at /\ d.type = c.type /\ d.keys = c.keys => d \in S
    /\ \A c \in S : c.at = "look" /\ c.keys # << >>
                       => [c EXCEPT !.keys = Tail(@)] \in S

LEMMA StackOf ==
    ASSUME NEW S, NEW s \in Seq(S), NEW c \in S, NEW d \in S
    PROVE  /\ <<c>> \o s \in Seq(S) /\ <<c, d>> \in Seq(S)
           /\ s # << >> => /\ s[1] \in S
                           /\ <<c>> \o Tail(s) \in Seq(S)
                           /\ <<c, d>> \o Tail(s) \in Seq(S)
           /\ Len(s) > 1 => s[2] \in S /\ <<c>> \o Tail(Tail(s)) \in Seq(S)
<1>1. /\ <<c>> \o s \in Seq(S) /\ <<c, d>> \in Seq(S)
      /\ s # << >> => /\ s[1] \in S /\ Tail(s) \in Seq(S)
                      /\ <<c>> \o Tail(s) \in Seq(S)
                      /\ <<c, d>> \o Tail(s) \in Seq(S)
      OBVIOUS
<1>2. Len(s) > 1 => s[2] \in S /\ Tail(Tail(s)) \in Seq(S)
  <2> SUFFICES ASSUME Len(s) > 1
               PROVE  s[2] \in S /\ Tail(Tail(s)) \in Seq(S)
      OBVIOUS
  <2>1. Tail(s) \in Seq(S) /\ Len(Tail(s)) > 0
        OBVIOUS
  <2>2. ASSUME NEW r \in Seq(S), Len(r) > 0
        PROVE  Tail(r) \in Seq(S)
        BY <2>2
  <2> QED BY <2>1, <2>2
<1>3. ASSUME NEW r \in Seq(S)
      PROVE  <<c>> \o r \in Seq(S)
      OBVIOUS
<1> QED BY <1>1, <1>2, <1>3

LEMMA SeqGrows ==
    ASSUME NEW S, NEW T, S \subseteq T
    PROVE  Seq(S) \subseteq Seq(T)
OBVIOUS

LEMMA ClosedStep ==
    ASSUME CallsInv, NEW S, Closed(S), stack \in [Threads -> Seq(S)],
           NEW th \in Threads,
           PassOnce(th) \/ Probe(th) \/ Built(th) \/ TryKey(th) \/ FinishExport(th)
           \/ \E t \in Types : Decorators(th, t) \/ Export(th, t) \/ Visit(th, t)
                 \/ \E name \in Names : ExportExcluding(th, t, name)
    PROVE  stack' \in [Threads -> Seq(S)]
<1> DEFINE s == stack[th]
<1>0. s \in Seq(S) /\ s \in Seq(Calls) /\ << >> \in Seq(S) /\ S \subseteq Calls
      BY DEF CallsInv, TypeOK, Closed
<1> HIDE DEF s
<1>1. ASSUME NEW r \in Seq(S), stack' = [stack EXCEPT ![th] = r]
      PROVE  stack' \in [Threads -> Seq(S)]
      BY <1>1
<1>2. ASSUME NEW c \in S, s # << >>, Become(th, c)
      PROVE  stack' \in [Threads -> Seq(S)]
  <2>1. <<c>> \o Tail(s) \in Seq(S)
        BY <1>0, <1>2, StackOf
  <2>2. stack' = [stack EXCEPT ![th] = <<c>> \o Tail(s)]
        BY <1>2 DEF Become, s
  <2> QED BY <1>1, <2>1, <2>2
<1>3. ASSUME NEW c \in S, Push(th, c)
      PROVE  stack' \in [Threads -> Seq(S)]
  <2>1. <<c>> \o s \in Seq(S)
        BY <1>0, StackOf
  <2>2. stack' = [stack EXCEPT ![th] = <<c>> \o s]
        BY <1>3 DEF Push, s
  <2> QED BY <1>1, <2>1, <2>2
<1>4. ASSUME NEW rules \in SUBSET Derives, s # << >>, Return(th, rules)
      PROVE  stack' \in [Threads -> Seq(S)]
  <2> DEFINE caller == [s[2] EXCEPT !.rules = @ \cup rules]
  <2>1. stack' = [stack EXCEPT ![th] =
                    IF Len(s) = 1 THEN << >> ELSE <<caller>> \o Tail(Tail(s))]
        BY <1>4 DEF Return, s
  <2>2. CASE Len(s) = 1
        BY <1>0, <1>1, <2>1, <2>2
  <2>3. CASE Len(s) # 1
    <3>1. Len(s) > 1
          BY <1>0, <1>4, <2>3, CallerExists
    <3>2. s[2] \in S /\ s[2] \in Calls
          BY <1>0, <3>1
    <3>3. /\ caller \in Calls /\ caller.at = s[2].at
          /\ caller.type = s[2].type /\ caller.keys = s[2].keys
          BY <3>2 DEF Calls
    <3>4. caller \in S
          BY <3>2, <3>3 DEF Closed
    <3> HIDE DEF caller
    <3>5. <<caller>> \o Tail(Tail(s)) \in Seq(S)
          BY <1>0, <3>1, <3>4, StackOf
    <3> QED BY <1>1, <2>1, <2>3, <3>5
  <2> QED BY <2>2, <2>3
<1>5. \A t \in Types : /\ DecoratorsCall(t) \in S /\ Collect(t) \in S
                       /\ Build(t, "build", << >>) \in S
                       /\ Build(t, "first", RegistrationKeys(t)) \in S
                       /\ LookUp(t, <<t>>) \in S
  <2>1. ASSUME NEW t \in Types
        PROVE  /\ DecoratorsCall(t) \in Calls /\ DecoratorsCall(t).at = "once"
               /\ Collect(t) \in Calls /\ Collect(t).at = "collect"
               /\ Build(t, "build", << >>) \in Calls
               /\ Build(t, "build", << >>).at = "build"
    <3>1. << >> \in Seq(Keys)
          OBVIOUS
    <3> QED BY <3>1, CallTypes DEF DecoratorsCall, Collect, Build
  <2> QED BY <2>1 DEF Closed
<1>6. s # << >> => /\ s[1] \in S /\ s[1] \in Calls /\ s[1].type \in Types
                   /\ s[1].probes \in Seq(Types) /\ s[1].keys \in Seq(Keys)
                   /\ s[1].rules \in SUBSET Derives
      BY <1>0, TopCall DEF s
<1>7. CASE PassOnce(th)
      BY <1>2, <1>5, <1>6, <1>7 DEF PassOnce, At, s
<1>8. CASE Probe(th)
  <2> DEFINE c == DecoratorsCall(Head(s[1].probes))
             d == [s[1] EXCEPT !.probes = Tail(@)]
  <2>1. s # << >> /\ s[1].probes # << >>
        BY <1>8 DEF Probe, At, s
  <2>2. Head(s[1].probes) \in Types /\ Tail(s[1].probes) \in Seq(Types)
        BY <1>6, <2>1
  <2>3. c \in S
        BY <1>5, <2>2
  <2>4. d \in Calls /\ d.at = s[1].at /\ d.type = s[1].type /\ d.keys = s[1].keys
        BY <1>6, <2>1, <2>2 DEF Calls
  <2>5. d \in S
        BY <1>6, <2>1, <2>4 DEF Closed
  <2>6. stack' = [stack EXCEPT ![th] = <<c, d>> \o Tail(s)]
        BY <1>8 DEF Probe, s
  <2> HIDE DEF c, d
  <2>7. <<c, d>> \o Tail(s) \in Seq(S)
        BY <1>0, <2>1, <2>3, <2>5, StackOf
  <2> QED BY <1>1, <2>6, <2>7
<1>9. CASE Built(th)
      BY <1>4, <1>6, <1>9 DEF Built, At, s
<1>10. CASE TryKey(th)
  <2>1. s # << >> /\ s[1].at = "look"
        BY <1>10 DEF TryKey, At, s
  <2>2. CASE Become(th, [s[1] EXCEPT !.at = "build"])
    <3> DEFINE c == [s[1] EXCEPT !.at = "build"]
    <3>1. c \in Calls /\ c.at = "build"
          BY <1>6, <2>1 DEF Calls
    <3>2. c \in S
          BY <3>1 DEF Closed
    <3> QED BY <1>2, <2>1, <2>2, <3>2
  <2>3. CASE s[1].keys # << >> /\ Become(th, [s[1] EXCEPT !.keys = Tail(@)])
    <3>1. [s[1] EXCEPT !.keys = Tail(@)] \in S
          BY <1>6, <2>1, <2>3 DEF Closed
    <3> QED BY <1>2, <2>1, <2>3, <3>1
  <2>4. CASE /\ s[1].keys # << >>
             /\ \E rules \in registry[Head(s[1].keys)] : Return(th, rules)
    <3>1. Head(s[1].keys) \in Keys
          BY <1>6, <2>1, <2>4
    <3>2. registry[Head(s[1].keys)] \in SUBSET SUBSET Derives
          BY <3>1 DEF CallsInv, TypeOK
    <3> QED BY <1>4, <2>1, <2>4, <3>2
  <2> QED BY <1>10, <2>2, <2>3, <2>4 DEF TryKey, s
<1>11. CASE FinishExport(th)
       BY <1>0, <1>1, <1>11 DEF FinishExport
<1>12. ASSUME NEW t \in Types, Decorators(th, t)
       PROVE  stack' \in [Threads -> Seq(S)]
       BY <1>3, <1>5, <1>12 DEF Decorators
<1>13. ASSUME NEW t \in Types, Export(th, t)
       PROVE  stack' \in [Threads -> Seq(S)]
  <2>1. <<LookUp(t, <<t>>), Collect(t)>> \in Seq(S)
        BY <1>0, <1>5, StackOf
  <2> QED BY <1>1, <1>13, <2>1 DEF Export
<1>14. ASSUME NEW t \in Types, Visit(th, t)
       PROVE  stack' \in [Threads -> Seq(S)]
  <2>1. CASE /\ Identifies(Serialized[Derive[t]], Derive[t])
             /\ Push(th, LookUp(t, SerializedKeys(t)))
    <3>1. LookUp(t, SerializedKeys(t)) \in S
          BY <2>1 DEF Closed
    <3> QED BY <1>3, <2>1, <3>1
  <2>2. CASE UNCHANGED stack
        BY <2>2
  <2> QED BY <1>14, <2>1, <2>2 DEF Visit
<1>15. ASSUME NEW t \in Types, NEW name \in Names, ExportExcluding(th, t, name)
       PROVE  stack' \in [Threads -> Seq(S)]
       BY <1>3, <1>5, <1>15 DEF ExportExcluding
<1> QED BY <1>7, <1>8, <1>9, <1>10, <1>11, <1>12, <1>13, <1>14, <1>15

-----------------------------------------------------------------------------
(* What is registered.  Under a type's own name: its rules.  Under another
   name: the rules of a type that goes by it. *)
Entries ==
    /\ \A t \in Types : registry[t] \subseteq {Rules[t]}
    /\ \A name \in Names : \A rules \in registry[name] :
          \E t \in Types : MatchesSerialized(Derive[t], name) /\ rules = Rules[t]

(* A call inside its Once has registered the keys it no longer holds. *)
Registering(call) ==
    LET d == Derive[call.type] IN
    \/ call.keys = <<Short[d], Serialized[d], call.type>>
    \/ /\ call.keys = <<Serialized[d], call.type>>
       /\ registry[Short[d]] # {}
    \/ /\ call.keys = <<call.type>>
       /\ registry[Short[d]] # {} /\ registry[Serialized[d]] # {}

RegisteringCalls == {c \in Calls : c.at = "first" => Registering(c)}

DoneRegistered ==
    \A t \in Types : once[Derive[t]] = "done" =>
       /\ registry[Short[Derive[t]]] # {} /\ registry[Serialized[Derive[t]]] # {}
       /\ Derive[t] \notin Generic => registry[t] # {}

RegistryInv ==
    /\ CallsInv
    /\ stack \in [Threads -> Seq(RegisteringCalls)]
    /\ Entries
    /\ DoneRegistered

LEMMA BeginningCalls ==
    ASSUME NEW t \in Types
    PROVE  /\ \A keys \in Seq(Keys) : LookUp(t, keys) \in Calls
                                      /\ LookUp(t, keys).at = "look"
                                      /\ LookUp(t, keys).keys = keys
                                      /\ LookUp(t, keys).type = t
           /\ LET c == Build(t, "first", RegistrationKeys(t)) IN
              c \in Calls /\ c.at = "first" /\ c.type = t /\ c.keys = RegistrationKeys(t)
           /\ <<t>> \in Seq(Keys) /\ SerializedKeys(t) \in Seq(Keys)
BY CallTypes DEF LookUp, Build

LEMMA PassedCall ==
    ASSUME NEW t \in Types
    PROVE  /\ Build(t, "build", << >>) \in Calls
           /\ Build(t, "build", << >>).at = "build"
           /\ Build(t, "build", << >>).type = t
<1>1. << >> \in Seq(Keys)
      OBVIOUS
<1> QED BY <1>1, CallTypes DEF Build

LEMMA RegisteringClosed == Closed(RegisteringCalls)
<1>1. \A c \in Calls : c.at \in {"once", "build", "collect"} => c \in RegisteringCalls
      BY DEF RegisteringCalls
<1>2. ASSUME NEW t \in Types
      PROVE  /\ Build(t, "first", RegistrationKeys(t)) \in RegisteringCalls
             /\ LookUp(t, <<t>>) \in RegisteringCalls
             /\ LookUp(t, SerializedKeys(t)) \in RegisteringCalls
  <2>1. LookUp(t, <<t>>) \in RegisteringCalls /\ LookUp(t, SerializedKeys(t)) \in RegisteringCalls
        BY BeginningCalls DEF RegisteringCalls
  <2>2. PICK c : c = Build(t, "first", RegistrationKeys(t))
        OBVIOUS
  <2>3. c \in Calls /\ c.type = t /\ c.keys = RegistrationKeys(t)
        BY <2>2, BeginningCalls
  <2>4. Registering(c)
        BY <2>3 DEF Registering, RegistrationKeys
  <2> QED BY <2>1, <2>2, <2>3, <2>4 DEF RegisteringCalls
<1>3. \A c \in RegisteringCalls, d \in Calls :
         d.at = c.at /\ d.type = c.type /\ d.keys = c.keys => d \in RegisteringCalls
      BY DEF RegisteringCalls, Registering
<1>4. ASSUME NEW c \in RegisteringCalls, c.at = "look", c.keys # << >>
      PROVE  [c EXCEPT !.keys = Tail(@)] \in RegisteringCalls
  <2>1. c \in Calls /\ c.keys \in Seq(Keys)
        BY DEF RegisteringCalls, Calls
  <2>2. Tail(c.keys) \in Seq(Keys)
        BY <1>4, <2>1
  <2>3. [c EXCEPT !.keys = Tail(@)] \in Calls /\ [c EXCEPT !.keys = Tail(@)].at = "look"
        BY <1>4, <2>1, <2>2 DEF Calls
  <2> QED BY <2>3 DEF RegisteringCalls
<1>5. RegisteringCalls \subseteq Calls
      BY DEF RegisteringCalls
<1> QED BY <1>1, <1>2, <1>3, <1>4, <1>5 DEF Closed

LEMMA RegistryInit == Init => RegistryInv
<1> SUFFICES ASSUME Init PROVE RegistryInv
    OBVIOUS
<1>1. \A k \in Keys : registry[k] = {}
      BY DEF Init
<1>2. Entries
      BY <1>1 DEF Entries, Keys
<1>3. stack \in [Threads -> Seq(RegisteringCalls)]
      BY DEF Init
<1>4. DoneRegistered
      BY DecoratorsAssumption DEF Init, DoneRegistered
<1> QED BY <1>2, <1>3, <1>4, CallsInit DEF RegistryInv

LEMMA KeySequences ==
    /\ \A a, b, c : Len(<<a, b, c>>) = 3 /\ Head(<<a, b, c>>) = a /\ Tail(<<a, b, c>>) = <<b, c>>
    /\ \A b, c : Len(<<b, c>>) = 2 /\ Head(<<b, c>>) = b /\ Tail(<<b, c>>) = <<c>>
    /\ \A c : Len(<<c>>) = 1 /\ Head(<<c>>) = c
OBVIOUS

LEMMA RegisterKeeps ==
    ASSUME RegistryInv, CallsInv', NEW th \in Threads, Register(th)
    PROVE  RegistryInv'
<1> DEFINE s == stack[th]
           call == s[1]
           t == call.type
           d == Derive[t]
<1>1. /\ s \in Seq(Calls) /\ s # << >> /\ StackOK(s)
      /\ call \in Calls /\ call.at = "first" /\ call.probes = << >>
      /\ call.keys \in Seq(Keys)
      BY TopCall DEF Register, At, RegistryInv
<1>2. s \in Seq(RegisteringCalls) /\ call \in RegisteringCalls
  <2>1. s \in Seq(RegisteringCalls)
        BY DEF RegistryInv
  <2> QED BY <1>1, <2>1
<1>3. Registering(call)
      BY <1>1, <1>2 DEF RegisteringCalls
<1>18. \/ call.keys = <<Short[d], Serialized[d], t>>
       \/ call.keys = <<Serialized[d], t>> /\ registry[Short[d]] # {}
       \/ call.keys = <<t>> /\ registry[Short[d]] # {} /\ registry[Serialized[d]] # {}
       BY <1>3 DEF Registering
<1> DEFINE three == <<Short[d], Serialized[d], t>>
           two == <<Serialized[d], t>>
           one == <<t>>
<1>17. /\ Len(one) = 1 /\ Len(two) = 2 /\ Len(three) = 3
       /\ Head(three) = Short[d] /\ Tail(three) = two
       /\ Head(two) = Serialized[d] /\ Tail(two) = one /\ Head(one) = t
       BY KeySequences
<1>4. call.rules = Rules[t]
      BY <1>1, TopReturns
<1>5. /\ t \in Types /\ d \in Derives /\ Short[d] \in Names /\ Serialized[d] \in Names
      /\ \A name \in Names : name \notin Types
      BY <1>1, DecoratorsAssumption DEF Calls
<1>6. /\ registry \in [Keys -> SUBSET SUBSET Derives]
      /\ registry' = [registry EXCEPT ![Head(call.keys)] = {Rules[t]}]
      /\ once \in [Derives -> {"new", "running", "done"}]
      BY <1>4 DEF Register, RegistryInv, CallsInv, TypeOK
<1>7. IF Len(call.keys) > 1
      THEN Become(th, [call EXCEPT !.keys = Tail(@)]) /\ once' = once
      ELSE Become(th, Build(t, "build", << >>)) /\ once' = [once EXCEPT ![d] = "done"]
      BY DEF Register
<1> HIDE DEF s, call, t, d
<1>8. \A k \in Keys : k # Head(call.keys) => registry'[k] = registry[k]
      BY <1>6
<1>9. \A k \in Keys : registry[k] # {} => registry'[k] # {}
      BY <1>6
<1>10. Head(call.keys) \in {Short[d], Serialized[d], t}
       BY <1>17, <1>18
<1>11. Head(call.keys) \in Keys /\ registry'[Head(call.keys)] = {Rules[t]}
       BY <1>5, <1>6, <1>10 DEF Keys
<1>12. Entries'
  <2>1. ASSUME NEW u \in Types
        PROVE  registry'[u] \subseteq {Rules[u]}
    <3>1. u \in Keys /\ registry[u] \subseteq {Rules[u]}
          BY DEF RegistryInv, Entries, Keys
    <3>2. u = Head(call.keys) => u = t
          BY <1>5, <1>10
    <3> QED BY <1>8, <1>11, <3>1, <3>2
  <2>2. ASSUME NEW name \in Names, NEW rules \in registry'[name]
        PROVE  \E u \in Types : MatchesSerialized(Derive[u], name) /\ rules = Rules[u]
    <3>1. CASE name = Head(call.keys)
      <4>1. rules = Rules[t] /\ (name = Short[d] \/ name = Serialized[d])
            BY <1>5, <1>10, <1>11, <3>1
      <4> QED BY <1>5, <4>1 DEF MatchesSerialized, d
    <3>2. CASE name # Head(call.keys)
          BY <1>8, <3>2 DEF RegistryInv, Entries, Keys
    <3> QED BY <3>1, <3>2
  <2> QED BY <2>1, <2>2 DEF Entries
<1>13. \A c \in RegisteringCalls : c \in RegisteringCalls'
  <2> SUFFICES ASSUME NEW c \in RegisteringCalls, c.at = "first"
               PROVE  Registering(c)'
      BY DEF RegisteringCalls
  <2>1. c.type \in Types /\ Registering(c)
        BY DEF RegisteringCalls, Calls
  <2>2. Short[Derive[c.type]] \in Keys /\ Serialized[Derive[c.type]] \in Keys
        BY <2>1, DecoratorsAssumption DEF Keys
  <2> QED BY <1>9, <2>1, <2>2 DEF Registering
<1>14. \E c \in RegisteringCalls' : Become(th, c)
  <2>1. CASE Len(call.keys) > 1
    <3>0. PICK c : c = [call EXCEPT !.keys = Tail(@)]
          OBVIOUS
    <3>1. Tail(call.keys) \in Seq(Keys)
          BY <1>1, <2>1
    <3>2. /\ c \in Calls /\ c.type = t /\ c.keys = Tail(call.keys)
          BY <1>1, <3>0, <3>1 DEF Calls, t
    <3>3. \/ call.keys = <<Short[d], Serialized[d], t>>
          \/ call.keys = <<Serialized[d], t>> /\ registry[Short[d]] # {}
          BY <1>18, <2>1, <1>17
    <3>4. \/ /\ Head(call.keys) = Short[d]
             /\ c.keys = <<Serialized[d], t>>
          \/ /\ Head(call.keys) = Serialized[d] /\ registry[Short[d]] # {}
             /\ c.keys = <<t>>
          BY <3>2, <3>3, <1>17
    <3>5. Short[d] \in Keys /\ Serialized[d] \in Keys
          BY <1>5 DEF Keys
    <3>6. \/ /\ c.keys = <<Serialized[d], t>>
             /\ registry'[Short[d]] # {}
          \/ c.keys = <<t>> /\ registry'[Short[d]] # {} /\ registry'[Serialized[d]] # {}
          BY <1>9, <1>11, <3>4, <3>5
    <3>7. Derive[c.type] = d /\ c.type = t
          BY <3>2 DEF d
    <3>8. Registering(c)'
          BY <3>6, <3>7 DEF Registering
    <3>9. c \in RegisteringCalls'
          BY <3>2, <3>8 DEF RegisteringCalls
    <3> QED BY <1>7, <2>1, <3>0, <3>9
  <2>2. CASE ~(Len(call.keys) > 1)
    <3>1. Build(t, "build", << >>) \in Calls /\ Build(t, "build", << >>).at = "build"
          BY <1>5, PassedCall
    <3>2. Build(t, "build", << >>) \in RegisteringCalls'
          BY <3>1 DEF RegisteringCalls
    <3> QED BY <1>7, <2>2, <3>2
  <2> QED BY <2>1, <2>2
<1>15. stack' \in [Threads -> Seq(RegisteringCalls)']
  <2>1. PICK c \in RegisteringCalls' : Become(th, c)
        BY <1>14
  <2>2. Seq(RegisteringCalls) \subseteq Seq(RegisteringCalls')
        BY <1>13, SeqGrows
  <2>3. <<c>> \o Tail(s) \in Seq(RegisteringCalls')
        BY <1>1, <1>2, <2>1, <2>2, StackOf
  <2>4. stack' = [stack EXCEPT ![th] = <<c>> \o Tail(s)]
        BY <2>1 DEF Become, s
  <2>5. stack \in [Threads -> Seq(RegisteringCalls')]
        BY <2>2 DEF RegistryInv
  <2> QED BY <2>3, <2>4, <2>5
<1>16. DoneRegistered'
  <2> SUFFICES ASSUME NEW u \in Types, once'[Derive[u]] = "done"
               PROVE  /\ registry'[Short[Derive[u]]] # {}
                      /\ registry'[Serialized[Derive[u]]] # {}
                      /\ Derive[u] \notin Generic => registry'[u] # {}
      BY DEF DoneRegistered
  <2>1. /\ Derive[u] \in Derives /\ Short[Derive[u]] \in Keys
        /\ Serialized[Derive[u]] \in Keys /\ u \in Keys
        BY DecoratorsAssumption DEF Keys
  <2>2. CASE once[Derive[u]] = "done"
        BY <1>9, <2>1, <2>2 DEF RegistryInv, DoneRegistered
  <2>3. CASE once[Derive[u]] # "done"
    <3>1. ~(Len(call.keys) > 1) /\ Derive[u] = d
          BY <1>6, <1>7, <2>1, <2>3
    <3>2. call.keys = <<t>> /\ registry[Short[d]] # {} /\ registry[Serialized[d]] # {}
          BY <1>17, <1>18, <3>1
    <3>3. Head(call.keys) = t
          BY <1>17, <3>2
    <3>4. Derive[u] \notin Generic => u = t
          BY <1>5, <3>1, DecoratorsAssumption DEF d
    <3> QED BY <1>9, <1>11, <2>1, <3>1, <3>2, <3>3, <3>4
  <2> QED BY <2>2, <2>3
<1> QED BY <1>12, <1>15, <1>16 DEF RegistryInv

LEMMA RegistryStep ==
    ASSUME RegistryInv, NEW th \in Threads,
           Step(th) \/ FinishExport(th)
           \/ \E t \in Types : Decorators(th, t) \/ Export(th, t) \/ Visit(th, t)
                 \/ \E name \in Names : ExportExcluding(th, t, name)
    PROVE  RegistryInv'
<1>1. CallsInv'
      BY CallsStep DEF RegistryInv
<1>2. CASE Register(th)
      BY <1>1, <1>2, RegisterKeeps
<1>3. CASE ~Register(th)
  <2>1. stack' \in [Threads -> Seq(RegisteringCalls)]
        BY <1>3, RegisteringClosed, ClosedStep DEF RegistryInv, Step
  <2>2. /\ registry' = registry
        /\ \A d \in Derives : once'[d] = "done" => once[d] = "done"
    <3>1. CASE PassOnce(th)
          BY <3>1 DEF PassOnce, RegistryInv, CallsInv, TypeOK
    <3> QED BY <1>3, <3>1 DEF Step, Probe, Built, TryKey, FinishExport,
                              Decorators, Export, Visit, ExportExcluding
  <2>3. RegisteringCalls' = RegisteringCalls
        BY <2>2 DEF RegisteringCalls, Registering
  <2>4. Entries' /\ DoneRegistered'
        BY <2>2, DecoratorsAssumption DEF RegistryInv, Entries, DoneRegistered
  <2> QED BY <1>1, <2>1, <2>3, <2>4 DEF RegistryInv
<1> QED BY <1>2, <1>3

LEMMA RegistryStutter ==
    ASSUME RegistryInv, UNCHANGED vars
    PROVE  RegistryInv'
<1>1. CallsInv'
      BY CallsStutter DEF RegistryInv
<1>2. once' = once /\ registry' = registry /\ stack' = stack
      BY DEF vars
<1>3. RegisteringCalls' = RegisteringCalls
      BY <1>2 DEF RegisteringCalls, Registering
<1>4. Entries' /\ DoneRegistered'
      BY <1>2 DEF RegistryInv, Entries, DoneRegistered
<1> QED BY <1>1, <1>2, <1>3, <1>4 DEF RegistryInv

LEMMA RegistryAlways == Spec => []RegistryInv
<1>1. RegistryInv /\ [Next]_vars => RegistryInv'
      BY RegistryStutter, RegistryStep DEF Next
<1> QED BY <1>1, RegistryInit, PTL DEF Spec

(* Once any thread is past the Once of a type, the registry has an entry under
   its two names, and under a type's own name nothing but its transitive rules,
   whatever the types and whichever threads register them at the same time. *)
THEOREM RegisteredWhenDone == Spec => []RegisteredOnceDone
<1>1. RegistryInv => RegisteredOnceDone
  <2> SUFFICES ASSUME RegistryInv, NEW t \in Types, once[Derive[t]] = "done"
               PROVE  /\ registry[Short[Derive[t]]] # {}
                      /\ registry[Serialized[Derive[t]]] # {}
                      /\ Derive[t] \notin Generic => registry[t] = {Rules[t]}
      BY DEF RegisteredOnceDone
  <2>1. registry[t] \subseteq {Rules[t]}
        BY DEF RegistryInv, Entries
  <2> QED BY <2>1 DEF RegistryInv, DoneRegistered
<1> QED BY <1>1, RegistryAlways, PTL

-----------------------------------------------------------------------------
(* What an export collects depends on the registry in two cases only, which
   these hypotheses exclude. *)

(* No type that its serialized name identifies shares its identifier: what
   MCDecorators_renamed lacks. *)
Unambiguous ==
    \A d \in Derives : Identifies(Serialized[d], d) => Identifies(Short[d], d)

(* The type parameters of a generic derive need no derive of their own, so
   that its types have the same rules. *)
GenericsAlike ==
    \A t \in Types : Derive[t] \in Generic => Rules[t] = {Derive[t]}

OwnKey(key, t) == key = t \/ (key \in Names /\ Identifies(key, Derive[t]))

LookingCalls ==
    {c \in Calls : c.at = "look" => \A i \in 1 .. Len(c.keys) : OwnKey(c.keys[i], c.type)}

LEMMA SameDerive ==
    ASSUME GenericsAlike, NEW t \in Types, NEW u \in Types, Derive[t] = Derive[u]
    PROVE  Rules[t] = Rules[u]
BY DecoratorsAssumption DEF GenericsAlike

LEMMA LookingClosed ==
    ASSUME Unambiguous
    PROVE  Closed(LookingCalls)
<1>1. /\ LookingCalls \subseteq Calls
      /\ \A c \in Calls : c.at \in {"once", "build", "collect"} => c \in LookingCalls
      BY DEF LookingCalls
<1>2. ASSUME NEW t \in Types
      PROVE  /\ Build(t, "first", RegistrationKeys(t)) \in LookingCalls
             /\ LookUp(t, <<t>>) \in LookingCalls
  <2>1. PICK keys \in Seq(Keys) : keys = <<t>>
        BY BeginningCalls
  <2>2. \A i \in 1 .. Len(keys) : keys[i] = t
        BY <2>1
  <2>3. \A i \in 1 .. Len(keys) : OwnKey(keys[i], t)
        BY <2>2 DEF OwnKey
  <2>4. LookUp(t, keys) \in LookingCalls
        BY <2>3, BeginningCalls DEF LookingCalls
  <2> QED BY <2>1, <2>4, BeginningCalls DEF LookingCalls
<1>3. ASSUME NEW t \in Types, Identifies(Serialized[Derive[t]], Derive[t])
      PROVE  LookUp(t, SerializedKeys(t)) \in LookingCalls
  <2> DEFINE keys == SerializedKeys(t)
  <2>1. Derive[t] \in Derives
        BY DecoratorsAssumption
  <2>2. Identifies(Short[Derive[t]], Derive[t])
        BY <1>3, <2>1 DEF Unambiguous
  <2>7. Serialized[Derive[t]] \in Names /\ Short[Derive[t]] \in Names
        BY <2>1, DecoratorsAssumption
  <2>3. \A key \in {t, Serialized[Derive[t]], Short[Derive[t]]} : OwnKey(key, t)
        BY <1>3, <2>2, <2>7 DEF OwnKey
  <2>4. \A i \in 1 .. Len(keys) : keys[i] \in {t, Serialized[Derive[t]], Short[Derive[t]]}
        BY DEF SerializedKeys
  <2>5. \A i \in 1 .. Len(keys) : OwnKey(keys[i], t)
        BY <2>3, <2>4
  <2> HIDE DEF keys
  <2>6. /\ LookUp(t, keys) \in Calls /\ LookUp(t, keys).keys = keys
        /\ LookUp(t, keys).type = t
        BY BeginningCalls DEF keys
  <2> QED BY <2>5, <2>6 DEF LookingCalls, keys
<1>4. \A c \in LookingCalls, d \in Calls :
         d.at = c.at /\ d.type = c.type /\ d.keys = c.keys => d \in LookingCalls
      BY DEF LookingCalls
<1>5. ASSUME NEW c \in LookingCalls, c.at = "look", c.keys # << >>
      PROVE  [c EXCEPT !.keys = Tail(@)] \in LookingCalls
  <2> DEFINE d == [c EXCEPT !.keys = Tail(@)]
  <2>1. c \in Calls /\ c.keys \in Seq(Keys)
        BY DEF LookingCalls, Calls
  <2>2. /\ Tail(c.keys) \in Seq(Keys) /\ Len(Tail(c.keys)) = Len(c.keys) - 1
        /\ \A i \in 1 .. Len(c.keys) - 1 : Tail(c.keys)[i] = c.keys[i + 1]
        BY <1>5, <2>1
  <2>3. d \in Calls /\ d.keys = Tail(c.keys) /\ d.type = c.type
        BY <2>1, <2>2 DEF Calls
  <2>4. \A i \in 1 .. Len(c.keys) : OwnKey(c.keys[i], c.type)
        BY <1>5 DEF LookingCalls
  <2> HIDE DEF d
  <2>5. \A i \in 1 .. Len(d.keys) : i + 1 \in 1 .. Len(c.keys)
        BY <2>1, <2>2, <2>3
  <2>6. \A i \in 1 .. Len(d.keys) : OwnKey(d.keys[i], d.type)
        BY <2>2, <2>3, <2>4, <2>5
  <2> QED BY <2>3, <2>6 DEF LookingCalls, d
<1> QED BY <1>1, <1>2, <1>3, <1>4, <1>5 DEF Closed

(* What a value of type t has shown when the names in vis were visited *)
Shown(t, vis, exc) ==
    (IF exc = {} THEN Rules[t] ELSE {}) \cup
    UNION {Rules[u] : u \in {v \in Contained[t] :
              /\ Serialized[Derive[v]] \in vis
              /\ \A d \in Derives :
                    MatchesSerialized(d, Serialized[Derive[v]]) => d = Derive[v]}}

Exporting(s) == s # << >> /\ s[Len(s)].at = "collect"

(* What an export has, and will have when the lookup above it returns *)
Collected(s) ==
    s[Len(s)].rules \cup (IF Len(s) = 1 THEN {} ELSE Rules[s[Len(s) - 1].type])

CollectOK(s, vis, exc) ==
    IF Exporting(s) THEN Collected(s) = Shown(s[Len(s)].type, vis, exc)
                    ELSE vis = {} /\ exc = {}

CollectInv ==
    /\ RegistryInv
    /\ stack \in [Threads -> Seq(LookingCalls)]
    /\ \A th \in Threads : CollectOK(stack[th], visited[th], exclude[th])

RulesOf(S) == UNION {Rules[v] : v \in S}

LEMMA RulesOfUnion ==
    ASSUME NEW A, NEW B
    PROVE  RulesOf(A \cup B) = RulesOf(A) \cup RulesOf(B)
<1>1. \A S, x : x \in RulesOf(S) <=> \E v \in S : x \in Rules[v]
      BY DEF RulesOf
<1>2. \A x : x \in RulesOf(A \cup B) <=> x \in RulesOf(A) \/ x \in RulesOf(B)
      BY <1>1
<1> QED BY <1>2

LEMMA Positions ==
    \A n \in Nat : n > 1 /\ n # 2 => n - 1 \in 2 .. n /\ n - 1 + 1 = n
OBVIOUS

(* Names already visited, a name that does not identify its derive, and an
   unseen name of u's *)
LEMMA ShownMore ==
    ASSUME GenericsAlike, NEW t \in Types, NEW u \in Contained[t], NEW vis, NEW exc
    PROVE  LET name == Serialized[Derive[u]]
               more == Shown(t, vis \cup {name}, exc) IN
           /\ Identifies(name, Derive[u]) => more = Shown(t, vis, exc) \cup Rules[u]
           /\ ~Identifies(name, Derive[u]) => more = Shown(t, vis, exc)
<1> DEFINE name == Serialized[Derive[u]]
           own(v) == \A d \in Derives :
                        MatchesSerialized(d, Serialized[Derive[v]]) => d = Derive[v]
           of(S) == {v \in Contained[t] : Serialized[Derive[v]] \in S /\ own(v)}
           new == {v \in Contained[t] : Serialized[Derive[v]] = name /\ own(v)}
<1>1. \A v \in Contained[t] : /\ v \in Types /\ Derive[v] \in Derives
                              /\ MatchesSerialized(Derive[v], Serialized[Derive[v]])
      BY DecoratorsAssumption DEF MatchesSerialized
<1>2. \A v \in new : Derive[v] = Derive[u] /\ Rules[v] = Rules[u]
  <2>1. \A v \in new : Derive[v] = Derive[u]
        BY <1>1
  <2> QED BY <1>1, <2>1, SameDerive
<1>3. own(u) <=> Identifies(name, Derive[u])
      BY <1>1 DEF Identifies
<1>4. of(vis \cup {name}) = of(vis) \cup new
      OBVIOUS
<1>5. Shown(t, vis \cup {name}, exc) = Shown(t, vis, exc) \cup RulesOf(new)
  <2> DEFINE own1 == IF exc = {} THEN Rules[t] ELSE {}
  <2>1. Shown(t, vis, exc) = own1 \cup RulesOf(of(vis))
        BY DEF Shown, RulesOf
  <2>2. Shown(t, vis \cup {name}, exc) = own1 \cup RulesOf(of(vis \cup {name}))
        BY DEF Shown, RulesOf
  <2>3. RulesOf(of(vis \cup {name})) = RulesOf(of(vis)) \cup RulesOf(new)
        BY <1>4, RulesOfUnion
  <2> HIDE DEF own1, of, new
  <2> QED BY <2>1, <2>2, <2>3
<1>6. CASE Identifies(name, Derive[u])
  <2>1. u \in new
        BY <1>3, <1>6
  <2>2. RulesOf(new) = Rules[u]
        BY <1>2, <2>1 DEF RulesOf
  <2> QED BY <1>5, <1>6, <2>2
<1>7. CASE ~Identifies(name, Derive[u])
  <2>1. new = {}
    <3>1. \A v \in new : own(v) /\ Derive[v] = Derive[u]
          BY <1>2
    <3>2. ~own(u)
          BY <1>3, <1>7
    <3> QED BY <3>1, <3>2
  <2>2. RulesOf(new) = {}
        BY <2>1 DEF RulesOf
  <2> QED BY <1>5, <1>7, <2>2
<1> QED BY <1>6, <1>7

(* The entry that a lookup finds has the rules of the type looked up. *)
LEMMA FoundRules ==
    ASSUME RegistryInv, GenericsAlike, NEW t \in Types, NEW key \in Keys,
           OwnKey(key, t), NEW rules \in registry[key]
    PROVE  rules = Rules[t]
<1>1. CASE key = t
      BY <1>1 DEF RegistryInv, Entries
<1>2. CASE key \in Names /\ Identifies(key, Derive[t])
  <2>1. PICK u \in Types : MatchesSerialized(Derive[u], key) /\ rules = Rules[u]
        BY <1>2 DEF RegistryInv, Entries
  <2>2. Derive[u] = Derive[t]
        BY <1>2, <2>1, DecoratorsAssumption DEF Identifies
  <2> QED BY <2>1, <2>2, SameDerive
<1> QED BY <1>1, <1>2 DEF OwnKey

(* The bottom of a stack, where an export is, under what happens on top *)
LEMMA SameBottom ==
    ASSUME NEW s \in Seq(Calls), Len(s) > 1, NEW r \in Seq(Calls), Len(r) > 1,
           r[Len(r)] = s[Len(s)], r[Len(r) - 1].type = s[Len(s) - 1].type,
           NEW vis, NEW exc, CollectOK(s, vis, exc)
    PROVE  CollectOK(r, vis, exc)
<1>1. s # << >> /\ r # << >> /\ Len(s) # 1 /\ Len(r) # 1
      OBVIOUS
<1>2. (Exporting(r) <=> Exporting(s)) /\ Collected(r) = Collected(s)
      BY <1>1 DEF Exporting, Collected
<1> QED BY <1>2 DEF CollectOK

LEMMA NoExport ==
    ASSUME NEW s \in Seq(Calls), s # << >>, s[Len(s)].at # "collect",
           NEW r \in Seq(Calls), r # << >>, r[Len(r)].at # "collect",
           NEW vis, NEW exc, CollectOK(s, vis, exc)
    PROVE  CollectOK(r, vis, exc)
BY DEF CollectOK, Exporting

LEMMA BecomeBottom ==
    ASSUME NEW s \in Seq(Calls), s # << >>, NEW c \in Calls,
           c.type = s[1].type, c.at # "collect", s[1].at # "collect",
           NEW vis, NEW exc, CollectOK(s, vis, exc)
    PROVE  CollectOK(<<c>> \o Tail(s), vis, exc)
<1> DEFINE r == <<c>> \o Tail(s)
<1>1. /\ r \in Seq(Calls) /\ r # << >> /\ Len(r) = Len(s) /\ r[1] = c
      /\ \A i \in 2 .. Len(s) : r[i] = s[i]
      BY ReplaceCall
<1> HIDE DEF r
<1>2. Len(s) \in Nat /\ (Len(s) = 1 \/ Len(s) > 1)
      BY CallerExists
<1>3. CASE Len(s) = 1
  <2>1. r[Len(r)] = c /\ s[Len(s)] = s[1]
        BY <1>1, <1>3
  <2> QED BY <1>1, <2>1, NoExport DEF r
<1>4. CASE Len(s) > 1
  <2>1. r[Len(r)] = s[Len(s)]
        BY <1>1, <1>4
  <2>2. CASE Len(s) = 2
    <3>1. r[Len(r) - 1] = c /\ s[Len(s) - 1] = s[1]
          BY <1>1, <2>2
    <3> QED BY <1>1, <1>4, <2>1, <3>1, SameBottom DEF r
  <2>3. CASE Len(s) # 2
    <3>1. Len(s) - 1 \in 2 .. Len(s)
          BY <1>2, <1>4, <2>3, Positions
    <3>2. r[Len(r) - 1] = s[Len(s) - 1]
          BY <1>1, <3>1
    <3> QED BY <1>1, <1>4, <2>1, <3>2, SameBottom DEF r
  <2> QED BY <2>2, <2>3
<1> QED BY <1>2, <1>3, <1>4

LEMMA ProbeBottom ==
    ASSUME NEW s \in Seq(Calls), s # << >>, NEW c \in Calls, NEW d \in Calls,
           d.type = s[1].type, d.at = s[1].at, s[1].at # "collect",
           NEW vis, NEW exc, CollectOK(s, vis, exc)
    PROVE  CollectOK(<<c, d>> \o Tail(s), vis, exc)
<1> DEFINE r == <<c, d>> \o Tail(s)
<1>1. /\ r \in Seq(Calls) /\ r # << >> /\ Len(r) = Len(s) + 1
      /\ r[1] = c /\ r[2] = d
      /\ \A i \in 2 .. Len(s) : r[i + 1] = s[i]
      BY CallBelow
<1> HIDE DEF r
<1>2. Len(s) \in Nat /\ (Len(s) = 1 \/ Len(s) > 1)
      BY CallerExists
<1>3. CASE Len(s) = 1
  <2>1. r[Len(r)] = d /\ s[Len(s)] = s[1]
        BY <1>1, <1>3
  <2> QED BY <1>1, <2>1, NoExport DEF r
<1>4. CASE Len(s) > 1
  <2>1. r[Len(r)] = s[Len(s)] /\ Len(r) > 1 /\ Len(r) - 1 = Len(s)
        BY <1>1, <1>4
  <2>2. CASE Len(s) = 2
    <3>1. r[Len(r) - 1] = d /\ s[Len(s) - 1] = s[1]
          BY <1>1, <2>1, <2>2
    <3> QED BY <1>1, <1>4, <2>1, <3>1, SameBottom DEF r
  <2>3. CASE Len(s) # 2
    <3>1. Len(s) - 1 \in 2 .. Len(s) /\ Len(s) - 1 + 1 = Len(s)
          BY <1>2, <1>4, <2>3, Positions
    <3>2. r[Len(s)] = s[Len(s) - 1]
          BY <1>1, <3>1
    <3> QED BY <1>1, <1>4, <2>1, <3>2, SameBottom DEF r
  <2> QED BY <2>2, <2>3
<1> QED BY <1>2, <1>3, <1>4

LEMMA ReturnBottom ==
    ASSUME NEW s \in Seq(Calls), Len(s) > 1, NEW rules \in SUBSET Derives,
           s[2].at = "collect" => rules = Rules[s[1].type],
           NEW vis, NEW exc, CollectOK(s, vis, exc)
    PROVE  CollectOK(<<[s[2] EXCEPT !.rules = @ \cup rules]>> \o Tail(Tail(s)), vis, exc)
<1> DEFINE c == [s[2] EXCEPT !.rules = @ \cup rules]
           r == <<c>> \o Tail(Tail(s))
<1>0. s[2] \in Calls
      OBVIOUS
<1>1. /\ c \in Calls /\ c.at = s[2].at /\ c.type = s[2].type
      /\ c.rules = s[2].rules \cup rules
      BY <1>0 DEF Calls
<1> HIDE DEF c
<1>2. /\ r \in Seq(Calls) /\ r # << >> /\ Len(r) = Len(s) - 1 /\ r[1] = c
      /\ \A i \in 2 .. Len(s) - 1 : r[i] = s[i + 1]
      BY <1>1, ReturnCall
<1> HIDE DEF r
<1>3. CASE Len(s) = 2
  <2>1. /\ Len(r) = 1 /\ s # << >> /\ r[Len(r)] = c
        /\ s[Len(s)] = s[2] /\ s[Len(s) - 1] = s[1] /\ Len(s) # 1
        BY <1>2, <1>3
  <2>2. CASE s[2].at = "collect"
    <3>1. Exporting(r) /\ Exporting(s)
          BY <1>1, <1>2, <2>1, <2>2 DEF Exporting
    <3>2. Collected(r) = Collected(s)
          BY <1>1, <2>1, <2>2 DEF Collected
    <3>3. r[Len(r)].type = s[Len(s)].type
          BY <1>1, <2>1
    <3> QED BY <3>1, <3>2, <3>3 DEF CollectOK, r, c
  <2>3. CASE s[2].at # "collect"
        BY <1>1, <1>2, <2>1, <2>3, NoExport DEF r, c
  <2> QED BY <2>2, <2>3
<1>4. CASE Len(s) # 2
  <2>1. Len(r) \in 2 .. Len(s) - 1 /\ Len(r) + 1 = Len(s) /\ Len(r) > 1
        /\ Len(r) \in Nat /\ Len(s) \in Nat
        BY <1>2, <1>4
  <2>2. r[Len(r)] = s[Len(s)]
        BY <1>2, <2>1
  <2>3. CASE Len(r) = 2
    <3>1. Len(r) - 1 = 1 /\ Len(s) - 1 = 2
          BY <2>1, <2>3
    <3>2. r[Len(r) - 1] = c /\ s[Len(s) - 1] = s[2]
          BY <1>2, <3>1
    <3> QED BY <1>1, <1>2, <2>1, <2>2, <3>2, SameBottom DEF r, c
  <2>4. CASE Len(r) # 2
    <3>1. PICK n \in Nat : n = Len(r)
          BY <2>1
    <3>2. n > 1 /\ n # 2 /\ Len(s) = n + 1
          BY <2>1, <2>4, <3>1
    <3>3. n - 1 \in 2 .. Len(s) - 1 /\ n - 1 + 1 = Len(s) - 1
          BY <3>2
    <3>4. r[Len(r) - 1] = s[Len(s) - 1]
          BY <1>2, <3>1, <3>3
    <3> QED BY <1>1, <1>2, <2>1, <2>2, <3>4, SameBottom DEF r, c
  <2> QED BY <2>3, <2>4
<1> QED BY <1>3, <1>4

LEMMA LookingStep ==
    ASSUME Unambiguous, CollectInv, NEW th \in Threads,
           Step(th) \/ FinishExport(th)
           \/ \E t \in Types : Decorators(th, t) \/ Export(th, t) \/ Visit(th, t)
                 \/ \E name \in Names : ExportExcluding(th, t, name)
    PROVE  stack' \in [Threads -> Seq(LookingCalls)]
<1>1. CASE ~Register(th)
  <2>1. CallsInv /\ stack \in [Threads -> Seq(LookingCalls)]
        BY DEF CollectInv, RegistryInv
  <2> QED BY <1>1, <2>1, LookingClosed, ClosedStep DEF Step
<1>2. CASE Register(th)
  <2> DEFINE s == stack[th]
  <2>1. /\ s # << >> /\ s[1] \in Calls /\ s[1].at = "first" /\ s[1].type \in Types
        /\ s[1].keys \in Seq(Keys)
        BY <1>2, TopCall DEF Register, At, CollectInv, RegistryInv
  <2>2. \E c \in LookingCalls : Become(th, c)
    <3>1. CASE /\ Len(s[1].keys) > 1
               /\ Become(th, [s[1] EXCEPT !.keys = Tail(@)])
      <4>1. PICK c : c = [s[1] EXCEPT !.keys = Tail(@)]
            OBVIOUS
      <4>2. Tail(s[1].keys) \in Seq(Keys)
            BY <2>1, <3>1
      <4>3. c \in Calls /\ c.at = "first"
            BY <2>1, <4>1, <4>2 DEF Calls
      <4>4. c \in LookingCalls
            BY <4>3 DEF LookingCalls
      <4> QED BY <3>1, <4>1, <4>4
    <3>2. CASE Become(th, Build(s[1].type, "build", << >>))
      <4>1. /\ Build(s[1].type, "build", << >>) \in Calls
            /\ Build(s[1].type, "build", << >>).at = "build"
            BY <2>1, PassedCall
      <4>2. Build(s[1].type, "build", << >>) \in LookingCalls
            BY <4>1 DEF LookingCalls
      <4> QED BY <3>2, <4>2
    <3> QED BY <1>2, <3>1, <3>2 DEF Register
  <2>3. PICK c \in LookingCalls : Become(th, c)
        BY <2>2
  <2>4. s \in Seq(LookingCalls) /\ stack \in [Threads -> Seq(LookingCalls)]
        BY DEF CollectInv
  <2>5. stack' = [stack EXCEPT ![th] = <<c>> \o Tail(s)]
        BY <2>3 DEF Become
  <2> HIDE DEF s
  <2>6. <<c>> \o Tail(s) \in Seq(LookingCalls)
        BY <2>1, <2>4, StackOf
  <2> QED BY <2>4, <2>5, <2>6
<1> QED BY <1>1, <1>2

LEMMA OtherThreads ==
    ASSUME CollectInv, TypeOK, NEW th \in Threads, NEW r, NEW vis, NEW exc,
           stack' = [stack EXCEPT ![th] = r],
           visited' = [visited EXCEPT ![th] = vis],
           exclude' = [exclude EXCEPT ![th] = exc],
           CollectOK(r, vis, exc)
    PROVE  \A h \in Threads : CollectOK(stack'[h], visited'[h], exclude'[h])
<1> SUFFICES ASSUME NEW h \in Threads
             PROVE  CollectOK(stack'[h], visited'[h], exclude'[h])
    OBVIOUS
<1>1. CASE h = th
      BY <1>1 DEF TypeOK
<1>2. CASE h # th
      BY <1>2 DEF TypeOK, CollectInv
<1> QED BY <1>1, <1>2

LEMMA CollectStep ==
    ASSUME Unambiguous, GenericsAlike, CollectInv, NEW th \in Threads,
           Step(th) \/ FinishExport(th)
           \/ \E t \in Types : Decorators(th, t) \/ Export(th, t) \/ Visit(th, t)
                 \/ \E name \in Names : ExportExcluding(th, t, name)
    PROVE  \A h \in Threads : CollectOK(stack'[h], visited'[h], exclude'[h])
<1> DEFINE s == stack[th]
           vis == visited[th]
           exc == exclude[th]
           collected == \A h \in Threads : CollectOK(stack'[h], visited'[h], exclude'[h])
<1> USE DEF At
<1>2. CallsInv /\ TypeOK
      BY DEF CollectInv, RegistryInv, CallsInv
<1>3. /\ s \in Seq(Calls) /\ CollectOK(s, vis, exc)
      /\ s # << >> => StackOK(s) /\ s[1] \in Calls /\ s[1].type \in Types
                      /\ s[1].probes \in Seq(Types) /\ s[1].keys \in Seq(Keys)
                      /\ s[1].rules \in SUBSET Derives /\ CallOK(s, 1)
  <2>1. s # << >> => (StackOK(s) => CallOK(s, 1))
    <3>1. s # << >> => 1 \in 1 .. Len(s)
          BY <1>2 DEF TypeOK
    <3> QED BY <3>1 DEF StackOK
  <2>2. s \in Seq(Calls) /\ CollectOK(s, vis, exc)
        BY <1>2 DEF CollectInv, TypeOK
  <2>3. s # << >> => StackOK(s) /\ s[1] \in Calls /\ s[1].type \in Types
                     /\ s[1].probes \in Seq(Types) /\ s[1].keys \in Seq(Keys)
                     /\ s[1].rules \in SUBSET Derives
        BY <1>2, TopCall
  <2> HIDE DEF s
  <2> QED BY <2>1, <2>2, <2>3
<1> HIDE DEF s, vis, exc
<1>4. ASSUME NEW r, stack' = [stack EXCEPT ![th] = r], CollectOK(r, vis, exc),
             visited' = visited, exclude' = exclude
      PROVE  collected
  <2>1. visited' = [visited EXCEPT ![th] = vis] /\ exclude' = [exclude EXCEPT ![th] = exc]
        BY <1>2, <1>4 DEF TypeOK, vis, exc
  <2> QED BY <1>2, <1>4, <2>1, OtherThreads
<1>5. ASSUME NEW c \in Calls, s # << >>, Become(th, c), c.type = s[1].type,
             c.at # "collect", s[1].at # "collect",
             visited' = visited, exclude' = exclude
      PROVE  collected
  <2>1. CollectOK(<<c>> \o Tail(s), vis, exc)
        BY <1>3, <1>5, BecomeBottom
  <2>2. stack' = [stack EXCEPT ![th] = <<c>> \o Tail(s)]
        BY <1>5 DEF Become, s
  <2> QED BY <1>4, <1>5, <2>1, <2>2
<1>6. ASSUME NEW rules \in SUBSET Derives, s # << >>, s[1].at # "collect",
             Len(s) > 1 /\ s[2].at = "collect" => rules = Rules[s[1].type],
             Return(th, rules), visited' = visited, exclude' = exclude
      PROVE  collected
  <2> DEFINE r == <<[s[2] EXCEPT !.rules = @ \cup rules]>> \o Tail(Tail(s))
  <2>1. stack' = [stack EXCEPT ![th] = IF Len(s) = 1 THEN << >> ELSE r]
        BY <1>6 DEF Return, s
  <2>2. CASE Len(s) = 1
    <3>1. s[Len(s)].at # "collect"
          BY <1>6, <2>2
    <3>2. CollectOK(<< >>, vis, exc)
          BY <1>3, <3>1 DEF CollectOK, Exporting
    <3> QED BY <1>4, <1>6, <2>1, <2>2, <3>2
  <2>3. CASE Len(s) # 1
    <3>1. Len(s) > 1
          BY <1>3, <1>6, <2>3, CallerExists
    <3>2. CollectOK(r, vis, exc)
          BY <1>3, <1>6, <3>1, ReturnBottom
    <3> QED BY <1>4, <1>6, <2>1, <2>3, <3>2
  <2> QED BY <2>2, <2>3
<1>7. ASSUME NEW t \in Types
      PROVE  /\ DecoratorsCall(t) \in Calls /\ DecoratorsCall(t).at = "once"
             /\ Collect(t) \in Calls /\ Collect(t).at = "collect"
             /\ Collect(t).rules = {} /\ Collect(t).type = t
             /\ \A keys \in Seq(Keys), place \in {"first", "build"} :
                   /\ Build(t, place, keys) \in Calls
                   /\ Build(t, place, keys).at = place
                   /\ Build(t, place, keys).type = t
             /\ RegistrationKeys(t) \in Seq(Keys) /\ << >> \in Seq(Keys)
  <2>1. << >> \in Seq(Keys)
        OBVIOUS
  <2> QED BY <2>1, CallTypes DEF DecoratorsCall, Collect, Build
<1>8. CASE PassOnce(th)
  <2>1. s # << >> /\ s[1].at = "once" /\ visited' = visited /\ exclude' = exclude
        BY <1>8 DEF PassOnce, s
  <2>2. \/ Become(th, Build(s[1].type, "first", RegistrationKeys(s[1].type)))
        \/ Become(th, Build(s[1].type, "build", << >>))
        BY <1>8 DEF PassOnce, s
  <2>3. s[1].type \in Types
        BY <1>3, <2>1
  <2>4. PICK keys \in Seq(Keys), place \in {"first", "build"} :
           Become(th, Build(s[1].type, place, keys))
        BY <1>7, <2>2, <2>3
  <2>5. /\ Build(s[1].type, place, keys) \in Calls
        /\ Build(s[1].type, place, keys).type = s[1].type
        /\ Build(s[1].type, place, keys).at # "collect"
        BY <1>7, <2>3
  <2> QED BY <1>5, <2>1, <2>4, <2>5
<1>9. CASE Probe(th)
  <2> DEFINE c == DecoratorsCall(Head(s[1].probes))
             d == [s[1] EXCEPT !.probes = Tail(@)]
  <2>1. /\ s # << >> /\ s[1].at \in {"first", "build"} /\ s[1].probes # << >>
        /\ visited' = visited /\ exclude' = exclude
        /\ stack' = [stack EXCEPT ![th] = <<c, d>> \o Tail(s)]
        BY <1>9 DEF Probe, s
  <2>2. Head(s[1].probes) \in Types /\ Tail(s[1].probes) \in Seq(Types)
        BY <1>3, <2>1
  <2>3. c \in Calls /\ d \in Calls /\ d.type = s[1].type /\ d.at = s[1].at
        BY <1>3, <1>7, <2>1, <2>2 DEF Calls
  <2> HIDE DEF c, d
  <2>4. CollectOK(<<c, d>> \o Tail(s), vis, exc)
        BY <1>3, <2>1, <2>3, ProbeBottom
  <2> QED BY <1>4, <2>1, <2>4
<1>10. CASE Register(th)
  <2>1. /\ s # << >> /\ s[1].at = "first"
        /\ visited' = visited /\ exclude' = exclude
        BY <1>10 DEF Register, s
  <2>2. \/ /\ Len(s[1].keys) > 1
           /\ Become(th, [s[1] EXCEPT !.keys = Tail(@)])
        \/ Become(th, Build(s[1].type, "build", << >>))
        BY <1>10 DEF Register, s
  <2>3. CASE /\ Len(s[1].keys) > 1
             /\ Become(th, [s[1] EXCEPT !.keys = Tail(@)])
    <3>1. PICK c : c = [s[1] EXCEPT !.keys = Tail(@)]
          OBVIOUS
    <3>2. Tail(s[1].keys) \in Seq(Keys)
          BY <1>3, <2>1, <2>3
    <3>3. c \in Calls /\ c.type = s[1].type /\ c.at = "first"
          BY <1>3, <2>1, <3>1, <3>2 DEF Calls
    <3> QED BY <1>5, <2>1, <2>3, <3>1, <3>3
  <2>4. CASE Become(th, Build(s[1].type, "build", << >>))
    <3>1. s[1].type \in Types
          BY <1>3, <2>1
    <3>2. /\ Build(s[1].type, "build", << >>) \in Calls
          /\ Build(s[1].type, "build", << >>).type = s[1].type
          /\ Build(s[1].type, "build", << >>).at = "build"
          BY <3>1, PassedCall
    <3> QED BY <1>5, <2>1, <2>4, <3>2
  <2> QED BY <2>2, <2>3, <2>4
<1>11. CASE Built(th)
  <2>1. /\ s # << >> /\ s[1].at = "build" /\ s[1].probes = << >>
        /\ visited' = visited /\ exclude' = exclude /\ Return(th, s[1].rules)
        BY <1>11 DEF Built, s
  <2>2. ASSUME Len(s) > 1, s[2].at = "collect"
        PROVE  s[1].rules = Rules[s[1].type]
    <3>1. s[1].rules = LinkRules[s[1].type]
          BY <1>3, <2>1, <2>2, TopReturns DEF Target, AboveExport
    <3> QED BY <1>3, <2>1, <3>1 DEF LinkRules, GenericsAlike
  <2> QED BY <1>3, <1>6, <2>1, <2>2
<1>12. CASE TryKey(th)
  <2>1. /\ s # << >> /\ s[1].at = "look"
        /\ visited' = visited /\ exclude' = exclude
        BY <1>12 DEF TryKey, s
  <2>2. \/ Become(th, [s[1] EXCEPT !.at = "build"])
        \/ s[1].keys # << >> /\ Become(th, [s[1] EXCEPT !.keys = Tail(@)])
        \/ /\ s[1].keys # << >>
           /\ \E rules \in registry[Head(s[1].keys)] : Return(th, rules)
        BY <1>12 DEF TryKey, s
  <2>3. CASE Become(th, [s[1] EXCEPT !.at = "build"])
    <3>1. PICK c : c = [s[1] EXCEPT !.at = "build"]
          OBVIOUS
    <3>2. c \in Calls /\ c.type = s[1].type /\ c.at = "build"
          BY <1>3, <2>1, <3>1 DEF Calls
    <3> QED BY <1>5, <2>1, <2>3, <3>1, <3>2
  <2>4. CASE s[1].keys # << >> /\ Become(th, [s[1] EXCEPT !.keys = Tail(@)])
    <3>1. PICK c : c = [s[1] EXCEPT !.keys = Tail(@)]
          OBVIOUS
    <3>2. Tail(s[1].keys) \in Seq(Keys)
          BY <1>3, <2>1, <2>4
    <3>3. c \in Calls /\ c.type = s[1].type /\ c.at = "look"
          BY <1>3, <2>1, <3>1, <3>2 DEF Calls
    <3> QED BY <1>5, <2>1, <2>4, <3>1, <3>3
  <2>5. CASE /\ s[1].keys # << >>
             /\ \E rules \in registry[Head(s[1].keys)] : Return(th, rules)
    <3>1. PICK rules \in registry[Head(s[1].keys)] : Return(th, rules)
          BY <2>5
    <3>2. Head(s[1].keys) \in Keys /\ Head(s[1].keys) = s[1].keys[1] /\ 1 \in 1 .. Len(s[1].keys)
          BY <1>3, <2>1, <2>5
    <3>3. OwnKey(Head(s[1].keys), s[1].type)
      <4>1. s \in Seq(LookingCalls)
            BY DEF CollectInv, s
      <4>2. s[1] \in LookingCalls
            BY <2>1, <4>1
      <4> QED BY <2>1, <3>2, <4>2 DEF LookingCalls
    <3>4. rules = Rules[s[1].type] /\ rules \in SUBSET Derives
          BY <1>2, <1>3, <2>1, <3>2, <3>3, FoundRules DEF CollectInv, TypeOK
    <3> QED BY <1>6, <2>1, <3>1, <3>4
  <2> QED BY <2>2, <2>3, <2>4, <2>5
<1>13. CASE FinishExport(th)
  <2>1. /\ stack' = [stack EXCEPT ![th] = << >>]
        /\ visited' = [visited EXCEPT ![th] = {}]
        /\ exclude' = [exclude EXCEPT ![th] = {}]
        BY <1>13 DEF FinishExport
  <2>2. CollectOK(<< >>, {}, {})
        BY DEF CollectOK, Exporting
  <2> QED BY <1>2, <2>1, <2>2, OtherThreads
<1>14. ASSUME NEW t \in Types, Decorators(th, t)
       PROVE  collected
  <2>1. /\ s = << >> /\ visited' = visited /\ exclude' = exclude
        /\ stack' = [stack EXCEPT ![th] = <<DecoratorsCall(t)>> \o s]
        BY <1>14 DEF Decorators, Idle, Push, s
  <2>2. vis = {} /\ exc = {}
        BY <1>3, <2>1 DEF CollectOK, Exporting
  <2> DEFINE r == <<DecoratorsCall(t)>> \o s
  <2>3. r \in Seq(Calls) /\ Len(r) = 1 /\ r[1] = DecoratorsCall(t)
        BY <1>7, <2>1, PushCall
  <2> HIDE DEF r
  <2>4. CollectOK(r, vis, exc)
        BY <1>7, <2>2, <2>3 DEF CollectOK, Exporting
  <2> QED BY <1>4, <2>1, <2>4 DEF r
<1>15. ASSUME NEW t \in Types, Export(th, t)
       PROVE  collected
  <2> DEFINE r == <<LookUp(t, <<t>>), Collect(t)>>
  <2>1. /\ s = << >> /\ visited' = visited /\ exclude' = exclude
        /\ stack' = [stack EXCEPT ![th] = r]
        BY <1>15 DEF Export, Idle, s
  <2>2. vis = {} /\ exc = {}
        BY <1>3, <2>1 DEF CollectOK, Exporting
  <2>3. LookUp(t, <<t>>) \in Calls /\ LookUp(t, <<t>>).type = t
        BY BeginningCalls
  <2>4. Len(r) = 2 /\ r[1] = LookUp(t, <<t>>) /\ r[2] = Collect(t) /\ r # << >>
        OBVIOUS
  <2> HIDE DEF r
  <2>5. Exporting(r) /\ Collected(r) = Rules[t]
        BY <1>7, <2>3, <2>4 DEF Exporting, Collected
  <2>6. Shown(t, {}, {}) = Rules[t]
        BY DEF Shown
  <2>7. CollectOK(r, vis, exc)
        BY <1>7, <2>2, <2>4, <2>5, <2>6 DEF CollectOK
  <2> QED BY <1>4, <2>1, <2>7
<1>16. ASSUME NEW t \in Types, NEW name \in Names, ExportExcluding(th, t, name)
       PROVE  collected
  <2>1. /\ s = << >> /\ visited' = visited
        /\ exclude' = [exclude EXCEPT ![th] = {name}]
        /\ stack' = [stack EXCEPT ![th] = <<Collect(t)>> \o s]
        BY <1>16 DEF ExportExcluding, Idle, Push, s
  <2>2. vis = {}
        BY <1>3, <2>1 DEF CollectOK, Exporting
  <2> DEFINE r == <<Collect(t)>> \o s
  <2>3. r \in Seq(Calls) /\ Len(r) = 1 /\ r[1] = Collect(t) /\ r # << >>
        BY <1>7, <2>1, PushCall
  <2> HIDE DEF r
  <2>4. Exporting(r) /\ Collected(r) = {}
        BY <1>7, <2>3 DEF Exporting, Collected
  <2>5. Shown(t, {}, {name}) = {}
        BY DEF Shown
  <2>9. r[Len(r)].type = t
        BY <1>7, <2>3
  <2>6. CollectOK(r, {}, {name})
        BY <2>4, <2>5, <2>9 DEF CollectOK
  <2>7. visited' = [visited EXCEPT ![th] = {}]
        BY <1>2, <2>1, <2>2 DEF TypeOK, vis
  <2> QED BY <1>2, <2>1, <2>6, <2>7, OtherThreads DEF r
<1>17. ASSUME NEW u \in Types, Visit(th, u)
       PROVE  collected
  <2> DEFINE name == Serialized[Derive[u]]
             t == s[1].type
  <2>1. /\ s # << >> /\ s[1].at = "collect" /\ u \in Contained[t]
        /\ visited' = [visited EXCEPT ![th] = @ \cup {name}] /\ exclude' = exclude
        /\ IF Identifies(name, Derive[u])
           THEN stack' = [stack EXCEPT ![th] = <<LookUp(u, SerializedKeys(u))>> \o s]
           ELSE stack' = stack
        BY <1>17 DEF Visit, Push, s
  <2>2. Len(s) = 1
        BY <1>3, <2>1 DEF CallOK, AboveExport
  <2>3. s[1].rules = Shown(t, vis, exc)
        BY <1>3, <2>1, <2>2 DEF CollectOK, Exporting, Collected
  <2>4. t \in Types
        BY <1>3, <2>1
  <2> DEFINE seen == vis \cup {name}
  <2>5. /\ Identifies(name, Derive[u]) => Shown(t, seen, exc) = s[1].rules \cup Rules[u]
        /\ ~Identifies(name, Derive[u]) => Shown(t, seen, exc) = s[1].rules
    <3>1. PICK more : more = Shown(t, seen, exc)
          OBVIOUS
    <3>2. /\ Identifies(name, Derive[u]) => more = Shown(t, vis, exc) \cup Rules[u]
          /\ ~Identifies(name, Derive[u]) => more = Shown(t, vis, exc)
          BY <2>1, <2>4, <3>1, ShownMore
    <3> QED BY <2>3, <3>1, <3>2
  <2>6. visited' = [visited EXCEPT ![th] = seen] /\ exclude' = [exclude EXCEPT ![th] = exc]
        BY <1>2, <2>1 DEF vis, exc, TypeOK
  <2> HIDE DEF name, seen
  <2>7. CASE Identifies(name, Derive[u])
    <3> DEFINE r == <<LookUp(u, SerializedKeys(u))>> \o s
    <3>1. LookUp(u, SerializedKeys(u)) \in Calls /\ LookUp(u, SerializedKeys(u)).type = u
          BY BeginningCalls
    <3>2. /\ r \in Seq(Calls) /\ r # << >> /\ Len(r) = 2
          /\ r[1] = LookUp(u, SerializedKeys(u)) /\ r[2] = s[1]
      <4>1. /\ r \in Seq(Calls) /\ r # << >> /\ Len(r) = Len(s) + 1
            /\ r[1] = LookUp(u, SerializedKeys(u))
            /\ \A i \in 1 .. Len(s) : r[i + 1] = s[i]
            BY <1>3, <3>1, PushCall
      <4> HIDE DEF r
      <4>2. 1 \in 1 .. Len(s) /\ 1 + 1 = 2
            BY <2>2
      <4>3. r[2] = s[1]
            BY <4>1, <4>2
      <4> QED BY <2>2, <4>1, <4>3
    <3>3. stack' = [stack EXCEPT ![th] = r]
          BY <2>1, <2>7
    <3> HIDE DEF r
    <3>4. Exporting(r) /\ Collected(r) = s[1].rules \cup Rules[u] /\ r[Len(r)].type = t
          BY <2>1, <3>1, <3>2 DEF Exporting, Collected
    <3>5. CollectOK(r, seen, exc)
          BY <2>5, <2>7, <3>4 DEF CollectOK
    <3> QED BY <1>2, <2>6, <3>3, <3>5, OtherThreads
  <2>8. CASE ~Identifies(name, Derive[u])
    <3>1. stack' = [stack EXCEPT ![th] = s]
          BY <1>2, <2>1, <2>8 DEF s, TypeOK
    <3>2. Exporting(s) /\ Collected(s) = s[1].rules /\ s[Len(s)].type = t
          BY <2>1, <2>2 DEF Exporting, Collected
    <3>3. CollectOK(s, seen, exc)
          BY <2>5, <2>8, <3>2 DEF CollectOK
    <3> QED BY <1>2, <2>6, <3>1, <3>3, OtherThreads
  <2> QED BY <2>7, <2>8
<1> QED BY <1>8, <1>9, <1>10, <1>11, <1>12, <1>13, <1>14, <1>15, <1>16, <1>17 DEF Step

LEMMA CollectAlways ==
    ASSUME Unambiguous, GenericsAlike
    PROVE  Spec => []CollectInv
<1>1. Init => CollectInv
  <2> SUFFICES ASSUME Init PROVE CollectInv
      OBVIOUS
  <2>1. \A th \in Threads : CollectOK(stack[th], visited[th], exclude[th])
        BY DEF Init, CollectOK, Exporting
  <2>2. stack \in [Threads -> Seq(LookingCalls)]
        BY DEF Init
  <2> QED BY <2>1, <2>2, RegistryInit DEF CollectInv
<1>2. CollectInv /\ UNCHANGED vars => CollectInv'
      BY RegistryStutter DEF CollectInv, vars
<1>3. CollectInv /\ Next => CollectInv'
  <2> SUFFICES ASSUME CollectInv, NEW th \in Threads,
                      Step(th) \/ FinishExport(th)
                      \/ \E t \in Types : Decorators(th, t) \/ Export(th, t) \/ Visit(th, t)
                            \/ \E name \in Names : ExportExcluding(th, t, name)
               PROVE  CollectInv'
      BY DEF Next
  <2>1. RegistryInv'
        BY RegistryStep DEF CollectInv
  <2>2. stack' \in [Threads -> Seq(LookingCalls)]
        BY LookingStep
  <2>3. \A h \in Threads : CollectOK(stack'[h], visited'[h], exclude'[h])
        BY CollectStep
  <2> QED BY <2>1, <2>2, <2>3 DEF CollectInv
<1> QED BY <1>1, <1>2, <1>3, PTL DEF Spec

(* What an export shows is decided by the value, neither by the calls before it
   nor by those of other threads, when no two types that the value's serialized
   names tell apart share an identifier, and generic types need no derive of
   their parameters: for any such types and any number of threads. *)
THEOREM CollectedByValue ==
    ASSUME Unambiguous, GenericsAlike
    PROVE  Spec => []CollectedDependsOnValueOnly
<1>1. CollectInv => CollectedDependsOnValueOnly
  <2> SUFFICES ASSUME CollectInv, NEW th \in Threads, At(th, "collect")
               PROVE  stack[th][1].rules =
                         Shown(stack[th][1].type, visited[th], exclude[th])
      BY DEF CollectedDependsOnValueOnly, Shown
  <2>1. PICK s : s = stack[th]
        OBVIOUS
  <2>2. s # << >> /\ s[1].at = "collect" /\ s \in Seq(Calls) /\ StackOK(s)
        BY <2>1, TopCall DEF At, CollectInv, RegistryInv
  <2>3. CallOK(s, 1)
        BY <2>2 DEF StackOK
  <2>4. Len(s) = 1
        BY <2>2, <2>3 DEF CallOK
  <2>5. CollectOK(s, visited[th], exclude[th])
        BY <2>1 DEF CollectInv
  <2>6. s[1].rules = Shown(s[1].type, visited[th], exclude[th])
        BY <2>2, <2>4, <2>5 DEF CollectOK, Exporting, Collected
  <2> QED BY <2>1, <2>6
<1> QED BY <1>1, CollectAlways, PTL

=============================================================================
