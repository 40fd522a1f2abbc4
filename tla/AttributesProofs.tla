-------------------------- MODULE AttributesProofs --------------------------
(* For types with any number of attributes, from any catalogue, with any rules
   of field types and any types met: the model's types are right; given that
   each attribute alone is read as it is meant, the rules that the expansion
   builds are those of the attributes in order, with their sources; and an
   export's merge holds one rule for all that say the same, the first. *)
EXTENDS AttributeMeaning, SequenceTheorems, FiniteSetTheorems, WellFoundedInduction, TLAPS

-----------------------------------------------------------------------------
(* Induction on a set of numbers, from the well-foundedness of strict
   inclusion: the least number that is missing from S would be the least
   interval that ends outside. *)
LEMMA SetInduction ==
    ASSUME NEW S \in SUBSET Nat, 0 \in S, \A n \in S : n + 1 \in S
    PROVE  S = Nat
<1> DEFINE T == {0 .. n : n \in Nat \ S}
           R == StrictSubsetOrdering(Nat)
<1>1. SUFFICES ASSUME S # Nat PROVE FALSE
      OBVIOUS
<1>2. IsWellFoundedOn(R, FiniteSubsetsOf(Nat))
      BY FS_StrictSubsetOrderingWellFounded
<1>3. T \subseteq FiniteSubsetsOf(Nat)
  <2>1. \A n \in Nat : 0 .. n \in SUBSET Nat /\ IsFiniteSet(0 .. n)
        BY FS_Interval
  <2> QED BY <2>1 DEF FiniteSubsetsOf
<1>4. T # {}
      BY <1>1
<1> HIDE DEF T, R
<1>5. PICK I \in T : \A J \in T : <<J, I>> \notin R
      BY <1>2, <1>3, <1>4, WFMin
<1>6. PICK n \in Nat \ S : I = 0 .. n
      BY DEF T
<1>7. n # 0 /\ n - 1 \in Nat \ S
      OBVIOUS
<1>8. 0 .. n - 1 \in T
      BY <1>7 DEF T
<1>9. <<0 .. n - 1, 0 .. n>> \in R
  <2>1. /\ 0 .. n - 1 \subseteq 0 .. n /\ 0 .. n \subseteq Nat
        /\ n \in 0 .. n /\ n \notin 0 .. n - 1
        BY <1>7
  <2> QED BY <2>1 DEF R, StrictSubsetOrdering
<1> QED BY <1>5, <1>6, <1>8, <1>9

-----------------------------------------------------------------------------
(* Lists: sequences of whatever they hold *)

LEMMA ListIn ==
    ASSUME NEW s, IsList(s), NEW T, ToSet(s) \subseteq T
    PROVE  s \in Seq(T)
<1>1. /\ Len(s) \in Nat /\ s \in [1 .. Len(s) -> ToSet(s)]
      BY DEF IsList
<1>2. s \in [1 .. Len(s) -> T]
      BY <1>1
<1> QED BY <1>1, <1>2

LEMMA SeqIsList ==
    ASSUME NEW T, NEW s \in Seq(T)
    PROVE  IsList(s) /\ ToSet(s) \subseteq T
<1>1. Len(s) \in Nat /\ s \in [1 .. Len(s) -> T] /\ DOMAIN s = 1 .. Len(s)
      OBVIOUS
<1>2. s \in [1 .. Len(s) -> ToSet(s)] /\ ToSet(s) \subseteq T
      BY <1>1 DEF ToSet
<1> QED BY <1>1, <1>2 DEF IsList

LEMMA ListShape ==
    ASSUME NEW s, IsList(s)
    PROVE  /\ Len(s) \in Nat /\ DOMAIN s = 1 .. Len(s)
           /\ s = [n \in 1 .. Len(s) |-> s[n]]
           /\ \A n \in 1 .. Len(s) : s[n] \in ToSet(s)
           /\ \A x \in ToSet(s) : \E n \in 1 .. Len(s) : s[n] = x
<1>1. s \in Seq(ToSet(s))
      BY DEF IsList
<1>2. Len(s) \in Nat /\ DOMAIN s = 1 .. Len(s) /\ s = [n \in 1 .. Len(s) |-> s[n]]
      BY <1>1
<1> QED BY <1>2 DEF ToSet

LEMMA ListMade ==
    ASSUME NEW n \in Nat, NEW s, s = [i \in 1 .. n |-> s[i]]
    PROVE  IsList(s) /\ Len(s) = n
<1>1. s \in [1 .. n -> ToSet(s)] /\ DOMAIN s = 1 .. n
      BY DEF ToSet
<1>2. s \in Seq(ToSet(s))
      BY <1>1
<1> QED BY <1>1, <1>2 DEF IsList

LEMMA EmptyList == IsList(<< >>) /\ ToSet(<< >>) = {} /\ Len(<< >>) = 0
<1>1. ToSet(<< >>) = {}
      BY DEF ToSet
<1> QED BY <1>1 DEF IsList

LEMMA ListAppend ==
    ASSUME NEW s, IsList(s), NEW x
    PROVE  /\ IsList(Append(s, x)) /\ Len(Append(s, x)) = Len(s) + 1
           /\ ToSet(Append(s, x)) = ToSet(s) \cup {x}
           /\ Append(s, x)[Len(s) + 1] = x
           /\ \A n \in 1 .. Len(s) : Append(s, x)[n] = s[n]
<1> DEFINE T == ToSet(s) \cup {x}
           a == Append(s, x)
<1>1. s \in Seq(T) /\ x \in T
      BY ListIn
<1>2. /\ a \in Seq(T) /\ Len(a) = Len(s) + 1 /\ a[Len(s) + 1] = x
      /\ \A n \in 1 .. Len(s) : a[n] = s[n]
  <2> HIDE DEF T
  <2> QED BY <1>1, AppendProperties
<1>3. IsList(a) /\ ToSet(a) \subseteq T
  <2> HIDE DEF T, a
  <2> QED BY <1>2, SeqIsList
<1>4. /\ Len(s) \in Nat /\ DOMAIN s = 1 .. Len(s)
      /\ \A y \in ToSet(s) : \E n \in 1 .. Len(s) : s[n] = y
      BY ListShape
<1> HIDE DEF a
<1>5. DOMAIN a = 1 .. Len(s) + 1
      BY <1>2, <1>3, ListShape
<1>6. T \subseteq ToSet(a)
  <2>1. Len(s) + 1 \in DOMAIN a /\ \A n \in 1 .. Len(s) : n \in DOMAIN a
        BY <1>4, <1>5
  <2> QED BY <1>2, <1>4, <2>1 DEF ToSet
<1> QED BY <1>2, <1>3, <1>6 DEF a

LEMMA ListConcat ==
    ASSUME NEW s, IsList(s), NEW t, IsList(t)
    PROVE  /\ IsList(s \o t) /\ Len(s \o t) = Len(s) + Len(t)
           /\ ToSet(s \o t) = ToSet(s) \cup ToSet(t)
           /\ \A n \in 1 .. Len(s) : (s \o t)[n] = s[n]
           /\ \A n \in 1 .. Len(t) : (s \o t)[Len(s) + n] = t[n]
<1> DEFINE T == ToSet(s) \cup ToSet(t)
           c == s \o t
<1>1. s \in Seq(T) /\ t \in Seq(T)
      BY ListIn
<1>2. Len(s) \in Nat /\ Len(t) \in Nat /\ DOMAIN s = 1 .. Len(s) /\ DOMAIN t = 1 .. Len(t)
      BY ListShape
<1>3. /\ c \in Seq(T) /\ Len(c) = Len(s) + Len(t)
      /\ \A n \in 1 .. Len(s) + Len(t) : c[n] = IF n <= Len(s) THEN s[n] ELSE t[n - Len(s)]
  <2> HIDE DEF T
  <2> QED BY ONLY <1>1, ConcatProperties
<1> HIDE DEF T, c
<1>4. IsList(c) /\ ToSet(c) \subseteq T
      BY <1>3, SeqIsList
<1>5. DOMAIN c = 1 .. Len(s) + Len(t)
      BY <1>3, <1>4, ListShape
<1>6. \A n \in 1 .. Len(s) : c[n] = s[n]
      BY <1>2, <1>3
<1>7. \A n \in 1 .. Len(t) : c[Len(s) + n] = t[n]
  <2> TAKE n \in 1 .. Len(t)
  <2> HIDE DEF c
  <2>1. PICK m \in 1 .. Len(s) + Len(t) : m = Len(s) + n /\ ~(m <= Len(s)) /\ m - Len(s) = n
        BY <1>2
  <2>2. c[m] = t[m - Len(s)]
        BY <1>3, <2>1
  <2> QED BY <2>1, <2>2
<1>8. T \subseteq ToSet(c)
  <2>1. ASSUME NEW y \in ToSet(s) PROVE y \in ToSet(c)
    <3>1. PICK n \in 1 .. Len(s) : s[n] = y
          BY ListShape
    <3>2. n \in DOMAIN c /\ c[n] = y
          BY <1>2, <1>5, <1>6, <3>1
    <3> QED BY <3>2 DEF ToSet
  <2>2. ASSUME NEW y \in ToSet(t) PROVE y \in ToSet(c)
    <3>1. PICK n \in 1 .. Len(t) : t[n] = y
          BY ListShape
    <3>2. Len(s) + n \in DOMAIN c /\ c[Len(s) + n] = y
          BY <1>2, <1>5, <1>7, <3>1
    <3> QED BY <3>2 DEF ToSet
  <2> QED BY <2>1, <2>2 DEF T
<1>9. ToSet(c) = T
      BY <1>4, <1>8
<1> QED BY <1>3, <1>4, <1>6, <1>7, <1>9 DEF T, c

LEMMA ThreeLists ==
    ASSUME NEW x, IsList(x), NEW y, IsList(y), NEW z, IsList(z)
    PROVE  (x \o y) \o z = x \o (y \o z)
<1> DEFINE T == ToSet(x) \cup ToSet(y) \cup ToSet(z)
<1>1. x \in Seq(T) /\ y \in Seq(T) /\ z \in Seq(T)
      BY ListIn
<1> HIDE DEF T
<1> QED BY ONLY <1>1, ConcatAssociative

LEMMA SameLists ==
    ASSUME NEW s, IsList(s), NEW t, IsList(t), Len(s) = Len(t),
           \A n \in 1 .. Len(s) : s[n] = t[n]
    PROVE  s = t
<1>1. s = [n \in 1 .. Len(s) |-> s[n]] /\ t = [n \in 1 .. Len(t) |-> t[n]]
      BY ListShape
<1> QED BY <1>1

-----------------------------------------------------------------------------
(* FlattenSeq and ExtendList are defined by recursion; these are the facts
   about them. *)

Joins(f, pieces, n) ==
    f = [i \in 1 .. n |-> IF i = 1 THEN pieces[i] ELSE f[i - 1] \o pieces[i]]

LEMMA JoinExists ==
    ASSUME NEW pieces, NEW m \in Nat
    PROVE  \E f : Joins(f, pieces, m)
<1> DEFINE S == {n \in Nat : \E f : Joins(f, pieces, n)}
<1>1. 0 \in S
  <2> DEFINE f == [i \in 1 .. 0 |-> << >>]
  <2>1. f = [i \in 1 .. 0 |-> IF i = 1 THEN pieces[i] ELSE f[i - 1] \o pieces[i]]
        OBVIOUS
  <2> QED BY <2>1 DEF Joins
<1>2. ASSUME NEW n \in S PROVE n + 1 \in S
  <2>1. PICK f : Joins(f, pieces, n)
        OBVIOUS
  <2> DEFINE g == [i \in 1 .. n + 1 |->
                     IF i <= n THEN f[i]
                     ELSE IF i = 1 THEN pieces[i] ELSE f[i - 1] \o pieces[i]]
  <2>2. \A i \in 1 .. n + 1 :
           g[i] = IF i = 1 THEN pieces[i] ELSE g[i - 1] \o pieces[i]
    <3> TAKE i \in 1 .. n + 1
    <3>1. \A k \in 1 .. n : f[k] = IF k = 1 THEN pieces[k] ELSE f[k - 1] \o pieces[k]
          BY <2>1 DEF Joins
    <3>2. CASE i <= n
      <4>1. i \in 1 .. n /\ g[i] = f[i]
            BY <3>2
      <4>2. i # 1 => g[i - 1] = f[i - 1]
            BY <3>2
      <4> HIDE DEF g
      <4> QED BY <3>1, <4>1, <4>2
    <3>3. CASE ~(i <= n)
      <4>1. g[i] = IF i = 1 THEN pieces[i] ELSE f[i - 1] \o pieces[i]
            BY <3>3
      <4>2. i # 1 => g[i - 1] = f[i - 1]
            BY <3>3
      <4> HIDE DEF g
      <4> QED BY <4>1, <4>2
    <3> QED BY <3>2, <3>3
  <2>3. Joins(g, pieces, n + 1)
    <3>1. g = [i \in 1 .. n + 1 |-> g[i]]
          OBVIOUS
    <3> HIDE DEF g
    <3> QED BY <2>2, <3>1 DEF Joins
  <2> QED BY <2>3
<1> HIDE DEF S
<1>3. S = Nat
  <2>1. S \in SUBSET Nat
        BY DEF S
  <2> QED BY <1>1, <1>2, <2>1, SetInduction
<1> QED BY <1>3 DEF S

LEMMA FlattenDef ==
    ASSUME NEW pieces, Len(pieces) \in Nat, Len(pieces) # 0
    PROVE  \E f : Joins(f, pieces, Len(pieces)) /\ FlattenSeq(pieces) = f[Len(pieces)]
<1> DEFINE f == CHOOSE f : Joins(f, pieces, Len(pieces))
<1>1. Joins(f, pieces, Len(pieces))
      BY JoinExists
<1>2. FlattenSeq(pieces) = f[Len(pieces)]
      BY DEF FlattenSeq, Joins
<1> QED BY <1>1, <1>2

LEMMA JoinStep ==
    ASSUME NEW f, NEW pieces, NEW n \in Nat, Joins(f, pieces, n)
    PROVE  /\ n # 0 => f[1] = pieces[1]
           /\ \A i \in Nat \ {0} : i < n => f[i + 1] = f[i] \o pieces[i + 1]
<1>1. \A k \in 1 .. n : f[k] = IF k = 1 THEN pieces[k] ELSE f[k - 1] \o pieces[k]
      BY DEF Joins
<1>2. n # 0 => f[1] = pieces[1]
      BY <1>1
<1>3. ASSUME NEW i \in Nat \ {0}, i < n PROVE f[i + 1] = f[i] \o pieces[i + 1]
  <2>1. PICK k \in 1 .. n : k = i + 1 /\ k # 1 /\ k - 1 = i
        BY <1>3
  <2>2. f[k] = f[k - 1] \o pieces[k]
        BY <1>1, <2>1
  <2> QED BY <2>1, <2>2
<1> QED BY <1>2, <1>3

(* The concatenation of the first n *)
Joined(pieces, n) == FlattenSeq([i \in 1 .. n |-> pieces[i]])

LEMMA PrefixList ==
    ASSUME NEW pieces, NEW n \in Nat
    PROVE  Len([i \in 1 .. n |-> pieces[i]]) = n
<1> DEFINE s == [i \in 1 .. n |-> pieces[i]]
<1>1. s = [i \in 1 .. n |-> s[i]]
      OBVIOUS
<1> HIDE DEF s
<1>2. Len(s) = n
      BY <1>1, ListMade
<1> QED BY <1>2 DEF s

LEMMA JoinedNone ==
    ASSUME NEW pieces
    PROVE  Joined(pieces, 0) = << >>
<1> DEFINE s == [i \in 1 .. 0 |-> pieces[i]]
<1>1. Len(s) = 0
      BY PrefixList
<1>2. s = << >>
      OBVIOUS
<1> HIDE DEF s
<1>3. FlattenSeq(s) = << >>
      BY <1>1, <1>2 DEF FlattenSeq
<1> QED BY <1>3 DEF Joined, s

LEMMA JoinedOne ==
    ASSUME NEW pieces
    PROVE  Joined(pieces, 1) = pieces[1]
<1> DEFINE s == [i \in 1 .. 1 |-> pieces[i]]
<1>1. Len(s) = 1 /\ s[1] = pieces[1]
      BY PrefixList
<1> HIDE DEF s
<1>2. Len(s) \in Nat /\ Len(s) # 0
      BY <1>1
<1>3. PICK f : Joins(f, s, Len(s)) /\ FlattenSeq(s) = f[Len(s)]
      BY <1>2, FlattenDef
<1>4. f[1] = s[1]
      BY <1>2, <1>3, JoinStep
<1> QED BY <1>1, <1>3, <1>4 DEF Joined, s

LEMMA JoinedMany ==
    ASSUME NEW pieces, NEW n \in Nat, n # 0
    PROVE  Joined(pieces, n + 1) = Joined(pieces, n) \o pieces[n + 1]
<1> DEFINE s == [i \in 1 .. n |-> pieces[i]]
           t == [i \in 1 .. n + 1 |-> pieces[i]]
<1>1. Len(s) = n /\ Len(t) = n + 1
      BY PrefixList
<1>2. /\ \A i \in 1 .. n : s[i] = pieces[i]
      /\ \A i \in 1 .. n + 1 : t[i] = pieces[i]
      OBVIOUS
<1> HIDE DEF s, t
<1>3. PICK f : Joins(f, s, n) /\ FlattenSeq(s) = f[n]
      BY <1>1, FlattenDef
<1>4. PICK g : Joins(g, t, n + 1) /\ FlattenSeq(t) = g[n + 1]
      BY <1>1, FlattenDef
<1>5. f[1] = s[1] /\ \A i \in Nat \ {0} : i < n => f[i + 1] = f[i] \o s[i + 1]
      BY <1>3, JoinStep
<1>6. g[1] = t[1] /\ \A i \in Nat \ {0} : i < n + 1 => g[i + 1] = g[i] \o t[i + 1]
  <2>1. n + 1 \in Nat /\ n + 1 # 0
        OBVIOUS
  <2> QED BY <1>4, <2>1, JoinStep
<1> DEFINE S == {i \in Nat : i # 0 /\ i <= n => f[i] = g[i]}
<1>7. 0 \in S
      OBVIOUS
<1>8. ASSUME NEW i \in S PROVE i + 1 \in S
  <2>1. CASE i = 0
    <3>1. f[1] = g[1]
          BY <1>2, <1>5, <1>6
    <3> QED BY <2>1, <3>1
  <2>2. CASE i # 0 /\ i + 1 <= n
    <3>1. /\ i \in Nat \ {0} /\ i < n /\ i < n + 1
          /\ i + 1 \in 1 .. n /\ i + 1 \in 1 .. n + 1
          BY <2>2
    <3>2. f[i + 1] = f[i] \o s[i + 1] /\ g[i + 1] = g[i] \o t[i + 1]
          BY <1>5, <1>6, <3>1
    <3>3. f[i] = g[i] /\ s[i + 1] = t[i + 1]
          BY <1>2, <3>1
    <3>4. f[i + 1] = g[i + 1]
          BY <3>2, <3>3
    <3> QED BY <3>4
  <2>3. CASE i # 0 /\ ~(i + 1 <= n)
        BY <2>3
  <2> QED BY <2>1, <2>2, <2>3
<1> HIDE DEF S
<1>9. S = Nat
  <2>1. S \in SUBSET Nat
        BY DEF S
  <2> QED BY <1>7, <1>8, <2>1, SetInduction
<1>10. f[n] = g[n]
      BY <1>9 DEF S
<1>11. n \in Nat \ {0} /\ n < n + 1 /\ n + 1 \in 1 .. n + 1
      OBVIOUS
<1>12. g[n + 1] = g[n] \o pieces[n + 1]
      BY <1>2, <1>6, <1>11
<1>13. FlattenSeq(t) = FlattenSeq(s) \o pieces[n + 1]
      BY <1>3, <1>4, <1>10, <1>12
<1> QED BY <1>13 DEF Joined, s, t

LEMMA JoinedMore ==
    ASSUME NEW pieces, NEW n \in Nat, IsList(pieces[n + 1])
    PROVE  Joined(pieces, n + 1) = Joined(pieces, n) \o pieces[n + 1]
<1>1. CASE n = 0
  <2>1. << >> \o pieces[1] = pieces[1]
        BY <1>1 DEF IsList
  <2>2. Joined(pieces, 1) = pieces[1] /\ Joined(pieces, 0) = << >>
        BY JoinedOne, JoinedNone
  <2>3. n + 1 = 1
        BY <1>1
  <2> QED BY ONLY <1>1, <2>1, <2>2, <2>3
<1>2. CASE n # 0
      BY <1>2, JoinedMany
<1> QED BY <1>1, <1>2

LEMMA JoinedType ==
    ASSUME NEW pieces, NEW m \in Nat, NEW T,
           \A i \in 1 .. m : IsList(pieces[i]) /\ ToSet(pieces[i]) \subseteq T
    PROVE  IsList(Joined(pieces, m)) /\ ToSet(Joined(pieces, m)) \subseteq T
<1> DEFINE Typed(s) == IsList(s) /\ ToSet(s) \subseteq T
           S == {n \in Nat : n <= m => Typed(Joined(pieces, n))}
<1>1. 0 \in S
      BY JoinedNone, EmptyList
<1>2. ASSUME NEW n \in S PROVE n + 1 \in S
  <2>1. SUFFICES ASSUME n + 1 <= m PROVE Typed(Joined(pieces, n + 1))
        OBVIOUS
  <2>2. n \in Nat /\ Typed(Joined(pieces, n)) /\ Typed(pieces[n + 1])
        BY <2>1
  <2>3. Joined(pieces, n + 1) = Joined(pieces, n) \o pieces[n + 1]
        BY <2>2, JoinedMore
  <2>4. Typed(Joined(pieces, n) \o pieces[n + 1])
        BY <2>2, ListConcat
  <2> QED BY <2>3, <2>4
<1> HIDE DEF S
<1>3. S = Nat
  <2>1. S \in SUBSET Nat
        BY DEF S
  <2> QED BY <1>1, <1>2, <2>1, SetInduction
<1> QED BY <1>3 DEF S

Grows(f, rules, others, n) ==
    f = [i \in 0 .. n |-> IF i = 0 THEN rules ELSE AppendUnique(f[i - 1], others[i])]

LEMMA GrowthExists ==
    ASSUME NEW rules, NEW others, NEW m \in Nat
    PROVE  \E f : Grows(f, rules, others, m)
<1> DEFINE S == {n \in Nat : \E f : Grows(f, rules, others, n)}
<1>1. 0 \in S
  <2> DEFINE f == [i \in 0 .. 0 |-> rules]
  <2>1. f = [i \in 0 .. 0 |-> IF i = 0 THEN rules ELSE AppendUnique(f[i - 1], others[i])]
        OBVIOUS
  <2> QED BY <2>1 DEF Grows
<1>2. ASSUME NEW n \in S PROVE n + 1 \in S
  <2>1. PICK f : Grows(f, rules, others, n)
        OBVIOUS
  <2> DEFINE g == [i \in 0 .. n + 1 |->
                     IF i <= n THEN f[i] ELSE AppendUnique(f[i - 1], others[i])]
  <2>2. \A i \in 0 .. n + 1 :
           g[i] = IF i = 0 THEN rules ELSE AppendUnique(g[i - 1], others[i])
    <3> TAKE i \in 0 .. n + 1
    <3>1. \A k \in 0 .. n : f[k] = IF k = 0 THEN rules ELSE AppendUnique(f[k - 1], others[k])
          BY <2>1 DEF Grows
    <3>2. i # 0 => g[i - 1] = f[i - 1]
          OBVIOUS
    <3>3. CASE i <= n
      <4>1. i \in 0 .. n /\ g[i] = f[i]
            BY <3>3
      <4> HIDE DEF g
      <4> QED BY <3>1, <3>2, <4>1
    <3>4. CASE ~(i <= n)
      <4>1. g[i] = AppendUnique(f[i - 1], others[i]) /\ i # 0
            BY <3>4
      <4> HIDE DEF g
      <4> QED BY <3>2, <4>1
    <3> QED BY <3>3, <3>4
  <2>3. Grows(g, rules, others, n + 1)
    <3>1. g = [i \in 0 .. n + 1 |-> g[i]]
          OBVIOUS
    <3> HIDE DEF g
    <3> QED BY <2>2, <3>1 DEF Grows
  <2> QED BY <2>3
<1> HIDE DEF S
<1>3. S = Nat
  <2>1. S \in SUBSET Nat
        BY DEF S
  <2> QED BY <1>1, <1>2, <2>1, SetInduction
<1> QED BY <1>3 DEF S

LEMMA ExtendDef ==
    ASSUME NEW rules, NEW others, Len(others) \in Nat
    PROVE  \E f : Grows(f, rules, others, Len(others))
                  /\ ExtendList(rules, others) = f[Len(others)]
<1> DEFINE f == CHOOSE f : Grows(f, rules, others, Len(others))
<1>1. Grows(f, rules, others, Len(others))
      BY GrowthExists
<1>2. ExtendList(rules, others) = f[Len(others)]
      BY DEF ExtendList, Grows
<1> QED BY <1>1, <1>2

LEMMA GrowthStep ==
    ASSUME NEW f, NEW rules, NEW others, NEW n \in Nat, Grows(f, rules, others, n)
    PROVE  /\ f[0] = rules
           /\ \A i \in Nat : i < n => f[i + 1] = AppendUnique(f[i], others[i + 1])
<1>1. \A k \in 0 .. n : f[k] = IF k = 0 THEN rules ELSE AppendUnique(f[k - 1], others[k])
      BY DEF Grows
<1>2. f[0] = rules
      BY <1>1
<1>3. ASSUME NEW i \in Nat, i < n PROVE f[i + 1] = AppendUnique(f[i], others[i + 1])
  <2>1. PICK k \in 0 .. n : k = i + 1 /\ k # 0 /\ k - 1 = i
        BY <1>3
  <2>2. f[k] = AppendUnique(f[k - 1], others[k])
        BY <1>1, <2>1
  <2> QED BY <2>1, <2>2
<1> QED BY <1>2, <1>3

-----------------------------------------------------------------------------
(* extend_unique keeps the first of the rules that say the same. *)

MergeOf(merged, met) == IsList(merged) /\ IsList(met) /\ FirstOfEach(merged, met)

LEMMA OneMore ==
    ASSUME NEW merged, NEW met, NEW rule, MergeOf(merged, met)
    PROVE  MergeOf(AppendUnique(merged, rule), Append(met, rule))
<1> DEFINE all == Append(met, rule)
           new == Append(merged, rule)
<1>1. IsList(merged) /\ IsList(met) /\ FirstOfEach(merged, met)
      BY DEF MergeOf
<1>2. /\ IsList(all) /\ Len(all) = Len(met) + 1
      /\ ToSet(all) = ToSet(met) \cup {rule} /\ all[Len(met) + 1] = rule
      /\ \A n \in 1 .. Len(met) : all[n] = met[n]
      BY <1>1, ListAppend
<1>3. /\ IsList(new) /\ Len(new) = Len(merged) + 1
      /\ ToSet(new) = ToSet(merged) \cup {rule} /\ new[Len(merged) + 1] = rule
      /\ \A n \in 1 .. Len(merged) : new[n] = merged[n]
      BY <1>1, ListAppend
<1> HIDE DEF all, new
<1>4. /\ Len(met) \in Nat /\ DOMAIN met = 1 .. Len(met) /\ DOMAIN all = 1 .. Len(met) + 1
      /\ Len(merged) \in Nat /\ DOMAIN merged = 1 .. Len(merged)
      /\ DOMAIN new = 1 .. Len(merged) + 1
      BY <1>1, <1>2, <1>3, ListShape
<1>5. /\ ToSet(merged) \subseteq ToSet(met)
      /\ \A m, n \in DOMAIN merged : SameRule(merged[m], merged[n]) => m = n
      /\ \A n \in DOMAIN met :
            (\A m \in 1 .. n - 1 : ~SameRule(met[m], met[n])) => met[n] \in ToSet(merged)
      BY <1>1 DEF FirstOfEach
<1>6. ASSUME NEW n \in 1 .. Len(met), \A m \in 1 .. n - 1 : ~SameRule(all[m], all[n])
      PROVE  all[n] \in ToSet(merged)
  <2>1. all[n] = met[n] /\ \A m \in 1 .. n - 1 : all[m] = met[m]
        BY <1>2, <1>4
  <2>2. \A m \in 1 .. n - 1 : ~SameRule(met[m], met[n])
        BY <1>6, <2>1
  <2> QED BY <1>4, <1>5, <2>1, <2>2
<1>7. CASE \E k \in DOMAIN merged : SameRule(merged[k], rule)
  <2>1. AppendUnique(merged, rule) = merged
        BY <1>7 DEF AppendUnique
  <2>2. PICK k \in DOMAIN merged : SameRule(merged[k], rule)
        BY <1>7
  <2>3. PICK j \in 1 .. Len(met) : met[j] = merged[k]
    <3>1. merged[k] \in ToSet(met)
          BY <1>4, <1>5, <2>2 DEF ToSet
    <3> QED BY <1>1, <3>1, ListShape
  <2>4. \A n \in DOMAIN all :
           (\A m \in 1 .. n - 1 : ~SameRule(all[m], all[n])) => all[n] \in ToSet(merged)
    <3> SUFFICES ASSUME NEW n \in DOMAIN all, \A m \in 1 .. n - 1 : ~SameRule(all[m], all[n])
                 PROVE  all[n] \in ToSet(merged)
        OBVIOUS
    <3>1. CASE n <= Len(met)
      <4>1. n \in 1 .. Len(met)
            BY <1>4, <3>1
      <4> QED BY <1>6, <4>1
    <3>2. CASE n = Len(met) + 1
      <4>1. j \in 1 .. n - 1 /\ all[j] = merged[k] /\ all[n] = rule
            BY <1>2, <1>4, <2>3, <3>2
      <4>2. SameRule(all[j], all[n])
            BY <2>2, <4>1
      <4> QED BY <4>1, <4>2
    <3> QED BY <1>4, <3>1, <3>2
  <2>5. FirstOfEach(merged, all)
        BY <1>2, <1>5, <2>4 DEF FirstOfEach
  <2> QED BY <1>1, <1>2, <2>1, <2>5 DEF MergeOf, all
<1>8. CASE ~\E k \in DOMAIN merged : SameRule(merged[k], rule)
  <2>1. AppendUnique(merged, rule) = new
        BY <1>8 DEF AppendUnique, new
  <2>2. ToSet(new) \subseteq ToSet(all)
        BY <1>2, <1>3, <1>5
  <2>3. \A m, n \in DOMAIN new : SameRule(new[m], new[n]) => m = n
    <3> SUFFICES ASSUME NEW m \in DOMAIN new, NEW n \in DOMAIN new, SameRule(new[m], new[n])
                 PROVE  m = n
        OBVIOUS
    <3>1. \A i \in DOMAIN new : i \in DOMAIN merged \/ i = Len(merged) + 1
          BY <1>4
    <3>2. /\ \A i \in DOMAIN merged : new[i] = merged[i]
          /\ new[Len(merged) + 1] = rule
          BY <1>3, <1>4
    <3>3. SameRule(new[n], new[m])
          BY DEF SameRule
    <3> QED BY <1>5, <1>8, <3>1, <3>2, <3>3
  <2>4. \A n \in DOMAIN all :
           (\A m \in 1 .. n - 1 : ~SameRule(all[m], all[n])) => all[n] \in ToSet(new)
    <3> SUFFICES ASSUME NEW n \in DOMAIN all, \A m \in 1 .. n - 1 : ~SameRule(all[m], all[n])
                 PROVE  all[n] \in ToSet(new)
        OBVIOUS
    <3>1. CASE n <= Len(met)
      <4>1. n \in 1 .. Len(met)
            BY <1>4, <3>1
      <4> QED BY <1>3, <1>6, <4>1
    <3>2. CASE n = Len(met) + 1
          BY <1>2, <1>3, <3>2
    <3> QED BY <1>4, <3>1, <3>2
  <2>5. FirstOfEach(new, all)
        BY <2>2, <2>3, <2>4 DEF FirstOfEach
  <2> QED BY <1>2, <1>3, <2>1, <2>5 DEF MergeOf, all
<1> QED BY <1>7, <1>8

LEMMA ListMerged ==
    ASSUME NEW merged, NEW met, MergeOf(merged, met), NEW others, IsList(others)
    PROVE  MergeOf(ExtendList(merged, others), met \o others)
<1> DEFINE prefix(n) == [i \in 1 .. n |-> others[i]]
<1>1. Len(others) \in Nat /\ others = prefix(Len(others)) /\ IsList(met)
      BY ListShape DEF MergeOf
<1>2. PICK f : /\ Grows(f, merged, others, Len(others))
               /\ ExtendList(merged, others) = f[Len(others)]
      BY <1>1, ExtendDef
<1>3. /\ f[0] = merged
      /\ \A i \in Nat : i < Len(others) => f[i + 1] = AppendUnique(f[i], others[i + 1])
      BY <1>1, <1>2, GrowthStep
<1>4. \A n \in Nat : IsList(prefix(n)) /\ Len(prefix(n)) = n
  <2> TAKE n \in Nat
  <2>1. PICK s : s = prefix(n)
        OBVIOUS
  <2>2. s = [i \in 1 .. n |-> s[i]]
        BY <2>1
  <2>3. IsList(s) /\ Len(s) = n
        BY <2>2, ListMade
  <2> QED BY <2>1, <2>3
<1>5. \A n \in Nat : \A i \in 1 .. n : prefix(n)[i] = others[i]
      OBVIOUS
<1>6. prefix(0) = << >>
      OBVIOUS
<1> HIDE DEF prefix
<1>7. ASSUME NEW n \in Nat
      PROVE  met \o prefix(n + 1) = Append(met \o prefix(n), others[n + 1])
  <2> PICK p : p = prefix(n)
        OBVIOUS
  <2> PICK q : q = prefix(n + 1)
        OBVIOUS
  <2>1. /\ IsList(p) /\ Len(p) = n /\ \A i \in 1 .. n : p[i] = others[i]
        /\ IsList(q) /\ Len(q) = n + 1 /\ \A i \in 1 .. n + 1 : q[i] = others[i]
    <3>1. n + 1 \in Nat
          OBVIOUS
    <3> QED BY <1>4, <1>5, <3>1
  <2>2. PICK s : s = met \o p
        OBVIOUS
  <2>3. /\ IsList(s) /\ Len(s) = Len(met) + n
        /\ \A i \in 1 .. Len(met) : s[i] = met[i]
        /\ \A i \in 1 .. n : s[Len(met) + i] = others[i]
    <3>1. \A i \in 1 .. Len(p) : s[Len(met) + i] = p[i]
          BY <1>1, <2>1, <2>2, ListConcat
    <3>2. /\ IsList(s) /\ Len(s) = Len(met) + Len(p)
          /\ \A i \in 1 .. Len(met) : s[i] = met[i]
          BY <1>1, <2>1, <2>2, ListConcat
    <3> QED BY <2>1, <3>1, <3>2
  <2>4. PICK t : t = Append(s, others[n + 1])
        OBVIOUS
  <2>5. /\ IsList(t) /\ Len(t) = Len(met) + n + 1
        /\ t[Len(met) + n + 1] = others[n + 1]
        /\ \A i \in 1 .. Len(met) + n : t[i] = s[i]
        BY <2>3, <2>4, ListAppend
  <2>6. PICK u : u = met \o q
        OBVIOUS
  <2>7. /\ IsList(u) /\ Len(u) = Len(met) + (n + 1)
        /\ \A i \in 1 .. Len(met) : u[i] = met[i]
        /\ \A i \in 1 .. n + 1 : u[Len(met) + i] = others[i]
    <3>1. \A i \in 1 .. Len(q) : u[Len(met) + i] = q[i]
          BY <1>1, <2>1, <2>6, ListConcat
    <3>2. /\ IsList(u) /\ Len(u) = Len(met) + Len(q)
          /\ \A i \in 1 .. Len(met) : u[i] = met[i]
          BY <1>1, <2>1, <2>6, ListConcat
    <3> QED BY <2>1, <3>1, <3>2
  <2>8. Len(met) \in Nat
        BY <1>1, ListShape
  <2>9. ASSUME NEW k \in 1 .. Len(u) PROVE u[k] = t[k]
    <3>1. CASE k <= Len(met)
          BY <2>3, <2>5, <2>7, <2>8, <3>1
    <3>2. CASE k > Len(met)
      <4>1. PICK i \in 1 .. n + 1 : k = Len(met) + i
            BY <2>7, <2>8, <3>2
      <4>2. u[k] = others[i]
            BY <2>7, <4>1
      <4>3. CASE i <= n
        <5>1. i \in 1 .. n /\ k \in 1 .. Len(met) + n
              BY <2>8, <4>1, <4>3
        <5> QED BY <2>3, <2>5, <4>1, <4>2, <5>1
      <4>4. CASE i = n + 1
            BY <2>5, <2>8, <4>1, <4>2, <4>4
      <4> QED BY <4>3, <4>4
    <3> QED BY <2>7, <2>8, <3>1, <3>2
  <2>10. Len(u) = Len(t)
        BY <2>5, <2>7, <2>8
  <2>11. u = t
        BY <2>5, <2>7, <2>9, <2>10, SameLists
  <2> QED BY <2>2, <2>4, <2>6, <2>11
<1> DEFINE S == {n \in Nat : n <= Len(others) => MergeOf(f[n], met \o prefix(n))}
<1>8. 0 \in S
  <2>1. met \o << >> = met
        BY <1>1 DEF IsList
  <2> QED BY <1>3, <1>6, <2>1
<1>9. ASSUME NEW n \in S PROVE n + 1 \in S
  <2>1. SUFFICES ASSUME n + 1 <= Len(others) PROVE MergeOf(f[n + 1], met \o prefix(n + 1))
        OBVIOUS
  <2>2. /\ n \in Nat /\ n < Len(others) /\ MergeOf(f[n], met \o prefix(n))
        BY <1>1, <2>1
  <2>3. f[n + 1] = AppendUnique(f[n], others[n + 1])
        BY <1>3, <2>2
  <2>4. met \o prefix(n + 1) = Append(met \o prefix(n), others[n + 1])
        BY <1>7, <2>2
  <2>5. MergeOf(AppendUnique(f[n], others[n + 1]), Append(met \o prefix(n), others[n + 1]))
        BY <2>2, OneMore
  <2> QED BY <2>3, <2>4, <2>5
<1> HIDE DEF S
<1>10. S = Nat
  <2>1. S \in SUBSET Nat
        BY DEF S
  <2> QED BY <1>8, <1>9, <2>1, SetInduction
<1>11. MergeOf(f[Len(others)], met \o prefix(Len(others)))
      BY <1>1, <1>10 DEF S
<1> QED BY <1>1, <1>2, <1>11

-----------------------------------------------------------------------------
(* The calls that attributes expand to are neither stamps nor probes. *)

OwnCall(c) ==
    c = [call |-> c.call, args |-> c.args] /\ c.call \notin {"source", "extend_with"}

OwnCalls(answer) == \A c \in answer.calls : OwnCall(c)

LEMMA CallIsOwn ==
    ASSUME NEW ok, NEW name, NEW args, name \notin {"source", "extend_with"}
    PROVE  OwnCalls(Call(ok, name, args))
<1> DEFINE c == [call |-> name, args |-> args]
<1>1. c.call = name /\ c.args = args
      OBVIOUS
<1>2. Call(ok, name, args).calls = {c}
      BY DEF Call
<1>3. OwnCall(c)
      BY <1>1 DEF OwnCall
<1> HIDE DEF c
<1> QED BY <1>2, <1>3 DEF OwnCalls

LEMMA NoCalls == OwnCalls(NoRule) /\ OwnCalls(Refused)
BY DEF OwnCalls, NoRule, Refused

LEMMA Names ==
    DOMAIN Keys = {"attribute", "flag", "orientation", "align", "cyclic", "group",
                   "atom_color", "atom_style", "size", "icon", "edge_style", "hide_field",
                   "hide_atom", "inferred_edge", "tag"}
<1>1. DOMAIN Keys = DOMAIN ATTRS
      BY DEF Keys
<1> QED BY <1>1 DEF ATTRS

LEMMA DispatchOwn ==
    ASSUME NEW attr, NEW t, NEW stripped, attr.name \in DOMAIN Keys
    PROVE  OwnCalls(Dispatch(attr, t, stripped))
<1> DEFINE is(name) == attr.name = name
<1>1. CASE is("attribute")
  <2>1. Dispatch(attr, t, stripped) = ParseAttribute(t, stripped)
        BY <1>1 DEF Dispatch
  <2> QED BY <2>1, CallIsOwn DEF ParseAttribute
<1>2. CASE is("flag")
  <2>1. Dispatch(attr, t, stripped) = ParseFlag(t)
        BY <1>2 DEF Dispatch
  <2> QED BY <2>1, CallIsOwn DEF ParseFlag
<1>3. CASE is("orientation")
  <2>1. Dispatch(attr, t, stripped) = ParseOrientation(t)
        BY <1>3 DEF Dispatch
  <2> QED BY <2>1, CallIsOwn DEF ParseOrientation
<1>4. CASE is("align")
  <2>1. Dispatch(attr, t, stripped) = ParseAlign(t)
        BY <1>4 DEF Dispatch
  <2> QED BY <2>1, CallIsOwn DEF ParseAlign, ParseAligned
<1>5. CASE is("cyclic")
  <2>1. Dispatch(attr, t, stripped) = ParseCyclic(t)
        BY <1>5 DEF Dispatch
  <2> QED BY <2>1, CallIsOwn DEF ParseCyclic, ParseAligned
<1>6. CASE is("group")
  <2>1. \/ Dispatch(attr, t, stripped) = Refused
        \/ Dispatch(attr, t, stripped) = ParseGroup(t, stripped)
        BY <1>6 DEF Dispatch
  <2>2. OwnCalls(ParseGroup(t, stripped))
        BY CallIsOwn DEF ParseGroup
  <2> QED BY <2>1, <2>2, NoCalls
<1>7. CASE is("atom_color")
  <2>1. Dispatch(attr, t, stripped) = ParseAtomColor(t)
        BY <1>7 DEF Dispatch
  <2> QED BY <2>1, CallIsOwn DEF ParseAtomColor
<1>8. CASE is("atom_style")
  <2>1. Dispatch(attr, t, stripped) = ParseAtomStyle(t, stripped)
        BY <1>8 DEF Dispatch
  <2> QED BY <2>1, CallIsOwn DEF ParseAtomStyle
<1>9. CASE is("size")
  <2>1. Dispatch(attr, t, stripped) = ParseSize(t)
        BY <1>9 DEF Dispatch
  <2> QED BY <2>1, CallIsOwn DEF ParseSize
<1>10. CASE is("icon")
  <2>1. Dispatch(attr, t, stripped) = ParseIcon(t)
        BY <1>10 DEF Dispatch
  <2> QED BY <2>1, CallIsOwn DEF ParseIcon
<1>11. CASE is("edge_style")
  <2>1. Dispatch(attr, t, stripped) = ParseEdgeStyle(t, stripped)
        BY <1>11 DEF Dispatch
  <2>2. \E ok, args : \/ ParseEdgeStyle(t, stripped) = Call(ok, "edge_style", args)
                      \/ ParseEdgeStyle(t, stripped) = Call(ok, "edge_color", args)
        BY DEF ParseEdgeStyle
  <2>3. \A ok, args : /\ OwnCalls(Call(ok, "edge_style", args))
                      /\ OwnCalls(Call(ok, "edge_color", args))
        BY CallIsOwn
  <2> QED BY <2>1, <2>2, <2>3
<1>12. CASE is("hide_field")
  <2>1. Dispatch(attr, t, stripped) = ParseHideField(t)
        BY <1>12 DEF Dispatch
  <2> QED BY <2>1, CallIsOwn DEF ParseHideField
<1>13. CASE is("hide_atom")
  <2>1. Dispatch(attr, t, stripped) = ParseHideAtom(t)
        BY <1>13 DEF Dispatch
  <2> QED BY <2>1, CallIsOwn DEF ParseHideAtom
<1>14. CASE is("inferred_edge")
  <2>1. Dispatch(attr, t, stripped) = ParseInferredEdge(t, stripped)
        BY <1>14 DEF Dispatch
  <2> QED BY <2>1, CallIsOwn DEF ParseInferredEdge
<1>15. CASE is("tag")
  <2>1. Dispatch(attr, t, stripped) = ParseTag(t, stripped)
        BY <1>15 DEF Dispatch
  <2> QED BY <2>1, CallIsOwn DEF ParseTag
<1> QED BY <1>1, <1>2, <1>3, <1>4, <1>5, <1>6, <1>7, <1>8, <1>9, <1>10, <1>11, <1>12,
           <1>13, <1>14, <1>15, Names

LEMMA ParsedOwn ==
    ASSUME NEW a \in DOMAIN Catalogue
    PROVE  OwnCalls(Parsed[a])
<1> DEFINE attr == Catalogue[a]
<1>1. Parsed[a] = ParseSpatialAttribute(attr)
      BY DEF Parsed
<1>2. CASE attr.name \notin DOMAIN Keys
  <2>1. ParseSpatialAttribute(attr) = NoRule
        BY <1>2 DEF ParseSpatialAttribute
  <2> QED BY <1>1, <2>1, NoCalls
<1>3. CASE attr.name \in DOMAIN Keys
  <2>1. \/ ParseSpatialAttribute(attr) \in {NoRule, Refused}
        \/ \E t, stripped : ParseSpatialAttribute(attr) = Dispatch(attr, t, stripped)
        BY <1>3 DEF ParseSpatialAttribute
  <2> QED BY <1>1, <1>3, <2>1, NoCalls, DispatchOwn
<1> QED BY <1>2, <1>3

-----------------------------------------------------------------------------
(* Types: what the stages hand on *)

BuilderOK(b) ==
    /\ b = [constraints |-> b.constraints, directives |-> b.directives, last |-> b.last]
    /\ b.last \in {"none", "constraint", "directive"}
    /\ IsDecorators(b)

CallOK(c) == c.call = "extend_with" => c.set \in ToSet(Fields)

LEMMA StampTyped ==
    ASSUME NEW rules, NEW source, IsList(rules)
    PROVE  /\ IsList(StampLast(rules, source))
           /\ \A rule \in ToSet(StampLast(rules, source)) :
                 \/ rule \in ToSet(rules)
                 \/ \E old \in ToSet(rules) :
                       old = rules[Len(rules)] /\ rule = [old EXCEPT !.source = {source}]
<1> DEFINE s == StampLast(rules, source)
<1>1. /\ Len(rules) \in Nat /\ DOMAIN rules = 1 .. Len(rules)
      /\ \A n \in 1 .. Len(rules) : rules[n] \in ToSet(rules)
      BY ListShape
<1>2. s = [n \in 1 .. Len(rules) |->
             IF n = Len(rules) THEN [rules[n] EXCEPT !.source = {source}] ELSE rules[n]]
      BY <1>1 DEF StampLast
<1>3. s = [n \in 1 .. Len(rules) |-> s[n]] /\ DOMAIN s = 1 .. Len(rules)
      BY <1>2
<1>4. \A n \in 1 .. Len(rules) :
         s[n] = IF n = Len(rules) THEN [rules[n] EXCEPT !.source = {source}] ELSE rules[n]
      BY <1>2
<1> HIDE DEF s
<1>5. IsList(s)
      BY <1>1, <1>3, ListMade
<1>6. ASSUME NEW rule \in ToSet(s)
      PROVE  \/ rule \in ToSet(rules)
             \/ \E old \in ToSet(rules) :
                   old = rules[Len(rules)] /\ rule = [old EXCEPT !.source = {source}]
  <2>1. PICK n \in 1 .. Len(rules) : s[n] = rule
        BY <1>3 DEF ToSet
  <2> QED BY <1>1, <1>4, <2>1
<1> QED BY <1>5, <1>6 DEF s

LEMMA BuiltIsRule ==
    ASSUME NEW c
    PROVE  IsRule(BuiltRule(c)) /\ BuiltRule(c).source = {}
<1>1. \E form, args : BuiltRule(c) = Rule(form, args)
      BY DEF BuiltRule, AtomColorRule, IconRule, EdgeColorRule, AtomStyleRule
<1> QED BY <1>1 DEF Rule, IsRule

LEMMA ApplyTyped ==
    ASSUME NEW b, BuilderOK(b), NEW c, CallOK(c)
    PROVE  BuilderOK(Apply(b, c))
<1>1. /\ b = [constraints |-> b.constraints, directives |-> b.directives, last |-> b.last]
      /\ b.last \in {"none", "constraint", "directive"}
      /\ IsList(b.constraints) /\ \A rule \in ToSet(b.constraints) : IsConstraint(rule)
      /\ IsList(b.directives) /\ \A rule \in ToSet(b.directives) : IsDirective(rule)
      BY DEF BuilderOK, IsDecorators
<1>2. CASE c.call = "source"
  <2>1. Apply(b, c) = Source(b, c.source)
        BY <1>2 DEF Apply
  <2>2. CASE b.last = "constraint"
    <3>1. PICK s : s = StampLast(b.constraints, c.source)
          OBVIOUS
    <3>2. Source(b, c.source) = [constraints |-> s, directives |-> b.directives, last |-> b.last]
          BY <1>1, <2>2, <3>1 DEF Source
    <3>3. IsList(s) /\ \A rule \in ToSet(s) : IsConstraint(rule)
      <4>1. ASSUME NEW old, IsConstraint(old)
            PROVE  IsConstraint([old EXCEPT !.source = {c.source}])
            BY <4>1 DEF IsConstraint, IsRule
      <4> QED BY <1>1, <3>1, <4>1, StampTyped
    <3> QED BY <1>1, <2>1, <2>2, <3>2, <3>3 DEF BuilderOK, IsDecorators
  <2>3. CASE b.last = "directive" /\ Last(b.directives).form # "flag"
    <3>1. PICK s : s = StampLast(b.directives, c.source)
          OBVIOUS
    <3>2. Source(b, c.source) = [constraints |-> b.constraints, directives |-> s, last |-> b.last]
          BY <1>1, <2>3, <3>1 DEF Source
    <3>3. IsList(s) /\ \A rule \in ToSet(s) : IsDirective(rule)
      <4>1. ASSUME NEW old, IsDirective(old), old.form # "flag"
            PROVE  IsDirective([old EXCEPT !.source = {c.source}])
            BY <4>1 DEF IsDirective, IsRule
      <4>2. b.directives[Len(b.directives)].form # "flag"
            BY <2>3 DEF Last
      <4> QED BY <1>1, <3>1, <4>1, <4>2, StampTyped
    <3> QED BY <1>1, <2>1, <2>3, <3>2, <3>3 DEF BuilderOK, IsDecorators
  <2>4. CASE b.last # "constraint" /\ ~(b.last = "directive" /\ Last(b.directives).form # "flag")
        BY <2>1, <2>4 DEF Source
  <2> QED BY <2>2, <2>3, <2>4
<1>3. CASE c.call = "extend_with"
  <2>1. Apply(b, c) = ExtendWith(b, c.set)
        BY <1>3 DEF Apply
  <2>2. IsDecorators(c.set)
        BY <1>3, ConstantsAreTyped DEF CallOK
  <2>3. PICK x, y : x = b.constraints \o c.set.constraints /\ y = b.directives \o c.set.directives
        OBVIOUS
  <2>4. IsList(x) /\ ToSet(x) = ToSet(b.constraints) \cup ToSet(c.set.constraints)
        BY <1>1, <2>2, <2>3, ListConcat DEF IsDecorators
  <2>5. IsList(y) /\ ToSet(y) = ToSet(b.directives) \cup ToSet(c.set.directives)
        BY <1>1, <2>2, <2>3, ListConcat DEF IsDecorators
  <2>6. ExtendWith(b, c.set) = [constraints |-> x, directives |-> y, last |-> "none"]
        BY <2>3 DEF ExtendWith
  <2>7. /\ \A rule \in ToSet(x) : IsConstraint(rule)
        /\ \A rule \in ToSet(y) : IsDirective(rule)
        BY <1>1, <2>2, <2>4, <2>5 DEF IsDecorators
  <2> QED BY <2>1, <2>4, <2>5, <2>6, <2>7 DEF BuilderOK, IsDecorators
<1>4. CASE c.call \notin {"source", "extend_with"}
  <2>1. PICK r : r = BuiltRule(c)
        OBVIOUS
  <2>2. IsRule(r) /\ r.source = {}
        BY <2>1, BuiltIsRule
  <2>3. Apply(b, c) = Push(b, r)
        BY <1>4, <2>1 DEF Apply
  <2>4. CASE r.form \in ConstraintForms
    <3>1. PICK x : x = Append(b.constraints, r)
          OBVIOUS
    <3>2. IsList(x) /\ ToSet(x) = ToSet(b.constraints) \cup {r}
          BY <1>1, <3>1, ListAppend
    <3>3. Push(b, r) = [constraints |-> x, directives |-> b.directives, last |-> "constraint"]
          BY <1>1, <2>4, <3>1 DEF Push, PushConstraint
    <3>4. \A rule \in ToSet(x) : IsConstraint(rule)
          BY <1>1, <2>2, <2>4, <3>2 DEF IsConstraint
    <3> QED BY <1>1, <2>3, <3>2, <3>3, <3>4 DEF BuilderOK, IsDecorators
  <2>5. CASE r.form \notin ConstraintForms
    <3>1. PICK y : y = Append(b.directives, r)
          OBVIOUS
    <3>2. IsList(y) /\ ToSet(y) = ToSet(b.directives) \cup {r}
          BY <1>1, <3>1, ListAppend
    <3>3. Push(b, r) = [constraints |-> b.constraints, directives |-> y, last |-> "directive"]
          BY <1>1, <2>5, <3>1 DEF Push, PushDirective
    <3>4. \A rule \in ToSet(y) : IsDirective(rule)
          BY <1>1, <2>2, <2>5, <3>2 DEF IsDirective
    <3> QED BY <1>1, <2>3, <3>2, <3>3, <3>4 DEF BuilderOK, IsDecorators
  <2> QED BY <2>4, <2>5
<1> QED BY <1>2, <1>3, <1>4

-----------------------------------------------------------------------------
(* The inductive invariant for the types and the merge *)

ShapeInv ==
    /\ attrs \in Seq(DOMAIN Catalogue) /\ Len(attrs) <= MaxAttributes
    /\ stage \in {"expanding", "refused", "running", "merging"}
    /\ next \in Nat \ {0}
    /\ IsList(calls) /\ \A c \in ToSet(calls) : CallOK(c)
    /\ IsList(shims) /\ ToSet(shims) \subseteq DOMAIN attrs
    /\ BuilderOK(builder)

MetConstraints == [m \in DOMAIN Met |-> Met[m].constraints]
MetDirectives == [m \in DOMAIN Met |-> Met[m].directives]

AllConstraints == builder.constraints \o Joined(MetConstraints, next - 1)
AllDirectives == builder.directives \o Joined(MetDirectives, next - 1)

MergeInv ==
    /\ collected = [constraints |-> collected.constraints, directives |-> collected.directives]
    /\ stage # "merging" => collected.constraints = << >> /\ collected.directives = << >>
    /\ stage = "merging" =>
          /\ next <= Len(Met) + 1
          /\ MergeOf(collected.constraints, AllConstraints)
          /\ MergeOf(collected.directives, AllDirectives)

LEMMA ShapeInit == Init => ShapeInv
<1> SUFFICES ASSUME Init PROVE ShapeInv
    OBVIOUS
<1>1. PICK n \in 0 .. MaxAttributes : attrs \in [1 .. n -> DOMAIN Catalogue]
      BY DEF Init
<1>2. n \in Nat /\ n <= MaxAttributes
      BY ConstantsAreTyped
<1>3. attrs \in Seq(DOMAIN Catalogue) /\ Len(attrs) = n
      BY <1>1, <1>2
<1>4. BuilderOK(NewBuilder)
      BY EmptyList DEF BuilderOK, NewBuilder, IsDecorators
<1>5. IsList(calls) /\ ToSet(calls) = {} /\ IsList(shims) /\ ToSet(shims) = {}
      BY EmptyList DEF Init
<1>6. BuilderOK(builder) /\ stage = "expanding" /\ next = 1
      BY <1>4 DEF Init
<1> QED BY <1>2, <1>3, <1>5, <1>6 DEF ShapeInv

LEMMA StampedPair ==
    ASSUME NEW c, NEW n
    PROVE  /\ IsList(Stamped(c, n)) /\ Len(Stamped(c, n)) = 2
           /\ Stamped(c, n)[1] = [c EXCEPT !.args = Quote(c.args)]
           /\ Stamped(c, n)[2] = [call |-> "source", source |-> Own(n)]
           /\ ToSet(Stamped(c, n)) = {Stamped(c, n)[1], Stamped(c, n)[2]}
<1> PICK x, y : x = [c EXCEPT !.args = Quote(c.args)] /\ y = [call |-> "source", source |-> Own(n)]
    OBVIOUS
<1>1. Stamped(c, n) = <<x, y>>
      BY DEF Stamped
<1>2. <<x, y>> \in Seq({x, y}) /\ Len(<<x, y>>) = 2 /\ DOMAIN <<x, y>> = 1 .. 2
      OBVIOUS
<1>3. IsList(<<x, y>>)
      BY <1>2, SeqIsList
<1>4. ToSet(<<x, y>>) = {x, y}
      BY <1>2 DEF ToSet
<1> QED BY <1>1, <1>2, <1>3, <1>4

LEMMA ExpandShape ==
    ASSUME ShapeInv, Expand
    PROVE  ShapeInv'
<1>1. /\ stage = "expanding" /\ next <= Len(attrs) /\ next' = next + 1
      /\ attrs' = attrs /\ stage' = stage /\ builder' = builder
      BY DEF Expand
<1>2. /\ attrs \in Seq(DOMAIN Catalogue) /\ next \in 1 .. Len(attrs)
      /\ next \in DOMAIN attrs
      BY <1>1 DEF ShapeInv
<1>3. attrs[next] \in DOMAIN Catalogue
      BY <1>2
<1>4. /\ IsList(calls) /\ \A c \in ToSet(calls) : CallOK(c)
      /\ IsList(shims) /\ ToSet(shims) \subseteq DOMAIN attrs
      BY DEF ShapeInv
<1>5. IsList(calls') /\ \A c \in ToSet(calls') : CallOK(c)
  <2>1. CASE calls' = calls
        BY <1>4, <2>1
  <2>2. CASE \E call \in Parsed[attrs[next]].calls : calls' = calls \o Stamped(call, next)
    <3>1. PICK call \in Parsed[attrs[next]].calls : calls' = calls \o Stamped(call, next)
          BY <2>2
    <3>2. OwnCall(call)
          BY <1>3, <3>1, ParsedOwn DEF OwnCalls
    <3>3. PICK pair : pair = Stamped(call, next)
          OBVIOUS
    <3>4. /\ IsList(pair) /\ ToSet(pair) = {pair[1], pair[2]}
          /\ pair[1] = [call EXCEPT !.args = Quote(call.args)]
          /\ pair[2] = [call |-> "source", source |-> Own(next)]
          BY <3>3, StampedPair
    <3>5. pair[1].call # "extend_with" /\ pair[2].call = "source"
          BY <3>2, <3>4 DEF OwnCall
    <3>6. CallOK(pair[1]) /\ CallOK(pair[2])
          BY <3>5 DEF CallOK
    <3>7. calls' = calls \o pair
          BY <3>1, <3>3
    <3>8. IsList(calls') /\ ToSet(calls') = ToSet(calls) \cup ToSet(pair)
          BY <1>4, <3>4, <3>7, ListConcat
    <3> QED BY <1>4, <3>4, <3>6, <3>8
  <2> QED BY <2>1, <2>2 DEF Expand, Expanded
<1>6. IsList(shims') /\ ToSet(shims') \subseteq DOMAIN attrs
  <2>1. shims' = shims \/ shims' = Append(shims, next)
        BY DEF Expand, Expanded
  <2>2. IsList(Append(shims, next)) /\ ToSet(Append(shims, next)) = ToSet(shims) \cup {next}
        BY <1>4, ListAppend
  <2> QED BY <1>2, <1>4, <2>1, <2>2
<1>7. next' \in Nat \ {0}
      BY <1>1, <1>2
<1> QED BY <1>1, <1>5, <1>6, <1>7 DEF ShapeInv

LEMMA FinishShape ==
    ASSUME ShapeInv, FinishExpansion
    PROVE  ShapeInv'
<1>1. PICK probes : probes = [n \in DOMAIN Fields |-> [call |-> "extend_with", set |-> Fields[n]]]
      OBVIOUS
<1>2. /\ calls' = calls \o probes /\ stage' = "running" /\ next' = 1
      /\ attrs' = attrs /\ shims' = shims /\ builder' = builder
      BY <1>1 DEF FinishExpansion
<1>3. /\ Len(Fields) \in Nat /\ DOMAIN Fields = 1 .. Len(Fields)
      /\ \A n \in 1 .. Len(Fields) : Fields[n] \in ToSet(Fields)
      BY ConstantsAreTyped, ListShape
<1>4. probes = [n \in 1 .. Len(Fields) |-> probes[n]]
      BY <1>1, <1>3
<1>5. IsList(probes) /\ DOMAIN probes = 1 .. Len(Fields)
      BY <1>3, <1>4, ListMade
<1>6. \A c \in ToSet(probes) : CallOK(c)
      BY <1>1, <1>3, <1>5 DEF ToSet, CallOK
<1>7. IsList(calls) /\ \A c \in ToSet(calls) : CallOK(c)
      BY DEF ShapeInv
<1>8. IsList(calls') /\ ToSet(calls') = ToSet(calls) \cup ToSet(probes)
      BY <1>2, <1>5, <1>7, ListConcat
<1> QED BY <1>2, <1>6, <1>7, <1>8 DEF ShapeInv

LEMMA RunShape ==
    ASSUME ShapeInv, RunCall
    PROVE  ShapeInv'
<1>1. /\ next <= Len(calls) /\ builder' = Apply(builder, calls[next]) /\ next' = next + 1
      /\ attrs' = attrs /\ stage' = stage /\ calls' = calls /\ shims' = shims
      BY DEF RunCall
<1>2. /\ IsList(calls) /\ (\A c \in ToSet(calls) : CallOK(c)) /\ next \in Nat \ {0}
      /\ BuilderOK(builder)
      BY DEF ShapeInv
<1>3. calls[next] \in ToSet(calls)
      BY <1>1, <1>2, ListShape
<1>4. BuilderOK(builder')
      BY <1>1, <1>2, <1>3, ApplyTyped
<1>5. next' \in Nat \ {0}
      BY <1>1, <1>2
<1> QED BY <1>1, <1>4, <1>5 DEF ShapeInv

LEMMA ShapeStep == ShapeInv /\ [Next]_vars => ShapeInv'
<1> SUFFICES ASSUME ShapeInv, [Next]_vars PROVE ShapeInv'
    OBVIOUS
<1>1. CASE Expand
      BY <1>1, ExpandShape
<1>2. CASE Refuse
  <2>1. /\ stage' = "refused"
        /\ UNCHANGED <<attrs, next, calls, shims, builder>>
        BY <1>2 DEF Refuse
  <2> QED BY <2>1 DEF ShapeInv
<1>3. CASE FinishExpansion
      BY <1>3, FinishShape
<1>4. CASE RunCall
      BY <1>4, RunShape
<1>5. CASE Build
  <2>1. /\ stage' = "merging" /\ next' = 1
        /\ UNCHANGED <<attrs, calls, shims, builder>>
        BY <1>5 DEF Build
  <2> QED BY <2>1 DEF ShapeInv
<1>6. CASE Merge
  <2>1. /\ next' = next + 1
        /\ UNCHANGED <<attrs, stage, calls, shims, builder>>
        BY <1>6 DEF Merge
  <2>2. next' \in Nat \ {0}
        BY <2>1 DEF ShapeInv
  <2> QED BY <2>1, <2>2 DEF ShapeInv
<1>7. CASE UNCHANGED vars
      BY <1>7 DEF ShapeInv, vars
<1> QED BY <1>1, <1>2, <1>3, <1>4, <1>5, <1>6, <1>7 DEF Next

LEMMA MergeInit == Init => MergeInv
<1> SUFFICES ASSUME Init PROVE MergeInv
    OBVIOUS
<1>1. collected = [constraints |-> << >>, directives |-> << >>] /\ stage # "merging"
      BY DEF Init
<1> QED BY <1>1 DEF MergeInv

(* What is merged grows by the next type's rules. *)
LEMMA MetTyped ==
    /\ Len(Met) \in Nat
    /\ \A m \in 1 .. Len(Met) :
          /\ IsDecorators(Met[m])
          /\ MetConstraints[m] = Met[m].constraints /\ IsList(MetConstraints[m])
          /\ MetDirectives[m] = Met[m].directives /\ IsList(MetDirectives[m])
<1>1. IsList(Met)
      BY ConstantsAreTyped
<1>2. /\ Len(Met) \in Nat /\ DOMAIN Met = 1 .. Len(Met)
      /\ \A m \in 1 .. Len(Met) : Met[m] \in ToSet(Met)
      BY <1>1, ListShape
<1>3. \A m \in 1 .. Len(Met) : IsDecorators(Met[m])
      BY <1>2, ConstantsAreTyped
<1> QED BY <1>2, <1>3 DEF MetConstraints, MetDirectives, IsDecorators

LEMMA MergedFirst ==
    ASSUME NEW rules, IsList(rules), NEW pieces
    PROVE  MergeOf(ExtendList(<< >>, rules), rules \o Joined(pieces, 0))
<1>1. MergeOf(<< >>, << >>)
      BY EmptyList DEF MergeOf, FirstOfEach
<1>2. MergeOf(ExtendList(<< >>, rules), << >> \o rules)
      BY <1>1, ListMerged
<1>3. << >> \o rules = rules /\ rules \o << >> = rules
      BY DEF IsList
<1> QED BY <1>2, <1>3, JoinedNone

LEMMA MergedNext ==
    ASSUME NEW rules, IsList(rules), NEW merged, NEW pieces, NEW n \in Nat,
           \A i \in 1 .. n + 1 : IsList(pieces[i]),
           MergeOf(merged, rules \o Joined(pieces, n))
    PROVE  MergeOf(ExtendList(merged, pieces[n + 1]), rules \o Joined(pieces, n + 1))
<1>1. IsList(pieces[n + 1]) /\ \A i \in 1 .. n : IsList(pieces[i])
      OBVIOUS
<1>2. Joined(pieces, n + 1) = Joined(pieces, n) \o pieces[n + 1]
      BY <1>1, JoinedMore
<1>3. IsList(Joined(pieces, n))
  <2> DEFINE T == UNION {ToSet(pieces[i]) : i \in 1 .. n}
  <2>1. \A i \in 1 .. n : IsList(pieces[i]) /\ ToSet(pieces[i]) \subseteq T
        BY <1>1
  <2> HIDE DEF T
  <2> QED BY <2>1, JoinedType
<1>4. MergeOf(ExtendList(merged, pieces[n + 1]), (rules \o Joined(pieces, n)) \o pieces[n + 1])
      BY <1>1, ListMerged
<1>5. PICK x, y, z : x = rules /\ y = Joined(pieces, n) /\ z = pieces[n + 1]
      OBVIOUS
<1>6. (x \o y) \o z = x \o (y \o z)
  <2>1. IsList(x) /\ IsList(y) /\ IsList(z)
        BY <1>1, <1>3, <1>5
  <2> QED BY ONLY <2>1, ThreeLists
<1> QED BY <1>2, <1>4, <1>5, <1>6

LEMMA MergeStep == ShapeInv /\ MergeInv /\ [Next]_vars => MergeInv'
<1> SUFFICES ASSUME ShapeInv, MergeInv, [Next]_vars PROVE MergeInv'
    OBVIOUS
<1>1. IsList(builder.constraints) /\ IsList(builder.directives)
      BY DEF ShapeInv, BuilderOK, IsDecorators
<1>2. CASE Expand \/ Refuse \/ FinishExpansion \/ RunCall
  <2>1. stage # "merging" /\ stage' # "merging" /\ collected' = collected
        BY <1>2 DEF Expand, Refuse, FinishExpansion, RunCall
  <2> QED BY <2>1 DEF MergeInv
<1>3. CASE Build
  <2>1. /\ stage # "merging" /\ stage' = "merging" /\ next' = 1 /\ builder' = builder
        /\ collected' = ExtendUnique(collected, builder)
        BY <1>3 DEF Build
  <2>2. collected.constraints = << >> /\ collected.directives = << >>
        BY <2>1 DEF MergeInv
  <2>3. collected' = [constraints |-> ExtendList(<< >>, builder.constraints),
                      directives |-> ExtendList(<< >>, builder.directives)]
        BY <2>1, <2>2 DEF ExtendUnique
  <2>4. /\ AllConstraints' = builder.constraints \o Joined(MetConstraints, 0)
        /\ AllDirectives' = builder.directives \o Joined(MetDirectives, 0)
        BY <2>1 DEF AllConstraints, AllDirectives, MetConstraints, MetDirectives, Joined
  <2>5. next' <= Len(Met) + 1
        BY <2>1, MetTyped
  <2> QED BY <1>1, <2>1, <2>3, <2>4, <2>5, MergedFirst DEF MergeInv
<1>4. CASE Merge
  <2>1. /\ stage = "merging" /\ next <= Len(Met) /\ next' = next + 1 /\ builder' = builder
        /\ stage' = stage /\ collected' = ExtendUnique(collected, Met[next])
        BY <1>4 DEF Merge
  <2>2. PICK n \in Nat : next = n + 1 /\ next - 1 = n /\ next' - 1 = n + 1 /\ n + 1 <= Len(Met)
        BY <2>1 DEF ShapeInv
  <2>3. /\ MergeOf(collected.constraints, builder.constraints \o Joined(MetConstraints, n))
        /\ MergeOf(collected.directives, builder.directives \o Joined(MetDirectives, n))
        BY <2>1, <2>2 DEF MergeInv, AllConstraints, AllDirectives
  <2>4. /\ \A i \in 1 .. n + 1 : IsList(MetConstraints[i]) /\ IsList(MetDirectives[i])
        /\ MetConstraints[n + 1] = Met[n + 1].constraints
        /\ MetDirectives[n + 1] = Met[n + 1].directives
    <3>1. \A i \in 1 .. n + 1 : i \in 1 .. Len(Met)
          BY <2>2, MetTyped
    <3> QED BY <3>1, MetTyped
  <2>5. /\ MergeOf(ExtendList(collected.constraints, MetConstraints[n + 1]),
                   builder.constraints \o Joined(MetConstraints, n + 1))
        /\ MergeOf(ExtendList(collected.directives, MetDirectives[n + 1]),
                   builder.directives \o Joined(MetDirectives, n + 1))
        BY <1>1, <2>3, <2>4, MergedNext
  <2>6. /\ AllConstraints' = builder.constraints \o Joined(MetConstraints, n + 1)
        /\ AllDirectives' = builder.directives \o Joined(MetDirectives, n + 1)
        BY <2>1, <2>2 DEF AllConstraints, AllDirectives, MetConstraints, MetDirectives, Joined
  <2>7. collected' = [constraints |-> ExtendList(collected.constraints, MetConstraints[n + 1]),
                      directives |-> ExtendList(collected.directives, MetDirectives[n + 1])]
        BY <2>1, <2>2, <2>4 DEF ExtendUnique
  <2>8. next' <= Len(Met) + 1
        BY <2>1, <2>2, MetTyped
  <2> QED BY <2>1, <2>5, <2>6, <2>7, <2>8 DEF MergeInv
<1>5. CASE UNCHANGED vars
  <2>1. UNCHANGED <<stage, next, builder, collected>>
        BY <1>5 DEF vars
  <2>2. AllConstraints' = AllConstraints /\ AllDirectives' = AllDirectives
        BY <2>1 DEF AllConstraints, AllDirectives, MetConstraints, MetDirectives, Joined
  <2> QED BY <2>1, <2>2 DEF MergeInv
<1> QED BY <1>2, <1>3, <1>4, <1>5 DEF Next

LEMMA ShapeHolds == Spec => [](ShapeInv /\ MergeInv)
BY ShapeInit, ShapeStep, MergeInit, MergeStep, PTL DEF Spec

(* The rules of types that an export meets are constraints and directives. *)
LEMMA AllTyped ==
    ASSUME ShapeInv, next - 1 \in 0 .. Len(Met)
    PROVE  /\ \A rule \in ToSet(AllConstraints) : IsConstraint(rule)
           /\ \A rule \in ToSet(AllDirectives) : IsDirective(rule)
<1> PICK n \in Nat : n = next - 1 /\ n <= Len(Met)
    BY MetTyped
<1> DEFINE C == UNION {ToSet(Met[m].constraints) : m \in 1 .. Len(Met)}
           D == UNION {ToSet(Met[m].directives) : m \in 1 .. Len(Met)}
<1>1. /\ \A rule \in C : IsConstraint(rule)
      /\ \A rule \in D : IsDirective(rule)
      BY MetTyped DEF IsDecorators
<1>2. \A m \in 1 .. n : /\ IsList(MetConstraints[m]) /\ ToSet(MetConstraints[m]) \subseteq C
                        /\ IsList(MetDirectives[m]) /\ ToSet(MetDirectives[m]) \subseteq D
      BY MetTyped
<1> HIDE DEF C, D
<1>3. PICK c : c = Joined(MetConstraints, n)
      OBVIOUS
<1>4. PICK d : d = Joined(MetDirectives, n)
      OBVIOUS
<1>5. IsList(c) /\ ToSet(c) \subseteq C
      BY <1>2, <1>3, JoinedType
<1>6. IsList(d) /\ ToSet(d) \subseteq D
      BY <1>2, <1>4, JoinedType
<1>7. /\ IsList(builder.constraints) /\ \A rule \in ToSet(builder.constraints) : IsConstraint(rule)
      /\ IsList(builder.directives) /\ \A rule \in ToSet(builder.directives) : IsDirective(rule)
      BY DEF ShapeInv, BuilderOK, IsDecorators
<1>8. /\ ToSet(builder.constraints \o c) = ToSet(builder.constraints) \cup ToSet(c)
      /\ ToSet(builder.directives \o d) = ToSet(builder.directives) \cup ToSet(d)
      BY <1>5, <1>6, <1>7, ListConcat
<1>9. AllConstraints = builder.constraints \o c /\ AllDirectives = builder.directives \o d
      BY <1>3, <1>4 DEF AllConstraints, AllDirectives
<1> QED BY <1>1, <1>5, <1>6, <1>7, <1>8, <1>9

(* The state has its types: in particular what the builder has and what an
   export has collected are lists of constraints and lists of directives, no
   flag with a source, whatever the calls, the field types and the types met. *)
THEOREM TypesRight == Spec => []TypeOK
<1> SUFFICES ASSUME ShapeInv, MergeInv PROVE TypeOK
    BY ShapeHolds, PTL
<1>1. IsDecorators(collected)
  <2>1. CASE stage = "merging"
    <3>1. /\ next <= Len(Met) + 1 /\ next \in Nat \ {0}
          /\ MergeOf(collected.constraints, AllConstraints)
          /\ MergeOf(collected.directives, AllDirectives)
          BY <2>1 DEF MergeInv, ShapeInv
    <3>2. next - 1 \in 0 .. Len(Met)
          BY <3>1, MetTyped
    <3>3. /\ IsList(collected.constraints)
          /\ ToSet(collected.constraints) \subseteq ToSet(AllConstraints)
          /\ IsList(collected.directives)
          /\ ToSet(collected.directives) \subseteq ToSet(AllDirectives)
          BY <3>1 DEF MergeOf, FirstOfEach
    <3>4. /\ \A rule \in ToSet(AllConstraints) : IsConstraint(rule)
          /\ \A rule \in ToSet(AllDirectives) : IsDirective(rule)
          BY <3>2, AllTyped
    <3> QED BY <3>3, <3>4 DEF IsDecorators
  <2>2. CASE stage # "merging"
    <3>1. collected.constraints = << >> /\ collected.directives = << >>
          BY <2>2 DEF MergeInv
    <3> QED BY <3>1, EmptyList DEF IsDecorators
  <2> QED BY <2>1, <2>2
<1> QED BY <1>1 DEF ShapeInv, BuilderOK, TypeOK

(* An export holds each rule once, the first met, and every rule it met has one
   there that says the same, however many types it meets. *)
THEOREM MergedRulesAreFirst == Spec => []MergedOnce
<1> SUFFICES ASSUME ShapeInv, MergeInv PROVE MergedOnce
    BY ShapeHolds, PTL
<1> SUFFICES ASSUME stage = "merging"
             PROVE  /\ FirstOfEach(collected.constraints,
                          builder.constraints
                          \o FlattenSeq([m \in 1 .. next - 1 |-> Met[m].constraints]))
                    /\ FirstOfEach(collected.directives,
                          builder.directives
                          \o FlattenSeq([m \in 1 .. next - 1 |-> Met[m].directives]))
    BY DEF MergedOnce
<1>1. /\ next <= Len(Met) + 1 /\ next \in Nat \ {0}
      /\ MergeOf(collected.constraints, AllConstraints)
      /\ MergeOf(collected.directives, AllDirectives)
      BY DEF MergeInv, ShapeInv
<1>2. \A m \in 1 .. next - 1 : m \in 1 .. Len(Met)
      BY <1>1, MetTyped
<1>3. /\ [m \in 1 .. next - 1 |-> Met[m].constraints] = [m \in 1 .. next - 1 |-> MetConstraints[m]]
      /\ [m \in 1 .. next - 1 |-> Met[m].directives] = [m \in 1 .. next - 1 |-> MetDirectives[m]]
      BY <1>2, MetTyped
<1> QED BY <1>1, <1>3 DEF MergeOf, AllConstraints, AllDirectives, Joined

-----------------------------------------------------------------------------
(* One attribute's two calls leave its rule, stamped, in the right list. *)

LEMMA SequenceOf ==
    /\ InSequence({}) = << >>
    /\ \A x : InSequence({x}) = <<x>> /\ IsList(<<x>>)
<1>1. ASSUME NEW x PROVE InSequence({x}) = <<x>> /\ IsList(<<x>>)
  <2>1. Or({x}, {}) = x
        BY DEF Or
  <2>2. IsList(<<x>>)
    <3>1. <<x>> \in Seq({x})
          OBVIOUS
    <3> QED BY <3>1, SeqIsList
  <2> QED BY <2>1, <2>2 DEF InSequence
<1> QED BY <1>1 DEF InSequence

LEMMA AppendOne ==
    ASSUME NEW s, IsList(s), NEW x
    PROVE  Append(s, x) = s \o <<x>>
<1> DEFINE T == ToSet(s) \cup {x}
<1>1. s \in Seq(T) /\ x \in T
      BY ListIn
<1> HIDE DEF T
<1> QED BY ONLY <1>1, AppendIsConcat

LEMMA StampAppended ==
    ASSUME NEW s, IsList(s), NEW rule, NEW source
    PROVE  StampLast(Append(s, rule), source) = Append(s, [rule EXCEPT !.source = {source}])
<1> PICK stamped : stamped = [rule EXCEPT !.source = {source}]
    OBVIOUS
<1> PICK a : a = Append(s, rule)
    OBVIOUS
<1> PICK b : b = Append(s, stamped)
    OBVIOUS
<1>1. /\ IsList(a) /\ Len(a) = Len(s) + 1 /\ a[Len(s) + 1] = rule
      /\ \A n \in 1 .. Len(s) : a[n] = s[n]
      BY ListAppend
<1>2. /\ IsList(b) /\ Len(b) = Len(s) + 1 /\ b[Len(s) + 1] = stamped
      /\ \A n \in 1 .. Len(s) : b[n] = s[n]
      BY ListAppend
<1>3. /\ Len(s) \in Nat
      /\ DOMAIN a = 1 .. Len(s) + 1
      /\ b = [n \in 1 .. Len(s) + 1 |-> b[n]]
      BY <1>1, <1>2, ListShape
<1>4. StampLast(a, source) = [n \in 1 .. Len(s) + 1 |-> IF n = Len(s) + 1 THEN stamped ELSE a[n]]
      BY <1>1, <1>3 DEF StampLast
<1>5. \A n \in 1 .. Len(s) + 1 : b[n] = IF n = Len(s) + 1 THEN stamped ELSE a[n]
      BY <1>1, <1>2, <1>3
<1> QED BY <1>3, <1>4, <1>5

WithoutSource(rule) == [form |-> rule.form, args |-> rule.args]

IsBuilt(b, constraints, directives) ==
    /\ b = [constraints |-> b.constraints, directives |-> b.directives, last |-> b.last]
    /\ b.constraints = constraints /\ b.directives = directives

LEMMA CitedRule ==
    ASSUME NEW rule, IsRule(rule), NEW source
    PROVE  Cites({WithoutSource(rule)}, source) =
              {[rule EXCEPT !.source = IF rule.form = "flag" THEN {} ELSE {source}]}
<1> PICK said : said = WithoutSource(rule)
    OBVIOUS
<1>1. said.form = rule.form /\ said.args = rule.args
      BY DEF WithoutSource
<1>2. [rule EXCEPT !.source = IF rule.form = "flag" THEN {} ELSE {source}] =
         [form |-> said.form, args |-> said.args,
          source |-> IF said.form = "flag" THEN {} ELSE {source}]
      BY <1>1 DEF IsRule
<1>3. Cites({said}, source) =
         {[form |-> said.form, args |-> said.args,
           source |-> IF said.form = "flag" THEN {} ELSE {source}]}
      BY DEF Cites
<1> QED BY <1>2, <1>3

LEMMA OneAttribute ==
    ASSUME NEW b, NEW X, NEW Y, IsBuilt(b, X, Y), IsList(X), IsList(Y),
           NEW c, c.call \notin {"source", "extend_with"}, NEW s, s.call = "source",
           NEW meant, meant = {WithoutSource(BuiltRule(c))}
    PROVE  IsBuilt(Apply(Apply(b, c), s),
                   X \o InSequence(Constraints(Cites(meant, s.source))),
                   Y \o InSequence(Directives(Cites(meant, s.source))))
<1> PICK rule : rule = BuiltRule(c)
    OBVIOUS
<1>1. IsRule(rule) /\ rule.source = {}
      BY BuiltIsRule
<1> PICK cited : cited = [rule EXCEPT !.source = IF rule.form = "flag" THEN {} ELSE {s.source}]
    OBVIOUS
<1>2. Cites(meant, s.source) = {cited} /\ cited.form = rule.form
  <2>1. Cites(meant, s.source) = {cited}
        BY <1>1, CitedRule
  <2> QED BY <1>1, <2>1 DEF IsRule
<1>3. /\ b = [constraints |-> b.constraints, directives |-> b.directives, last |-> b.last]
      /\ b.constraints = X /\ b.directives = Y
      BY DEF IsBuilt
<1>4. Apply(b, c) = Push(b, rule)
      BY DEF Apply
<1>5. X \o << >> = X /\ Y \o << >> = Y
      BY DEF IsList
<1>6. CASE rule.form \in ConstraintForms
  <2> PICK x : x = Append(X, rule)
      OBVIOUS
  <2> PICK p : p = Push(b, rule)
      OBVIOUS
  <2>1. p = [constraints |-> x, directives |-> Y, last |-> "constraint"]
        BY <1>3, <1>6 DEF Push, PushConstraint
  <2>2. Apply(p, s) = Source(p, s.source)
        BY DEF Apply
  <2>3. Source(p, s.source) =
           [constraints |-> StampLast(x, s.source), directives |-> Y, last |-> "constraint"]
        BY <2>1 DEF Source
  <2>4. rule.form # "flag"
        BY <1>6 DEF ConstraintForms
  <2>5. StampLast(x, s.source) = X \o <<cited>>
    <3>1. StampLast(x, s.source) = Append(X, [rule EXCEPT !.source = {s.source}])
          BY StampAppended
    <3>2. [rule EXCEPT !.source = {s.source}] = cited
          BY <2>4
    <3>3. Append(X, cited) = X \o <<cited>>
          BY AppendOne
    <3> QED BY <3>1, <3>2, <3>3
  <2>6. /\ InSequence(Constraints(Cites(meant, s.source))) = <<cited>>
        /\ InSequence(Directives(Cites(meant, s.source))) = << >>
    <3>1. Constraints({cited}) = {cited} /\ Directives({cited}) = {}
          BY <1>2, <1>6 DEF Constraints, Directives
    <3> QED BY <1>2, <3>1, SequenceOf
  <2>7. Apply(Apply(b, c), s) =
           [constraints |-> X \o <<cited>>, directives |-> Y, last |-> "constraint"]
        BY <1>4, <2>2, <2>3, <2>5
  <2>8. IsBuilt(Apply(Apply(b, c), s), X \o <<cited>>, Y)
        BY <2>7 DEF IsBuilt
  <2> QED BY <1>5, <2>6, <2>8
<1>7. CASE rule.form \notin ConstraintForms
  <2> PICK y : y = Append(Y, rule)
      OBVIOUS
  <2> PICK p : p = Push(b, rule)
      OBVIOUS
  <2>1. p = [constraints |-> X, directives |-> y, last |-> "directive"]
        BY <1>3, <1>7 DEF Push, PushDirective
  <2>2. Apply(p, s) = Source(p, s.source)
        BY DEF Apply
  <2>3. /\ InSequence(Constraints(Cites(meant, s.source))) = << >>
        /\ InSequence(Directives(Cites(meant, s.source))) = <<cited>>
    <3>1. Constraints({cited}) = {} /\ Directives({cited}) = {cited}
          BY <1>2, <1>7 DEF Constraints, Directives
    <3> QED BY <1>2, <3>1, SequenceOf
  <2>4. Last(y) = rule
    <3>1. Len(y) = Len(Y) + 1 /\ y[Len(Y) + 1] = rule
          BY ListAppend
    <3> QED BY <3>1 DEF Last
  <2>5. CASE rule.form = "flag"
    <3>1. Source(p, s.source) = p
          BY <2>1, <2>4, <2>5 DEF Source
    <3>2. cited = rule
          BY <1>1, <2>5 DEF IsRule
    <3>3. y = Y \o <<cited>>
          BY <3>2, AppendOne
    <3>4. Apply(Apply(b, c), s) =
             [constraints |-> X, directives |-> Y \o <<cited>>, last |-> "directive"]
          BY <1>4, <2>1, <2>2, <3>1, <3>3
    <3>5. IsBuilt(Apply(Apply(b, c), s), X, Y \o <<cited>>)
          BY <3>4 DEF IsBuilt
    <3> QED BY <1>5, <2>3, <3>5
  <2>6. CASE rule.form # "flag"
    <3>1. Source(p, s.source) =
             [constraints |-> X, directives |-> StampLast(y, s.source), last |-> "directive"]
          BY <2>1, <2>4, <2>6 DEF Source
    <3>2. StampLast(y, s.source) = Y \o <<cited>>
      <4>1. StampLast(y, s.source) = Append(Y, [rule EXCEPT !.source = {s.source}])
            BY StampAppended
      <4>2. [rule EXCEPT !.source = {s.source}] = cited
            BY <2>6
      <4>3. Append(Y, cited) = Y \o <<cited>>
            BY AppendOne
      <4> QED BY <4>1, <4>2, <4>3
    <3>3. Apply(Apply(b, c), s) =
             [constraints |-> X, directives |-> Y \o <<cited>>, last |-> "directive"]
          BY <1>4, <2>2, <3>1, <3>2
    <3>4. IsBuilt(Apply(Apply(b, c), s), X, Y \o <<cited>>)
          BY <3>3 DEF IsBuilt
    <3> QED BY <1>5, <2>3, <3>4
  <2> QED BY <2>5, <2>6
<1> QED BY <1>6, <1>7

-----------------------------------------------------------------------------
(* The expansion: given that each attribute is read as it is meant, the own
   calls build the rules of the attributes in order. *)

ConstraintPieces(chosen) ==
    [n \in DOMAIN chosen |-> InSequence(Constraints(Cites(Meaning[chosen[n]], Own(n))))]
DirectivePieces(chosen) ==
    [n \in DOMAIN chosen |-> InSequence(Directives(Cites(Meaning[chosen[n]], Own(n))))]

Built(b, chosen, n) ==
    IsBuilt(b, Joined(ConstraintPieces(chosen), n), Joined(DirectivePieces(chosen), n))

FieldConstraints == [f \in DOMAIN Fields |-> Fields[f].constraints]
FieldDirectives == [f \in DOMAIN Fields |-> Fields[f].directives]

Gathered(b, chosen, n) ==
    IsBuilt(b,
        Joined(ConstraintPieces(chosen), Len(chosen)) \o Joined(FieldConstraints, n),
        Joined(DirectivePieces(chosen), Len(chosen)) \o Joined(FieldDirectives, n))

LEMMA InSequenceIsList ==
    ASSUME NEW rules
    PROVE  IsList(InSequence(rules))
<1>1. InSequence(rules) = << >> \/ \E x : InSequence(rules) = <<x>>
      BY DEF InSequence
<1> QED BY <1>1, EmptyList, SequenceOf

LEMMA PiecesAreLists ==
    ASSUME NEW chosen, NEW n \in DOMAIN chosen
    PROVE  IsList(ConstraintPieces(chosen)[n]) /\ IsList(DirectivePieces(chosen)[n])
BY InSequenceIsList DEF ConstraintPieces, DirectivePieces

LEMMA JoinedPieces ==
    ASSUME NEW chosen \in Seq(DOMAIN Catalogue), NEW n \in 0 .. Len(chosen)
    PROVE  /\ IsList(Joined(ConstraintPieces(chosen), n))
           /\ IsList(Joined(DirectivePieces(chosen), n))
<1> DEFINE c == ConstraintPieces(chosen)
           d == DirectivePieces(chosen)
           C == UNION {ToSet(c[i]) : i \in 1 .. n}
           D == UNION {ToSet(d[i]) : i \in 1 .. n}
<1>1. n \in Nat /\ \A i \in 1 .. n : i \in DOMAIN chosen
      OBVIOUS
<1>2. \A i \in 1 .. n : IsList(c[i]) /\ IsList(d[i])
      BY <1>1, PiecesAreLists
<1>3. \A i \in 1 .. n : ToSet(c[i]) \subseteq C /\ ToSet(d[i]) \subseteq D
      OBVIOUS
<1> HIDE DEF c, d, C, D
<1>4. IsList(Joined(c, n)) /\ IsList(Joined(d, n))
      BY <1>1, <1>2, <1>3, JoinedType
<1> QED BY <1>4 DEF c, d

LEMMA MeaningOfCalls ==
    ASSUME ReadAsMeant, NEW a \in DOMAIN Catalogue, Parsed[a].ok
    PROVE  /\ IsValid[a]
           /\ Parsed[a].calls = {} => Meaning[a] = {} /\ ~MeansARule(Catalogue[a])
           /\ \A call \in Parsed[a].calls :
                 /\ MeansARule(Catalogue[a])
                 /\ Meaning[a] = {WithoutSource(BuiltRule([call EXCEPT !.args = Quote(@)]))}
           /\ Warned[a] <=> IsDeprecated(Catalogue[a])
<1>1. /\ IsValid[a]
      /\ {[form |-> rule.form, args |-> rule.args] : rule \in Read(a)} = Meaning[a]
      /\ Warned[a] <=> IsDeprecated(Catalogue[a])
      BY DEF ReadAsMeant
<1>2. {WithoutSource(rule) : rule \in Read(a)} = Meaning[a]
      BY <1>1 DEF WithoutSource
<1>3. Meaning[a] = IF MeansARule(Catalogue[a]) THEN {Meant(Catalogue[a])} ELSE {}
      BY <1>1 DEF Meaning
<1>4. CASE Parsed[a].calls = {}
  <2>1. Read(a) = {}
        BY <1>4 DEF Read
  <2> QED BY <1>1, <1>2, <1>3, <1>4, <2>1
<1>5. ASSUME NEW call \in Parsed[a].calls
      PROVE  /\ MeansARule(Catalogue[a])
             /\ Meaning[a] = {WithoutSource(BuiltRule([call EXCEPT !.args = Quote(@)]))}
  <2> PICK rule : rule = BuiltRule([call EXCEPT !.args = Quote(@)])
      OBVIOUS
  <2>1. rule \in Read(a)
        BY DEF Read
  <2>2. WithoutSource(rule) \in Meaning[a]
        BY <1>2, <2>1
  <2> QED BY <1>3, <2>2
<1> QED BY <1>1, <1>4, <1>5

LEMMA NextSilent ==
    ASSUME ReadAsMeant, NEW chosen \in Seq(DOMAIN Catalogue),
           NEW n \in Nat, n + 1 <= Len(chosen), Parsed[chosen[n + 1]].ok,
           Parsed[chosen[n + 1]].calls = {}, NEW b, Built(b, chosen, n)
    PROVE  Built(b, chosen, n + 1)
<1>1. chosen[n + 1] \in DOMAIN Catalogue /\ n + 1 \in DOMAIN chosen /\ n \in 0 .. Len(chosen)
      OBVIOUS
<1>2. Meaning[chosen[n + 1]] = {}
      BY <1>1, MeaningOfCalls
<1>3. Constraints(Cites({}, Own(n + 1))) = {} /\ Directives(Cites({}, Own(n + 1))) = {}
      BY DEF Constraints, Directives, Cites
<1> PICK c : c = ConstraintPieces(chosen)
    OBVIOUS
<1> PICK d : d = DirectivePieces(chosen)
    OBVIOUS
<1>4. c[n + 1] = << >> /\ d[n + 1] = << >>
      BY <1>1, <1>2, <1>3, SequenceOf DEF ConstraintPieces, DirectivePieces
<1>5. IsList(Joined(c, n)) /\ IsList(Joined(d, n))
      BY <1>1, JoinedPieces
<1>6. /\ Joined(c, n + 1) = Joined(c, n) \o << >>
      /\ Joined(d, n + 1) = Joined(d, n) \o << >>
  <2>1. IsList(c[n + 1]) /\ IsList(d[n + 1])
        BY <1>4, EmptyList
  <2>2. Joined(c, n + 1) = Joined(c, n) \o c[n + 1] /\ Joined(d, n + 1) = Joined(d, n) \o d[n + 1]
        BY <2>1, JoinedMore
  <2> QED BY <1>4, <2>2
<1>7. \A x : IsList(x) => x \o << >> = x
      BY DEF IsList
<1> QED BY <1>5, <1>6, <1>7 DEF Built

LEMMA NextBuilt ==
    ASSUME ReadAsMeant, NEW chosen \in Seq(DOMAIN Catalogue),
           NEW n \in Nat, n + 1 <= Len(chosen), Parsed[chosen[n + 1]].ok,
           NEW call \in Parsed[chosen[n + 1]].calls, NEW b, Built(b, chosen, n),
           NEW first, first = [call EXCEPT !.args = Quote(call.args)],
           NEW second, second = [call |-> "source", source |-> Own(n + 1)]
    PROVE  Built(Apply(Apply(b, first), second), chosen, n + 1)
<1>1. chosen[n + 1] \in DOMAIN Catalogue /\ n + 1 \in DOMAIN chosen /\ n \in 0 .. Len(chosen)
      OBVIOUS
<1> PICK meant : meant = Meaning[chosen[n + 1]]
    OBVIOUS
<1>2. meant = {WithoutSource(BuiltRule(first))}
      BY <1>1, MeaningOfCalls
<1>3. first.call \notin {"source", "extend_with"}
  <2>1. OwnCall(call)
        BY <1>1, ParsedOwn DEF OwnCalls
  <2> QED BY <2>1 DEF OwnCall
<1> PICK c : c = ConstraintPieces(chosen)
    OBVIOUS
<1> PICK d : d = DirectivePieces(chosen)
    OBVIOUS
<1>4. second.call = "source" /\ second.source = Own(n + 1)
      OBVIOUS
<1>5. /\ c[n + 1] = InSequence(Constraints(Cites(meant, second.source)))
      /\ d[n + 1] = InSequence(Directives(Cites(meant, second.source)))
      BY <1>1, <1>4 DEF ConstraintPieces, DirectivePieces
<1>6. IsList(Joined(c, n)) /\ IsList(Joined(d, n))
      BY <1>1, JoinedPieces
<1>7. IsBuilt(b, Joined(c, n), Joined(d, n))
      BY DEF Built
<1>8. IsBuilt(Apply(Apply(b, first), second), Joined(c, n) \o c[n + 1], Joined(d, n) \o d[n + 1])
  <2> PICK X, Y : X = Joined(c, n) /\ Y = Joined(d, n)
      OBVIOUS
  <2>1. IsList(X) /\ IsList(Y) /\ IsBuilt(b, X, Y)
        BY <1>6, <1>7
  <2>2. IsBuilt(Apply(Apply(b, first), second),
                X \o InSequence(Constraints(Cites(meant, second.source))),
                Y \o InSequence(Directives(Cites(meant, second.source))))
        BY ONLY <1>2, <1>3, <1>4, <2>1, OneAttribute
  <2> QED BY <1>5, <2>2
<1>9. Joined(c, n + 1) = Joined(c, n) \o c[n + 1] /\ Joined(d, n + 1) = Joined(d, n) \o d[n + 1]
  <2>1. IsList(c[n + 1]) /\ IsList(d[n + 1])
        BY <1>1, PiecesAreLists
  <2> QED BY <2>1, JoinedMore
<1> QED BY <1>8, <1>9 DEF Built

(* The attributes that the macro has been through *)
Gone == IF stage \in {"expanding", "refused"} THEN next - 1 ELSE Len(attrs)

Warning(chosen, n) ==
    {i \in 1 .. n : MeansARule(Catalogue[chosen[i]]) /\ IsDeprecated(Catalogue[chosen[i]])}

ReadInv ==
    /\ Gone \in 0 .. Len(attrs)
    /\ \A n \in 1 .. Gone : IsValid[attrs[n]]
    /\ ToSet(shims) = Warning(attrs, Gone)
    /\ stage = "refused" => next <= Len(attrs) /\ ~IsValid[attrs[next]]

(* The calls one after another: run[i] is the builder after i of them. *)
Runs(run, list, m) ==
    run[0] = NewBuilder /\ \A i \in 1 .. m : run[i] = Apply(run[i - 1], list[i])

Probe(n) == [call |-> "extend_with", set |-> Fields[n]]

Running(run, m, list, chosen, n, b) ==
    /\ Len(list) = m + Len(Fields) /\ n <= Len(list)
    /\ Runs(run, list, m) /\ Built(run[m], chosen, Len(chosen))
    /\ \A i \in 1 .. Len(Fields) : list[m + i] = Probe(i)
    /\ n <= m => b = run[n]
    /\ n > m => Gathered(b, chosen, n - m)

RunInv ==
    /\ stage = "expanding" =>
          /\ builder = NewBuilder
          /\ \E run : Runs(run, calls, Len(calls)) /\ Built(run[Len(calls)], attrs, next - 1)
    /\ stage = "running" =>
          \E m \in Nat : \E run : Running(run, m, calls, attrs, next - 1, builder)
    /\ stage = "merging" => Gathered(builder, attrs, Len(Fields))

LEMMA ReadInit == Init /\ ShapeInv => ReadInv
<1> SUFFICES ASSUME Init, ShapeInv PROVE ReadInv
    OBVIOUS
<1>1. stage = "expanding" /\ next = 1 /\ shims = << >>
      BY DEF Init
<1>2. Gone = 0 /\ Len(attrs) \in Nat
      BY <1>1 DEF Gone, ShapeInv
<1>3. 1 .. Gone = {}
      BY <1>2
<1>4. Warning(attrs, Gone) = {} /\ ToSet(shims) = {}
      BY <1>1, <1>3, EmptyList DEF Warning
<1>5. Gone \in 0 .. Len(attrs)
      BY <1>2
<1>6. \A n \in 1 .. Gone : IsValid[attrs[n]]
      BY <1>3
<1>7. ToSet(shims) = Warning(attrs, Gone) /\ stage # "refused"
      BY <1>1, <1>4
<1> QED BY <1>5, <1>6, <1>7 DEF ReadInv

LEMMA WarningMore ==
    ASSUME NEW chosen, NEW n \in Nat, NEW a, a = chosen[n + 1]
    PROVE  /\ MeansARule(Catalogue[a]) /\ IsDeprecated(Catalogue[a]) =>
                 Warning(chosen, n + 1) = Warning(chosen, n) \cup {n + 1}
           /\ ~(MeansARule(Catalogue[a]) /\ IsDeprecated(Catalogue[a])) =>
                 Warning(chosen, n + 1) = Warning(chosen, n)
<1>1. 1 .. n + 1 = 1 .. n \cup {n + 1}
      OBVIOUS
<1> QED BY <1>1 DEF Warning

LEMMA ExpandRead ==
    ASSUME ReadAsMeant, ShapeInv, ReadInv, Expand
    PROVE  ReadInv'
<1>1. /\ stage = "expanding" /\ next <= Len(attrs) /\ next' = next + 1
      /\ attrs' = attrs /\ stage' = stage
      BY DEF Expand
<1>2. attrs \in Seq(DOMAIN Catalogue) /\ next \in Nat \ {0} /\ IsList(shims)
      BY DEF ShapeInv
<1> PICK n \in Nat : next = n + 1 /\ next - 1 = n /\ next' - 1 = n + 1
    BY <1>1, <1>2
<1> PICK a : a = attrs[n + 1]
    OBVIOUS
<1>3. n + 1 <= Len(attrs) /\ a \in DOMAIN Catalogue
      BY <1>1, <1>2
<1>4. Gone = n /\ Gone' = n + 1 /\ n + 1 \in 0 .. Len(attrs)
      BY <1>1, <1>3 DEF Gone
<1>5. Expanded(Parsed[a])
      BY DEF Expand
<1>6. /\ IsValid[a]
      /\ Parsed[a].calls = {} => ~MeansARule(Catalogue[a])
      /\ Parsed[a].calls # {} => MeansARule(Catalogue[a])
      /\ Warned[a] <=> IsDeprecated(Catalogue[a])
      BY <1>3, <1>5, MeaningOfCalls DEF Expanded
<1>7. \A i \in 1 .. n + 1 : IsValid[attrs[i]]
  <2>1. \A i \in 1 .. n : IsValid[attrs[i]]
        BY <1>4 DEF ReadInv
  <2> QED BY <1>6, <2>1
<1>8. ToSet(shims) = Warning(attrs, n)
      BY <1>4 DEF ReadInv
<1>9. ToSet(shims') = Warning(attrs, n + 1)
  <2>1. CASE Parsed[a].calls = {}
    <3>1. shims' = shims /\ ~MeansARule(Catalogue[a])
          BY <1>5, <1>6, <2>1 DEF Expanded
    <3> QED BY <1>8, <3>1, WarningMore
  <2>2. CASE Parsed[a].calls # {}
    <3>1. shims' = IF Warned[a] THEN Append(shims, next) ELSE shims
          BY <1>5, <2>2 DEF Expanded
    <3>2. MeansARule(Catalogue[a]) /\ (Warned[a] <=> IsDeprecated(Catalogue[a]))
          BY <1>6, <2>2
    <3>3. ToSet(Append(shims, next)) = ToSet(shims) \cup {n + 1}
          BY <1>2, ListAppend
    <3>4. CASE IsDeprecated(Catalogue[a])
      <4>1. ToSet(shims') = ToSet(shims) \cup {n + 1}
            BY <3>1, <3>2, <3>3, <3>4
      <4> QED BY <1>8, <3>2, <3>4, <4>1, WarningMore
    <3>5. CASE ~IsDeprecated(Catalogue[a])
      <4>1. shims' = shims
            BY <3>1, <3>2, <3>5
      <4> QED BY <1>8, <3>5, <4>1, WarningMore
    <3> QED BY <3>4, <3>5
  <2> QED BY <2>1, <2>2
<1> QED BY <1>1, <1>4, <1>7, <1>9 DEF ReadInv

LEMMA ReadStep ==
    ASSUME ReadAsMeant
    PROVE  ShapeInv /\ ReadInv /\ [Next]_vars => ReadInv'
<1> SUFFICES ASSUME ShapeInv, ReadInv, [Next]_vars PROVE ReadInv'
    OBVIOUS
<1>1. /\ attrs \in Seq(DOMAIN Catalogue) /\ next \in Nat \ {0} /\ Len(attrs) \in Nat
      /\ stage \in {"expanding", "refused", "running", "merging"}
      BY DEF ShapeInv
<1>2. CASE Expand
      BY <1>2, ExpandRead
<1>3. CASE Refuse
  <2>1. /\ stage = "expanding" /\ next <= Len(attrs) /\ ~Parsed[attrs[next]].ok
        /\ stage' = "refused" /\ UNCHANGED <<attrs, next, shims>>
        BY <1>3 DEF Refuse
  <2>2. Gone' = Gone
        BY <2>1 DEF Gone
  <2>3. ~IsValid[attrs[next]]
    <3>1. attrs[next] \in DOMAIN Catalogue
          BY <1>1, <2>1
    <3> QED BY <2>1, <3>1 DEF ReadAsMeant
  <2> QED BY <2>1, <2>2, <2>3 DEF ReadInv
<1>4. CASE FinishExpansion
  <2>1. /\ stage = "expanding" /\ next > Len(attrs) /\ stage' = "running"
        /\ UNCHANGED <<attrs, shims>>
        BY <1>4 DEF FinishExpansion
  <2>2. Gone = Len(attrs) /\ Gone' = Gone
        BY <1>1, <2>1 DEF Gone, ReadInv
  <2> QED BY <2>1, <2>2 DEF ReadInv
<1>5. CASE RunCall \/ Build \/ Merge
  <2>1. /\ stage \in {"running", "merging"} /\ stage' \in {"running", "merging"}
        /\ UNCHANGED <<attrs, shims>>
        BY <1>5 DEF RunCall, Build, Merge
  <2>2. Gone' = Gone
        BY <2>1 DEF Gone
  <2> QED BY <2>1, <2>2 DEF ReadInv
<1>6. CASE UNCHANGED vars
  <2>1. UNCHANGED <<attrs, shims, stage, next>>
        BY <1>6 DEF vars
  <2>2. Gone' = Gone
        BY <2>1 DEF Gone
  <2> QED BY <2>1, <2>2 DEF ReadInv
<1> QED BY <1>2, <1>3, <1>4, <1>5, <1>6 DEF Next

LEMMA RunInit == Init /\ ShapeInv => RunInv
<1> SUFFICES ASSUME Init, ShapeInv PROVE RunInv
    OBVIOUS
<1>1. stage = "expanding" /\ next = 1 /\ calls = << >> /\ builder = NewBuilder
      BY DEF Init
<1>2. Len(calls) = 0 /\ next - 1 = 0
      BY <1>1
<1> DEFINE run == [i \in 0 .. 0 |-> NewBuilder]
<1>3. run[0] = NewBuilder /\ 1 .. 0 = {}
      OBVIOUS
<1> HIDE DEF run
<1>4. Runs(run, calls, 0)
      BY <1>3 DEF Runs
<1>5. Built(run[0], attrs, 0)
      BY <1>3, JoinedNone DEF Built, IsBuilt, NewBuilder
<1>6. Runs(run, calls, Len(calls)) /\ Built(run[Len(calls)], attrs, next - 1)
      BY <1>2, <1>4, <1>5
<1> QED BY <1>1, <1>6 DEF RunInv

(* The own calls, continued by a pair *)
LEMMA RunsMore ==
    ASSUME NEW list, IsList(list), NEW pair, IsList(pair), Len(pair) = 2,
           NEW run, Runs(run, list, Len(list))
    PROVE  \E more : /\ Runs(more, list \o pair, Len(list \o pair))
                     /\ more[Len(list \o pair)] = Apply(Apply(run[Len(list)], pair[1]), pair[2])
<1> PICK m \in Nat : m = Len(list)
    BY ListShape
<1> PICK all : all = list \o pair
    OBVIOUS
<1>1. /\ Len(all) = m + 2
      /\ \A n \in 1 .. m : all[n] = list[n]
      /\ all[m + 1] = pair[1] /\ all[m + 2] = pair[2]
  <2>1. Len(all) = Len(list) + Len(pair) /\ \A n \in 1 .. Len(list) : all[n] = list[n]
        BY ListConcat
  <2>2. \A n \in 1 .. Len(pair) : all[Len(list) + n] = pair[n]
    <3>1. \A n \in 1 .. Len(pair) : (list \o pair)[Len(list) + n] = pair[n]
          BY ONLY IsList(list), IsList(pair), ListConcat
    <3> QED BY <3>1
  <2> QED BY <2>1, <2>2
<1> DEFINE more == [i \in 0 .. m + 2 |->
                      IF i <= m THEN run[i]
                      ELSE IF i = m + 1 THEN Apply(run[m], pair[1])
                      ELSE Apply(Apply(run[m], pair[1]), pair[2])]
<1>2. /\ \A i \in 0 .. m : more[i] = run[i]
      /\ more[m + 1] = Apply(run[m], pair[1])
      /\ more[m + 2] = Apply(Apply(run[m], pair[1]), pair[2])
      OBVIOUS
<1> HIDE DEF more
<1>3. run[0] = NewBuilder /\ \A i \in 1 .. m : run[i] = Apply(run[i - 1], list[i])
      BY DEF Runs
<1>4. ASSUME NEW i \in 1 .. m + 2 PROVE more[i] = Apply(more[i - 1], all[i])
  <2>1. CASE i <= m
    <3>1. i \in 1 .. m /\ i \in 0 .. m /\ i - 1 \in 0 .. m
          BY <2>1
    <3> QED BY <1>1, <1>2, <1>3, <3>1
  <2>2. CASE i = m + 1
    <3>1. i - 1 = m /\ m \in 0 .. m
          BY <2>2
    <3>2. more[m] = run[m]
          BY <1>2, <3>1
    <3> QED BY <1>1, <1>2, <2>2, <3>1, <3>2
  <2>3. CASE i = m + 2
    <3>1. i - 1 = m + 1
          BY <2>3
    <3> QED BY <1>1, <1>2, <2>3, <3>1
  <2> QED BY ONLY <2>1, <2>2, <2>3, m \in Nat, i \in 1 .. m + 2
<1>5. more[0] = NewBuilder
      BY <1>2, <1>3
<1>6. Runs(more, all, m + 2)
      BY <1>4, <1>5 DEF Runs
<1> QED BY <1>1, <1>2, <1>6

LEMMA ExpandRun ==
    ASSUME ReadAsMeant, ShapeInv, RunInv, Expand
    PROVE  RunInv'
<1>1. /\ stage = "expanding" /\ next <= Len(attrs) /\ next' = next + 1
      /\ attrs' = attrs /\ stage' = stage /\ builder' = builder
      BY DEF Expand
<1>2. attrs \in Seq(DOMAIN Catalogue) /\ next \in Nat \ {0} /\ IsList(calls)
      BY DEF ShapeInv
<1> PICK n \in Nat : next = n + 1 /\ next - 1 = n /\ next' - 1 = n + 1
    BY <1>1, <1>2
<1>3. n + 1 <= Len(attrs)
      BY <1>1
<1>4. Expanded(Parsed[attrs[n + 1]])
      BY DEF Expand
<1>5. Parsed[attrs[n + 1]].ok
      BY <1>4 DEF Expanded
<1>6. builder = NewBuilder
      BY <1>1 DEF RunInv
<1> PICK run : Runs(run, calls, Len(calls)) /\ Built(run[Len(calls)], attrs, n)
    BY <1>1 DEF RunInv
<1>7. \E more : Runs(more, calls', Len(calls')) /\ Built(more[Len(calls')], attrs, n + 1)
  <2>1. CASE Parsed[attrs[n + 1]].calls = {} /\ calls' = calls
    <3>1. Built(run[Len(calls)], attrs, n + 1)
          BY <1>2, <1>3, <1>5, <2>1, NextSilent
    <3> QED BY <2>1, <3>1
  <2>2. CASE \E call \in Parsed[attrs[n + 1]].calls : calls' = calls \o Stamped(call, n + 1)
    <3> PICK call \in Parsed[attrs[n + 1]].calls : calls' = calls \o Stamped(call, n + 1)
        BY <2>2
    <3> PICK pair : pair = Stamped(call, n + 1)
        OBVIOUS
    <3>1. /\ IsList(pair) /\ Len(pair) = 2
          /\ pair[1] = [call EXCEPT !.args = Quote(call.args)]
          /\ pair[2] = [call |-> "source", source |-> Own(n + 1)]
          BY StampedPair
    <3>2. Built(Apply(Apply(run[Len(calls)], pair[1]), pair[2]), attrs, n + 1)
          BY <1>2, <1>3, <1>5, <3>1, NextBuilt
    <3>3. calls' = calls \o pair
          OBVIOUS
    <3>4. \E more : /\ Runs(more, calls \o pair, Len(calls \o pair))
                    /\ more[Len(calls \o pair)] = Apply(Apply(run[Len(calls)], pair[1]), pair[2])
          BY <1>2, <3>1, RunsMore
    <3> QED BY <3>2, <3>3, <3>4
  <2> QED BY <1>4, <2>1, <2>2 DEF Expanded
<1> QED BY <1>1, <1>6, <1>7 DEF RunInv

LEMMA FieldTyped ==
    /\ Len(Fields) \in Nat /\ DOMAIN Fields = 1 .. Len(Fields)
    /\ \A f \in 1 .. Len(Fields) :
          /\ FieldConstraints[f] = Fields[f].constraints /\ IsList(FieldConstraints[f])
          /\ FieldDirectives[f] = Fields[f].directives /\ IsList(FieldDirectives[f])
<1>1. IsList(Fields)
      BY ConstantsAreTyped
<1>2. /\ Len(Fields) \in Nat /\ DOMAIN Fields = 1 .. Len(Fields)
      /\ \A f \in 1 .. Len(Fields) : Fields[f] \in ToSet(Fields)
      BY <1>1, ListShape
<1>3. \A f \in 1 .. Len(Fields) : IsDecorators(Fields[f])
      BY <1>2, ConstantsAreTyped
<1> QED BY <1>2, <1>3 DEF FieldConstraints, FieldDirectives, IsDecorators

LEMMA GatheredNone ==
    ASSUME NEW chosen \in Seq(DOMAIN Catalogue), NEW b, Built(b, chosen, Len(chosen))
    PROVE  Gathered(b, chosen, 0)
<1> PICK c, d : /\ c = Joined(ConstraintPieces(chosen), Len(chosen))
                /\ d = Joined(DirectivePieces(chosen), Len(chosen))
    OBVIOUS
<1>1. Len(chosen) \in 0 .. Len(chosen)
      OBVIOUS
<1>2. IsList(c) /\ IsList(d)
      BY <1>1, JoinedPieces
<1>3. c \o << >> = c /\ d \o << >> = d
      BY <1>2 DEF IsList
<1>4. Joined(FieldConstraints, 0) = << >> /\ Joined(FieldDirectives, 0) = << >>
      BY JoinedNone
<1>5. IsBuilt(b, c, d)
      BY DEF Built
<1>6. IsBuilt(b, c \o Joined(FieldConstraints, 0), d \o Joined(FieldDirectives, 0))
      BY <1>3, <1>4, <1>5
<1> QED BY <1>6 DEF Gathered

LEMMA JoinedFields ==
    ASSUME NEW n \in 0 .. Len(Fields)
    PROVE  IsList(Joined(FieldConstraints, n)) /\ IsList(Joined(FieldDirectives, n))
<1> DEFINE C == UNION {ToSet(FieldConstraints[i]) : i \in 1 .. n}
           D == UNION {ToSet(FieldDirectives[i]) : i \in 1 .. n}
<1>1. n \in Nat /\ \A i \in 1 .. n : i \in 1 .. Len(Fields)
      BY FieldTyped
<1>2. \A i \in 1 .. n : IsList(FieldConstraints[i]) /\ IsList(FieldDirectives[i])
      BY <1>1, FieldTyped
<1>3. \A i \in 1 .. n : /\ ToSet(FieldConstraints[i]) \subseteq C
                        /\ ToSet(FieldDirectives[i]) \subseteq D
      OBVIOUS
<1> HIDE DEF C, D
<1> QED BY <1>1, <1>2, <1>3, JoinedType

LEMMA GatheredMore ==
    ASSUME NEW chosen \in Seq(DOMAIN Catalogue), NEW n \in Nat, n + 1 <= Len(Fields),
           NEW b, Gathered(b, chosen, n)
    PROVE  Gathered(Apply(b, Probe(n + 1)), chosen, n + 1)
<1> PICK c, d : /\ c = Joined(ConstraintPieces(chosen), Len(chosen))
                /\ d = Joined(DirectivePieces(chosen), Len(chosen))
    OBVIOUS
<1> PICK fc, fd : fc = Joined(FieldConstraints, n) /\ fd = Joined(FieldDirectives, n)
    OBVIOUS
<1> PICK set : set = Fields[n + 1]
    OBVIOUS
<1>1. Len(chosen) \in 0 .. Len(chosen) /\ n \in 0 .. Len(Fields) /\ n + 1 \in 1 .. Len(Fields)
      BY FieldTyped
<1>2. /\ IsList(c) /\ IsList(d) /\ IsList(fc) /\ IsList(fd)
      BY <1>1, JoinedPieces, JoinedFields
<1>3. /\ FieldConstraints[n + 1] = set.constraints /\ IsList(set.constraints)
      /\ FieldDirectives[n + 1] = set.directives /\ IsList(set.directives)
      BY <1>1, FieldTyped
<1>4. IsBuilt(b, c \o fc, d \o fd)
      BY DEF Gathered
<1>5. Apply(b, Probe(n + 1)) = ExtendWith(b, set)
      BY DEF Apply, Probe
<1>6. IsBuilt(ExtendWith(b, set), (c \o fc) \o set.constraints, (d \o fd) \o set.directives)
      BY <1>4 DEF IsBuilt, ExtendWith
<1>7. /\ (c \o fc) \o set.constraints = c \o (fc \o set.constraints)
      /\ (d \o fd) \o set.directives = d \o (fd \o set.directives)
  <2>0. PICK x, y : x = set.constraints /\ y = set.directives
        OBVIOUS
  <2>1. IsList(x) /\ IsList(y)
        BY <1>3, <2>0
  <2>2. IsList(c) /\ IsList(fc) /\ IsList(x) => (c \o fc) \o x = c \o (fc \o x)
        BY ONLY ThreeLists
  <2>3. IsList(d) /\ IsList(fd) /\ IsList(y) => (d \o fd) \o y = d \o (fd \o y)
        BY ONLY ThreeLists
  <2>4. (c \o fc) \o x = c \o (fc \o x) /\ (d \o fd) \o y = d \o (fd \o y)
        BY ONLY <1>2, <2>1, <2>2, <2>3
  <2> QED BY ONLY <2>0, <2>4
<1>8. /\ Joined(FieldConstraints, n + 1) = fc \o set.constraints
      /\ Joined(FieldDirectives, n + 1) = fd \o set.directives
      BY <1>3, JoinedMore
<1> QED BY <1>5, <1>6, <1>7, <1>8 DEF Gathered

LEMMA FinishRun ==
    ASSUME ShapeInv, ReadInv, RunInv, FinishExpansion
    PROVE  RunInv'
<1>1. /\ stage = "expanding" /\ next > Len(attrs) /\ stage' = "running" /\ next' = 1
      /\ calls' = calls \o [n \in DOMAIN Fields |-> [call |-> "extend_with", set |-> Fields[n]]]
      /\ attrs' = attrs /\ builder' = builder
      BY DEF FinishExpansion
<1>2. attrs \in Seq(DOMAIN Catalogue) /\ next \in Nat \ {0} /\ IsList(calls)
      BY DEF ShapeInv
<1>3. next - 1 = Len(attrs)
  <2>1. Len(attrs) \in Nat
        BY <1>2
  <2>2. Gone \in 0 .. Len(attrs) /\ Gone = next - 1
        BY <1>1 DEF ReadInv, Gone
  <2> QED BY ONLY <1>1, <1>2, <2>1, <2>2
<1> PICK run : Runs(run, calls, Len(calls)) /\ Built(run[Len(calls)], attrs, Len(attrs))
    BY <1>1, <1>3 DEF RunInv
<1> PICK m \in Nat : m = Len(calls)
    BY <1>2, ListShape
<1> PICK probes : probes = [n \in DOMAIN Fields |-> [call |-> "extend_with", set |-> Fields[n]]]
    OBVIOUS
<1>4. /\ IsList(probes) /\ Len(probes) = Len(Fields)
      /\ \A n \in 1 .. Len(Fields) : probes[n] = Probe(n)
  <2>1. /\ probes = [n \in 1 .. Len(Fields) |-> probes[n]]
        /\ \A n \in 1 .. Len(Fields) : probes[n] = Probe(n)
        BY FieldTyped DEF Probe
  <2> QED BY <2>1, FieldTyped, ListMade
<1> PICK list : list = calls'
    OBVIOUS
<1>5. /\ Len(list) = m + Len(Fields)
      /\ \A n \in 1 .. m : list[n] = calls[n]
      /\ \A n \in 1 .. Len(Fields) : list[m + n] = Probe(n)
  <2>1. Len(list) = m + Len(probes) /\ \A n \in 1 .. m : list[n] = calls[n]
        BY <1>1, <1>2, <1>4, ListConcat
  <2>2. \A n \in 1 .. Len(probes) : (calls \o probes)[Len(calls) + n] = probes[n]
        BY <1>2, <1>4, ListConcat
  <2> QED BY <1>1, <1>4, <2>1, <2>2
<1>6. Runs(run, list, m)
      BY <1>5 DEF Runs
<1>7. run[0] = builder
      BY <1>1, <1>6 DEF Runs, RunInv
<1>8. Running(run, m, list, attrs, 0, builder)
      BY <1>5, <1>6, <1>7, FieldTyped DEF Running
<1>9. next' - 1 = 0
      BY <1>1
<1>10. \E k \in Nat : \E r : Running(r, k, calls', attrs', next' - 1, builder')
      BY <1>1, <1>8, <1>9
<1> QED BY <1>1, <1>10 DEF RunInv

LEMMA CallRun ==
    ASSUME ShapeInv, RunInv, RunCall
    PROVE  RunInv'
<1>1. /\ stage = "running" /\ next <= Len(calls) /\ builder' = Apply(builder, calls[next])
      /\ next' = next + 1 /\ attrs' = attrs /\ stage' = stage /\ calls' = calls
      BY DEF RunCall
<1>2. attrs \in Seq(DOMAIN Catalogue) /\ next \in Nat \ {0} /\ Len(calls) \in Nat
      BY ListShape DEF ShapeInv
<1> PICK n \in Nat : next = n + 1 /\ next - 1 = n /\ next' - 1 = n + 1
    BY <1>1, <1>2
<1> PICK m \in Nat : \E run : Running(run, m, calls, attrs, n, builder)
    BY <1>1 DEF RunInv
<1> PICK run : Running(run, m, calls, attrs, n, builder)
    OBVIOUS
<1>3. /\ Len(calls) = m + Len(Fields) /\ n + 1 <= Len(calls)
      /\ Runs(run, calls, m) /\ Built(run[m], attrs, Len(attrs))
      /\ \A i \in 1 .. Len(Fields) : calls[m + i] = Probe(i)
      /\ n <= m => builder = run[n]
      /\ n > m => Gathered(builder, attrs, n - m)
      BY <1>1 DEF Running
<1>4. CASE n < m
  <2>1. n + 1 \in 1 .. m /\ n <= m /\ ~(n + 1 > m) /\ (n + 1) - 1 = n
        BY <1>4
  <2>2. run[n + 1] = Apply(run[n], calls[n + 1])
        BY <1>3, <2>1 DEF Runs
  <2>3. builder' = run[n + 1]
        BY <1>1, <1>3, <2>1, <2>2
  <2>4. Running(run, m, calls, attrs, n + 1, builder')
        BY <1>3, <2>1, <2>3 DEF Running
  <2> QED BY <1>1, <2>4 DEF RunInv
<1>5. CASE n >= m
  <2> PICK k \in Nat : n = m + k /\ n - m = k
      BY <1>5
  <2>1. Gathered(builder, attrs, k)
    <3>1. CASE k = 0
          BY <1>2, <1>3, <3>1, GatheredNone
    <3>2. CASE k # 0
          BY <1>3, <3>2
    <3> QED BY <3>1, <3>2
  <2>2. k + 1 <= Len(Fields) /\ k + 1 \in 1 .. Len(Fields) /\ n + 1 = m + (k + 1)
        BY <1>3, FieldTyped
  <2>3. calls[n + 1] = Probe(k + 1)
        BY <1>3, <2>2
  <2>4. Gathered(builder', attrs, k + 1)
    <3>1. Gathered(Apply(builder, Probe(k + 1)), attrs, k + 1)
          BY <1>2, <2>1, <2>2, GatheredMore
    <3> QED BY <1>1, <2>3, <3>1
  <2>5. (n + 1) - m = k + 1 /\ ~(n + 1 <= m)
        BY <2>2
  <2>6. Running(run, m, calls, attrs, n + 1, builder')
        BY <1>3, <2>4, <2>5 DEF Running
  <2> QED BY <1>1, <2>6 DEF RunInv
<1> QED BY <1>4, <1>5

LEMMA BuildRun ==
    ASSUME ShapeInv, RunInv, Build
    PROVE  RunInv'
<1>1. /\ stage = "running" /\ next > Len(calls) /\ stage' = "merging"
      /\ attrs' = attrs /\ builder' = builder
      BY DEF Build
<1>2. attrs \in Seq(DOMAIN Catalogue) /\ next \in Nat \ {0} /\ Len(calls) \in Nat
      BY ListShape DEF ShapeInv
<1> PICK m \in Nat : \E run : Running(run, m, calls, attrs, next - 1, builder)
    BY <1>1 DEF RunInv
<1> PICK run : Running(run, m, calls, attrs, next - 1, builder)
    OBVIOUS
<1>3. /\ Len(calls) = m + Len(Fields) /\ next - 1 <= Len(calls)
      /\ Built(run[m], attrs, Len(attrs))
      /\ next - 1 <= m => builder = run[next - 1]
      /\ next - 1 > m => Gathered(builder, attrs, next - 1 - m)
      BY DEF Running
<1>4. Gathered(builder, attrs, Len(Fields))
  <2>1. next - 1 = m + Len(Fields) /\ next - 1 - m = Len(Fields)
        BY <1>1, <1>2, <1>3, FieldTyped
  <2>2. CASE Len(Fields) = 0
    <3>1. builder = run[m]
          BY <1>3, <2>1, <2>2
    <3> QED BY <1>2, <1>3, <2>2, <3>1, GatheredNone
  <2>3. CASE Len(Fields) # 0
    <3>1. next - 1 > m
          BY <2>1, <2>3, FieldTyped
    <3> QED BY <1>3, <2>1, <3>1
  <2> QED BY <2>2, <2>3
<1> QED BY <1>1, <1>4 DEF RunInv

LEMMA RunStep ==
    ASSUME ReadAsMeant
    PROVE  ShapeInv /\ ReadInv /\ RunInv /\ [Next]_vars => RunInv'
<1> SUFFICES ASSUME ShapeInv, ReadInv, RunInv, [Next]_vars PROVE RunInv'
    OBVIOUS
<1>1. CASE Expand
      BY <1>1, ExpandRun
<1>2. CASE Refuse
      BY <1>2 DEF Refuse, RunInv
<1>3. CASE FinishExpansion
      BY <1>3, FinishRun
<1>4. CASE RunCall
      BY <1>4, CallRun
<1>5. CASE Build
      BY <1>5, BuildRun
<1>6. CASE Merge
      BY <1>6 DEF Merge, RunInv
<1>7. CASE UNCHANGED vars
      BY <1>7 DEF vars, RunInv
<1> QED BY <1>1, <1>2, <1>3, <1>4, <1>5, <1>6, <1>7 DEF Next

LEMMA ReadingHolds ==
    ASSUME ReadAsMeant
    PROVE  Spec => [](ShapeInv /\ ReadInv /\ RunInv)
BY ShapeInit, ShapeStep, ReadInit, ReadStep, RunInit, RunStep, PTL DEF Spec

(* An expansion is refused only at an attribute that is not valid, and one that
   goes on has read valid attributes only, however many there are. *)
THEOREM RefusedIsInvalid ==
    ASSUME ReadAsMeant
    PROVE  Spec => []RefusesExactlyInvalid
<1> SUFFICES ASSUME ShapeInv, ReadInv PROVE RefusesExactlyInvalid
    BY ReadingHolds, PTL
<1>1. /\ DOMAIN attrs = 1 .. Len(attrs) /\ Len(attrs) \in Nat /\ next \in Nat \ {0}
      /\ stage \in {"expanding", "refused", "running", "merging"}
      BY DEF ShapeInv
<1>2. stage = "refused" => ~IsValid[attrs[next]]
      BY DEF ReadInv
<1>3. ASSUME NEW n \in DOMAIN attrs,
             stage \in {"running", "merging"} \/ (stage # "refused" /\ n < next)
      PROVE  IsValid[attrs[n]]
  <2>1. n \in 1 .. Gone
        BY <1>1, <1>3 DEF Gone
  <2> QED BY <2>1 DEF ReadInv
<1> QED BY <1>2, <1>3 DEF RefusesExactlyInvalid

(* Deprecated attributes have keys, and mean something when they have a list. *)
LEMMA DeprecatedMeans ==
    ASSUME NEW attr, IsDeprecated(attr)
    PROVE  MeansARule(attr) <=> attr.list
<1>1. attr.name \in {"icon", "atom_color", "edge_style"}
      BY DEF IsDeprecated
<1>2. attr.name \in DOMAIN Keys /\ attr.name # "attribute"
      BY <1>1 DEF Keys, ATTRS
<1> QED BY <1>2 DEF MeansARule

(* Of the attributes read so far, those of a deprecated shape that are written
   with a list are warned about and no other; a deprecated one without a list goes
   unwarned, against what the comments say of it, and comes to no rule. *)
THEOREM WarnedHaveLists ==
    ASSUME ReadAsMeant
    PROVE  Spec => []WarnsOfDeprecatedLists
<1> SUFFICES ASSUME ShapeInv, ReadInv PROVE WarnsOfDeprecatedLists
    BY ReadingHolds, PTL
<1>1. /\ DOMAIN attrs = 1 .. Len(attrs) /\ Len(attrs) \in Nat /\ next \in Nat \ {0}
      /\ stage \in {"expanding", "refused", "running", "merging"}
      BY DEF ShapeInv
<1>2. Gone \in 0 .. Len(attrs) /\ ToSet(shims) = Warning(attrs, Gone)
      BY DEF ReadInv
<1>3. \A n \in DOMAIN attrs : n <= Gone <=> (stage \in {"running", "merging"} \/ n < next)
      BY <1>1, <1>2 DEF Gone
<1> DEFINE done == {n \in DOMAIN attrs : stage \in {"running", "merging"} \/ n < next}
           deprecated == {n \in done : IsDeprecated(Catalogue[attrs[n]])}
<1>4. ToSet(shims) = {n \in deprecated : MeansARule(Catalogue[attrs[n]])}
      BY <1>1, <1>2, <1>3 DEF Warning
<1>5. \A n \in deprecated : MeansARule(Catalogue[attrs[n]]) <=> Catalogue[attrs[n]].list
      BY DeprecatedMeans
<1>6. \A n \in deprecated : attrs[n] \in DOMAIN Catalogue /\ IsValid[attrs[n]]
      BY <1>1, <1>2, <1>3 DEF ReadInv, ShapeInv
<1>7. \A n \in deprecated : Meaning[attrs[n]] = {} <=> ~MeansARule(Catalogue[attrs[n]])
      BY <1>6 DEF Meaning
<1> HIDE DEF deprecated
<1>8. ToSet(shims) = {n \in deprecated : Catalogue[attrs[n]].list}
      BY <1>4, <1>5
<1>9. \A n \in deprecated : n \notin ToSet(shims) <=> Meaning[attrs[n]] = {}
      BY <1>4, <1>7
<1> QED BY <1>8, <1>9 DEF WarnsOfDeprecatedLists, deprecated

LEMMA MergingBuilt ==
    ASSUME ShapeInv, RunInv, stage = "merging"
    PROVE  builder.constraints = MeantConstraints /\ builder.directives = MeantDirectives
<1>1. Gathered(builder, attrs, Len(Fields))
      BY DEF RunInv
<1>2. DOMAIN attrs = 1 .. Len(attrs) /\ Len(attrs) \in Nat
      BY DEF ShapeInv
<1>3. /\ MeantOf("Self", attrs).constraints = FlattenSeq(ConstraintPieces(attrs))
      /\ MeantOf("Self", attrs).directives = FlattenSeq(DirectivePieces(attrs))
      BY DEF MeantOf, ConstraintPieces, DirectivePieces, Own
<1>4. /\ ConstraintPieces(attrs) = [n \in 1 .. Len(attrs) |-> ConstraintPieces(attrs)[n]]
      /\ DirectivePieces(attrs) = [n \in 1 .. Len(attrs) |-> DirectivePieces(attrs)[n]]
      BY <1>2 DEF ConstraintPieces, DirectivePieces
<1>5. /\ [f \in DOMAIN Fields |-> Fields[f].constraints] =
            [n \in 1 .. Len(Fields) |-> FieldConstraints[n]]
      /\ [f \in DOMAIN Fields |-> Fields[f].directives] =
            [n \in 1 .. Len(Fields) |-> FieldDirectives[n]]
      BY FieldTyped
<1>6. /\ MeantConstraints = Joined(ConstraintPieces(attrs), Len(attrs))
                              \o Joined(FieldConstraints, Len(Fields))
      /\ MeantDirectives = Joined(DirectivePieces(attrs), Len(attrs))
                             \o Joined(FieldDirectives, Len(Fields))
      BY <1>3, <1>4, <1>5 DEF MeantConstraints, MeantDirectives, Joined
<1> QED BY <1>1, <1>6 DEF Gathered, IsBuilt

(* The rules that the expansion builds are those of the attributes, each list in
   the order they are written, then those of the field types in theirs: none is
   lost, repeated or out of order, and a stamp touches no other rule. *)
THEOREM BuiltAsWritten ==
    ASSUME ReadAsMeant
    PROVE  Spec => []RulesSayWhatIsWritten
<1> SUFFICES ASSUME ShapeInv, RunInv PROVE RulesSayWhatIsWritten
    BY ReadingHolds, PTL
<1> QED BY MergingBuilt DEF RulesSayWhatIsWritten

(* Every rule cites the attribute that it comes from, a flag none, and a field
   type's rule what it came with, however pushes to the two lists alternate. *)
THEOREM SourcesKept ==
    ASSUME ReadAsMeant
    PROVE  Spec => []SourcesPointHome
<1> SUFFICES ASSUME ShapeInv, RunInv PROVE SourcesPointHome
    BY ReadingHolds, PTL
<1> QED BY MergingBuilt DEF SourcesPointHome
=============================================================================
