---------------------------- MODULE ExportProofs ----------------------------
(* For any family of types, and values of any size: atoms, frames and records
   are well formed; equal values share an atom and everything else has one of
   its own, the part of one composite at most; headers describe their tuples;
   relation ids keep records apart.                                          *)
EXTENDS Export, SequenceTheorems, FiniteSetTheorems, WellFoundedInduction, TLAPS

-----------------------------------------------------------------------------
(* Induction on a set of numbers, from the well-foundedness of strict
   inclusion: the least number that is missing from S would be the least
   interval that ends outside. *)
LEMMA SetInduction ==
    ASSUME NEW S \in SUBSET Nat, 0 \in S, \A n \in S : n + 1 \in S
    PROVE  S = Nat
<1> DEFINE T == {0 .. n : n \in Nat \ S}
           R == StrictSubsetOrdering(Nat)
<1>1. SUFFICES ASSUME S # Nat PROVE FALSE
      OBVIOUS
<1>2. IsWellFoundedOn(R, FiniteSubsetsOf(Nat))
      BY FS_StrictSubsetOrderingWellFounded
<1>3. T \subseteq FiniteSubsetsOf(Nat)
  <2>1. \A n \in Nat : 0 .. n \in SUBSET Nat /\ IsFiniteSet(0 .. n)
        BY FS_Interval
  <2> QED BY <2>1 DEF FiniteSubsetsOf
<1>4. T # {}
      BY <1>1
<1> HIDE DEF T, R
<1>5. PICK I \in T : \A J \in T : <<J, I>> \notin R
      BY <1>2, <1>3, <1>4, WFMin
<1>6. PICK n \in Nat \ S : I = 0 .. n
      BY DEF T
<1>7. n # 0 /\ n - 1 \in Nat \ S
      OBVIOUS
<1>8. 0 .. n - 1 \in T
      BY <1>7 DEF T
<1>9. <<0 .. n - 1, 0 .. n>> \in R
  <2>1. /\ 0 .. n - 1 \subseteq 0 .. n /\ 0 .. n \subseteq Nat
        /\ n \in 0 .. n /\ n \notin 0 .. n - 1
        BY <1>7
  <2> QED BY <2>1 DEF R, StrictSubsetOrdering
<1> QED BY <1>5, <1>6, <1>8, <1>9

-----------------------------------------------------------------------------
(* Flatten is defined by recursion; these are the facts about it. *)

Joins(f, pieces, n) ==
    f = [i \in 0 .. n |-> IF i = 0 THEN << >> ELSE f[i - 1] \o pieces[i]]

LEMMA JoinExists ==
    ASSUME NEW pieces, NEW m \in Nat
    PROVE  \E f : Joins(f, pieces, m)
<1> DEFINE S == {n \in Nat : \E f : Joins(f, pieces, n)}
<1>1. 0 \in S
  <2> DEFINE f == [i \in 0 .. 0 |-> << >>]
  <2>1. f = [i \in 0 .. 0 |-> IF i = 0 THEN << >> ELSE f[i - 1] \o pieces[i]]
        OBVIOUS
  <2> QED BY <2>1 DEF Joins
<1>2. ASSUME NEW n \in S PROVE n + 1 \in S
  <2>1. PICK f : Joins(f, pieces, n)
        OBVIOUS
  <2> DEFINE g == [i \in 0 .. n + 1 |-> IF i = n + 1 THEN f[n] \o pieces[n + 1] ELSE f[i]]
  <2>2. ASSUME NEW i \in 0 .. n + 1
        PROVE  g[i] = IF i = 0 THEN << >> ELSE g[i - 1] \o pieces[i]
    <3>1. CASE i = n + 1
          BY <3>1
    <3>2. CASE i # n + 1
      <4>1. i \in 0 .. n
            BY <3>2
      <4>2. f[i] = IF i = 0 THEN << >> ELSE f[i - 1] \o pieces[i]
            BY <2>1, <4>1 DEF Joins
      <4>3. i # 0 => i - 1 \in 0 .. n + 1 /\ i - 1 # n + 1
            BY <4>1
      <4> QED BY <4>1, <4>2, <4>3
    <3> QED BY <3>1, <3>2
  <2>3. Joins(g, pieces, n + 1)
    <3> HIDE DEF g
    <3>1. g = [i \in 0 .. n + 1 |-> g[i]]
          BY DEF g
    <3> QED BY <2>2, <3>1 DEF Joins
  <2> QED BY <2>3
<1> HIDE DEF S
<1>3. S = Nat
  <2>1. S \in SUBSET Nat
        BY DEF S
  <2> QED BY <1>1, <1>2, <2>1, SetInduction
<1> QED BY <1>3 DEF S

LEMMA FlattenDef ==
    ASSUME NEW pieces, Len(pieces) \in Nat
    PROVE  \E f : Joins(f, pieces, Len(pieces)) /\ Flatten(pieces) = f[Len(pieces)]
<1> DEFINE f == CHOOSE f : Joins(f, pieces, Len(pieces))
<1>1. Joins(f, pieces, Len(pieces))
      BY JoinExists
<1>2. Flatten(pieces) = f[Len(pieces)]
      BY DEF Flatten, Joins
<1> QED BY <1>1, <1>2

LEMMA FlattenEmpty ==
    ASSUME NEW pieces, Len(pieces) = 0
    PROVE  Flatten(pieces) = << >>
<1>1. PICK f : Joins(f, pieces, 0) /\ Flatten(pieces) = f[0]
      BY FlattenDef
<1> QED BY <1>1 DEF Joins

LEMMA JoinStep ==
    ASSUME NEW f, NEW pieces, NEW n \in Nat, Joins(f, pieces, n)
    PROVE  f[0] = << >> /\ \A i \in Nat : i < n => f[i + 1] = f[i] \o pieces[i + 1]
<1>1. f[0] = << >>
      BY DEF Joins
<1>2. ASSUME NEW i \in Nat, i < n PROVE f[i + 1] = f[i] \o pieces[i + 1]
  <2>1. \A k \in 0 .. n : f[k] = IF k = 0 THEN << >> ELSE f[k - 1] \o pieces[k]
        BY DEF Joins
  <2>2. PICK k \in 0 .. n : k = i + 1 /\ k # 0 /\ k - 1 = i
        BY <1>2
  <2>3. f[k] = f[k - 1] \o pieces[k]
        BY <2>1, <2>2
  <2> QED BY <2>2, <2>3
<1> QED BY <1>1, <1>2

LEMMA FlattenAppend ==
    ASSUME NEW T, NEW ps \in Seq(Seq(T)), NEW q \in Seq(T)
    PROVE  Flatten(Append(ps, q)) = Flatten(ps) \o q
<1> DEFINE n == Len(ps)
           qs == Append(ps, q)
<1>1. /\ n \in Nat /\ Len(qs) = n + 1 /\ qs[n + 1] = q
      /\ \A i \in 1 .. n : qs[i] = ps[i]
      BY AppendProperties
<1> HIDE DEF qs
<1>2. PICK f : Joins(f, ps, n) /\ Flatten(ps) = f[n]
      BY <1>1, FlattenDef
<1>3. \A i \in Nat : i < n => f[i + 1] = f[i] \o ps[i + 1]
      BY <1>1, <1>2, JoinStep
<1>4. PICK g : Joins(g, qs, n + 1) /\ Flatten(qs) = g[n + 1]
      BY <1>1, FlattenDef
<1>5. \A i \in Nat : i < n + 1 => g[i + 1] = g[i] \o qs[i + 1]
  <2>1. n + 1 \in Nat
        BY <1>1
  <2> QED BY <1>4, <2>1, JoinStep
<1> HIDE DEF n
<1> DEFINE S == {i \in Nat : i <= n => f[i] = g[i]}
<1>6. 0 \in S
      BY <1>1, <1>2, <1>4 DEF Joins
<1>7. ASSUME NEW i \in S PROVE i + 1 \in S
  <2>1. CASE i + 1 <= n
    <3>1. i \in Nat /\ i < n /\ i < n + 1 /\ i + 1 \in 1 .. n
          BY <1>1, <2>1
    <3>2. f[i + 1] = f[i] \o ps[i + 1]
          BY <1>3, <3>1
    <3>3. g[i + 1] = g[i] \o qs[i + 1]
          BY <1>5, <3>1
    <3>4. f[i] = g[i] /\ qs[i + 1] = ps[i + 1]
          BY <1>1, <2>1, <3>1
    <3>5. f[i + 1] = g[i + 1]
          BY <3>2, <3>3, <3>4
    <3> QED BY <3>5
  <2>2. CASE ~(i + 1 <= n)
        BY <2>2
  <2> QED BY <2>1, <2>2
<1> HIDE DEF S
<1>8. S = Nat
  <2>1. S \in SUBSET Nat
        BY DEF S
  <2> QED BY <1>6, <1>7, <2>1, SetInduction
<1>9. f[n] = g[n]
      BY <1>1, <1>8 DEF S
<1>10. g[n + 1] = g[n] \o qs[n + 1]
  <2>1. n \in Nat /\ n < n + 1
        BY <1>1
  <2> QED BY <1>5, <2>1
<1> QED BY <1>1, <1>2, <1>4, <1>9, <1>10 DEF qs

(* The prefix of a sequence, and its last element. *)
LEMMA LastSplit ==
    ASSUME NEW S, NEW s \in Seq(S), NEW n \in Nat, Len(s) = n + 1
    PROVE  \E t \in Seq(S), x \in S : s = Append(t, x) /\ Len(t) = n
<1>1. s # << >>
      BY EmptySeq
<1>2. PICK t \in Seq(S), x \in S : s = Append(t, x)
      BY <1>1, SequenceEmptyOrAppend
<1>3. Len(t) = n
  <2>1. Len(t) \in Nat /\ Len(Append(t, x)) = Len(t) + 1
        BY AppendProperties, LenProperties
  <2> QED BY <1>2, <2>1
<1> QED BY <1>2, <1>3

LEMMA FlattenType ==
    ASSUME NEW T, NEW ps \in Seq(Seq(T))
    PROVE  Flatten(ps) \in Seq(T)
<1> DEFINE S == {n \in Nat : \A qs \in Seq(Seq(T)) : Len(qs) = n => Flatten(qs) \in Seq(T)}
<1>1. 0 \in S
      BY FlattenEmpty, EmptySeq
<1>2. ASSUME NEW n \in S PROVE n + 1 \in S
  <2>1. SUFFICES ASSUME NEW qs \in Seq(Seq(T)), Len(qs) = n + 1
                 PROVE  Flatten(qs) \in Seq(T)
        OBVIOUS
  <2>2. PICK rs \in Seq(Seq(T)), r \in Seq(T) : qs = Append(rs, r) /\ Len(rs) = n
        BY <2>1, LastSplit
  <2>3. Flatten(rs) \in Seq(T)
        BY <2>2
  <2> QED BY <2>2, <2>3, FlattenAppend, ConcatProperties
<1> HIDE DEF S
<1>3. S = Nat
  <2>1. S \in SUBSET Nat
        BY DEF S
  <2> QED BY <1>1, <1>2, <2>1, SetInduction
<1>4. Len(ps) \in Nat
      BY LenProperties
<1> QED BY <1>3, <1>4 DEF S

LEMMA FlattenConcat ==
    ASSUME NEW T, NEW ps \in Seq(Seq(T)), NEW os \in Seq(Seq(T))
    PROVE  Flatten(ps \o os) = Flatten(ps) \o Flatten(os)
<1> DEFINE S == {n \in Nat : \A qs \in Seq(Seq(T)) :
                    Len(qs) = n => Flatten(ps \o qs) = Flatten(ps) \o Flatten(qs)}
<1>1. 0 \in S
  <2>1. ASSUME NEW qs \in Seq(Seq(T)), Len(qs) = 0
        PROVE  Flatten(ps \o qs) = Flatten(ps) \o Flatten(qs)
    <3>1. qs = << >> /\ Flatten(qs) = << >>
          BY <2>1, EmptySeq, FlattenEmpty
    <3> QED BY <3>1, ConcatEmptySeq, FlattenType
  <2> QED BY <2>1
<1>2. ASSUME NEW n \in S PROVE n + 1 \in S
  <2>1. SUFFICES ASSUME NEW qs \in Seq(Seq(T)), Len(qs) = n + 1
                 PROVE  Flatten(ps \o qs) = Flatten(ps) \o Flatten(qs)
        OBVIOUS
  <2>2. PICK rs \in Seq(Seq(T)), r \in Seq(T) : qs = Append(rs, r) /\ Len(rs) = n
        BY <2>1, LastSplit
  <2>3. ps \o qs = Append(ps \o rs, r) /\ ps \o rs \in Seq(Seq(T))
    <3>1. qs = rs \o <<r>> /\ <<r>> \in Seq(Seq(T))
          BY <2>2, AppendIsConcat
    <3>2. ps \o rs \in Seq(Seq(T))
          BY ConcatProperties
    <3>3. PICK last \in Seq(Seq(T)) : last = <<r>>
          BY <3>1
    <3>4. ps \o (rs \o last) = (ps \o rs) \o last
          BY ONLY ps \in Seq(Seq(T)), <2>2, <3>3, ConcatAssociative
    <3>5. (ps \o rs) \o <<r>> = Append(ps \o rs, r)
          BY <3>2, AppendIsConcat
    <3> QED BY <3>1, <3>2, <3>3, <3>4, <3>5
  <2>4. Flatten(ps \o rs) = Flatten(ps) \o Flatten(rs)
        BY <2>2
  <2>5. Flatten(ps \o qs) = (Flatten(ps) \o Flatten(rs)) \o r
    <3>1. Flatten(Append(ps \o rs, r)) = Flatten(ps \o rs) \o r
          BY <2>3, FlattenAppend
    <3> QED BY <2>3, <2>4, <3>1
  <2>6. Flatten(qs) = Flatten(rs) \o r
        BY <2>2, FlattenAppend
  <2>7. Flatten(ps) \in Seq(T) /\ Flatten(rs) \in Seq(T)
        BY FlattenType
  <2>8. (Flatten(ps) \o Flatten(rs)) \o r = Flatten(ps) \o (Flatten(rs) \o r)
    <3> DEFINE a == Flatten(ps)
               b == Flatten(rs)
    <3> HIDE DEF a, b
    <3>1. a \in Seq(T) /\ b \in Seq(T)
          BY <2>7 DEF a, b
    <3>2. (a \o b) \o r = a \o (b \o r)
          BY <3>1, ConcatAssociative
    <3> QED BY <3>2 DEF a, b
  <2> QED BY <2>5, <2>6, <2>8
<1> HIDE DEF S
<1>3. S = Nat
  <2>1. S \in SUBSET Nat
        BY DEF S
  <2> QED BY <1>1, <1>2, <2>1, SetInduction
<1>4. Len(os) \in Nat
      BY LenProperties
<1> QED BY <1>3, <1>4 DEF S

LEMMA IntervalLast ==
    ASSUME NEW n \in Nat
    PROVE  1 .. n + 1 = 1 .. n \cup {n + 1}
OBVIOUS

LEMMA FlattenRange ==
    ASSUME NEW T, NEW ps \in Seq(Seq(T))
    PROVE  Range(Flatten(ps)) = UNION {Range(ps[i]) : i \in 1 .. Len(ps)}
<1> DEFINE All(qs) == UNION {Range(qs[i]) : i \in 1 .. Len(qs)}
           S == {n \in Nat : \A qs \in Seq(Seq(T)) :
                    Len(qs) = n => Range(Flatten(qs)) = All(qs)}
<1>1. 0 \in S
  <2>1. ASSUME NEW qs \in Seq(Seq(T)), Len(qs) = 0
        PROVE  Range(Flatten(qs)) = All(qs)
    <3>1. Flatten(qs) = << >>
          BY <2>1, FlattenEmpty
    <3>2. All(qs) = {}
          BY <2>1
    <3>3. Range(<< >>) = {}
          BY DEF Range
    <3> QED BY <3>1, <3>2, <3>3
  <2> QED BY <2>1
<1>2. ASSUME NEW n \in S PROVE n + 1 \in S
  <2>1. SUFFICES ASSUME NEW qs \in Seq(Seq(T)), Len(qs) = n + 1
                 PROVE  Range(Flatten(qs)) = All(qs)
        OBVIOUS
  <2>2. PICK rs \in Seq(Seq(T)), r \in Seq(T) : qs = Append(rs, r) /\ Len(rs) = n
        BY <2>1, LastSplit
  <2>3. Range(Flatten(rs)) = All(rs)
        BY <2>2
  <2>4. Range(Flatten(qs)) = All(rs) \cup Range(r)
    <3>1. Flatten(qs) = Flatten(rs) \o r /\ Flatten(rs) \in Seq(T)
          BY <2>2, FlattenAppend, FlattenType
    <3>2. Range(Flatten(rs) \o r) = Range(Flatten(rs)) \cup Range(r)
          BY <3>1, RangeConcatenation
    <3> QED BY <2>3, <3>1, <3>2
  <2>5. qs[n + 1] = r /\ (\A i \in 1 .. n : qs[i] = rs[i]) /\ Len(rs) = n
        BY <2>2, AppendProperties
  <2>6. All(qs) = All(rs) \cup Range(r)
    <3> HIDE DEF S
    <3>1. n \in Nat
          BY DEF S
    <3>2. 1 .. Len(qs) = 1 .. n \cup {n + 1}
      <4>1. 1 .. n + 1 = 1 .. n \cup {n + 1}
            BY <3>1, IntervalLast
      <4> QED BY <2>1, <4>1
    <3>3. ASSUME NEW x PROVE x \in All(qs) <=> x \in All(rs) \cup Range(r)
          BY <2>5, <3>2
    <3> HIDE DEF All
    <3> QED BY <3>3
  <2> QED BY <2>4, <2>6
<1> HIDE DEF S
<1>3. S = Nat
  <2>1. S \in SUBSET Nat
        BY DEF S
  <2> QED BY <1>1, <1>2, <2>1, SetInduction
<1>4. Len(ps) \in Nat
      BY LenProperties
<1> QED BY <1>3, <1>4 DEF S

-----------------------------------------------------------------------------
(* What the types' forms are like, and when frames are well formed: the part
   that a composite awaits is one of its parts. *)

Stacked == 1 .. Len(stack)

FrameOK(frame, awaiting) ==
    /\ frame.form.shape \notin Single \cup {"nan"}
    /\ \E t \in Types : frame.form \in Forms[t]
    /\ frame.count <= Capacity(frame)
    /\ awaiting => frame.count < Capacity(frame)

FramesOK == \A i \in Stacked : FrameOK(stack[i], i > 1 \/ returned # 0)

TypeInv == TypeOK /\ FramesOK

LEMMA SetFacts ==
    /\ {"atom", "u64", "Some", "map", "value", "idx", "map_entry"} \subseteq Names
    /\ MaxLen \in Nat
    /\ \A i \in 0 .. MaxLen - 1 : Decimal[i] \in Names
BY ExportAssumption

LEMMA FormFacts ==
    ASSUME NEW t \in Types, NEW f \in Forms[t]
    PROVE  /\ f \in Form
           /\ f.shape \in Single \cup {"nan"} => f.of = << >>
           /\ f.shape \in {"some", "newtype_struct", "newtype_variant", "seq"}
                 => Len(f.of) = 1
           /\ f.shape = "map" => Len(f.of) = 2 /\ f.type = "map"
           /\ f.shape \in Named => Len(f.fields) = Len(f.of)
           /\ f.shape = "some" => f.type = "Some"
           /\ Len(f.of) <= MaxLen \/ f.shape \notin Positional
<1>1. Forms[t] \subseteq Form
      BY ExportAssumption
<1> QED BY <1>1, ExportAssumption

LEMMA FormType ==
    ASSUME NEW f \in Form
    PROVE  /\ f.shape \in Shapes /\ f.type \in Names /\ f.label \in Names
           /\ f.fields \in Seq(Names) /\ f.of \in Seq(Types)
           /\ Len(f.of) \in Nat /\ Len(f.fields) \in Nat
BY DEF Form

LEMMA CapacityFacts ==
    ASSUME NEW frame \in Frame, NEW awaiting, FrameOK(frame, awaiting)
    PROVE  /\ Capacity(frame) \in Nat
           /\ frame.form.shape \in Named => Capacity(frame) = Len(frame.form.fields)
           /\ frame.form.shape \in Positional => Capacity(frame) <= MaxLen
<1>1. PICK t \in Types : frame.form \in Forms[t]
      BY DEF FrameOK
<1>2. frame.form \in Form
      BY DEF Frame
<1>3. /\ frame.form.shape \in Named => Len(frame.form.fields) = Len(frame.form.of)
      /\ Len(frame.form.of) <= MaxLen \/ frame.form.shape \notin Positional
      BY <1>1, FormFacts
<1> QED BY <1>2, <1>3, FormType, SetFacts DEF Capacity, Named, Positional

LEMMA PositionType ==
    ASSUME NEW n \in 0 .. MaxLen - 1
    PROVE  Position(n) \in Form
BY SetFacts DEF Position, Form, Shapes

-----------------------------------------------------------------------------
(* The stack: a frame more, a frame less, the top changed. *)

LEMMA PushFrame ==
    ASSUME NEW s \in Seq(Frame), NEW c \in Frame, NEW r, r = <<c>> \o s
    PROVE  /\ r \in Seq(Frame) /\ r # << >> /\ Len(r) = Len(s) + 1 /\ r[1] = c
           /\ \A i \in 2 .. Len(r) : i - 1 \in 1 .. Len(s) /\ r[i] = s[i - 1]
OBVIOUS

LEMMA TopFrame ==
    ASSUME NEW s \in Seq(Frame), s # << >>
    PROVE  /\ s[1] \in Frame /\ 1 \in 1 .. Len(s)
           /\ s[1].form \in Form /\ s[1].atom \in Nat /\ s[1].key \in Nat
           /\ s[1].count \in Nat
<1>1. s[1] \in Frame /\ 1 \in 1 .. Len(s)
      OBVIOUS
<1>2. \A c \in Frame : c.form \in Form /\ c.atom \in Nat /\ c.key \in Nat /\ c.count \in Nat
      BY DEF Frame
<1> QED BY <1>1, <1>2

LEMMA ResumeFrame ==
    ASSUME NEW frame \in Frame, NEW atom \in Nat, NEW key \in Nat
    PROVE  /\ Resumed(frame, atom, key) \in Frame
           /\ Resumed(frame, atom, key).form = frame.form
           /\ Resumed(frame, atom, key).atom = atom
           /\ Resumed(frame, atom, key).key = key
           /\ Resumed(frame, atom, key).count = frame.count + 1
<1> DEFINE d == [[frame EXCEPT !.atom = atom] EXCEPT !.key = key]
           e == [d EXCEPT !.count = @ + 1]
<1>1. /\ d \in Frame /\ d.form = frame.form /\ d.atom = atom /\ d.key = key
      /\ d.count = frame.count
      BY DEF Frame
<1>2. e = [frame EXCEPT !.atom = atom, !.key = key, !.count = @ + 1]
      BY DEF Frame
<1>3. Resumed(frame, atom, key) = e
      BY <1>2 DEF Resumed
<1> HIDE DEF d
<1>4. /\ e \in Frame /\ e.form = d.form /\ e.atom = d.atom /\ e.key = d.key
      /\ e.count = d.count + 1
      BY <1>1 DEF Frame
<1> QED BY <1>1, <1>3, <1>4

LEMMA ResumedFrame ==
    ASSUME NEW s \in Seq(Frame), s # << >>, NEW atom \in Nat, NEW key \in Nat,
           NEW r, r = [s EXCEPT ![1] = Resumed(@, atom, key)]
    PROVE  /\ r \in Seq(Frame) /\ Len(r) = Len(s) /\ r[1] \in Frame
           /\ r[1].form = s[1].form /\ r[1].atom = atom /\ r[1].key = key
           /\ r[1].count = s[1].count + 1
           /\ \A i \in 2 .. Len(s) : r[i] = s[i]
<1>1. s[1] \in Frame /\ 1 \in 1 .. Len(s)
      BY TopFrame
<1>2. PICK frame \in Frame : frame = s[1]
      BY <1>1
<1> DEFINE c == Resumed(frame, atom, key)
<1>3. /\ c \in Frame /\ c.form = frame.form /\ c.atom = atom /\ c.key = key
      /\ c.count = frame.count + 1
      BY ResumeFrame
<1> HIDE DEF c
<1>4. /\ [s EXCEPT ![1] = c] \in Seq(Frame) /\ Len([s EXCEPT ![1] = c]) = Len(s)
      /\ [s EXCEPT ![1] = c][1] = c
      /\ \A i \in 2 .. Len(s) : [s EXCEPT ![1] = c][i] = s[i]
      BY <1>1, <1>3
<1> QED BY <1>2, <1>3, <1>4 DEF c

LEMMA PopFrame ==
    ASSUME NEW s \in Seq(Frame), s # << >>
    PROVE  /\ Tail(s) \in Seq(Frame) /\ Len(Tail(s)) = Len(s) - 1
           /\ \A i \in 1 .. Len(Tail(s)) : i + 1 \in 2 .. Len(s) /\ Tail(s)[i] = s[i + 1]
OBVIOUS

-----------------------------------------------------------------------------
(* Atoms are only added, but for a failure, which forgets them. *)

AtomsKept ==
    /\ atoms' \in Seq(Form)
    /\ Ids \subseteq Ids'
    /\ \A i \in Ids : atoms'[i] = atoms[i]
    /\ interned' \subseteq Ids'

LEMMA IdFacts ==
    ASSUME atoms \in Seq(Form)
    PROVE  /\ NewId \in Nat \ {0} /\ NewId \notin Ids
           /\ Ids \subseteq Nat \ {0}
           /\ \A i \in Ids : atoms[i] \in Form
BY DEF NewId, Ids

LEMMA EmitFacts ==
    ASSUME TypeOK, NEW form \in Form, EmitAtom(form)
    PROVE  /\ AtomsKept
           /\ Ids' = Ids \cup {NewId}
           /\ atoms'[NewId] = form
           /\ interned' = interned
<1>1. atoms \in Seq(Form) /\ atoms' = Append(atoms, form) /\ interned' = interned
      BY DEF TypeOK, EmitAtom
<1>2. /\ atoms' \in Seq(Form) /\ Len(atoms') = Len(atoms) + 1 /\ Len(atoms) \in Nat
      /\ \A i \in 1 .. Len(atoms) : atoms'[i] = atoms[i]
      /\ atoms'[Len(atoms) + 1] = form
      BY <1>1, AppendProperties, LenProperties
<1>3. Ids' = Ids \cup {NewId}
      BY <1>2, IntervalLast DEF Ids, NewId
<1> QED BY <1>1, <1>2, <1>3 DEF AtomsKept, Ids, NewId, TypeOK

LEMMA ValueFacts ==
    ASSUME TypeOK, NEW form \in Form, NEW id, ValueAtom(form, id)
    PROVE  /\ AtomsKept
           /\ id \in Ids' /\ id \in interned'
           /\ \/ /\ Known(form) # {} /\ id \in Known(form)
                 /\ UNCHANGED <<atoms, interned>> /\ Ids' = Ids
              \/ /\ Known(form) = {} /\ id = NewId
                 /\ Ids' = Ids \cup {NewId} /\ atoms'[NewId] = form
                 /\ interned' = interned \cup {NewId}
<1>1. CASE Known(form) # {}
  <2>1. id \in Known(form) /\ UNCHANGED <<atoms, interned>>
        BY <1>1 DEF ValueAtom
  <2>2. id \in interned /\ interned \subseteq Ids /\ Ids' = Ids
        BY <2>1 DEF Known, TypeOK, Ids
  <2> QED BY <1>1, <2>1, <2>2 DEF AtomsKept, TypeOK
<1>2. CASE Known(form) = {}
  <2>1. id = NewId /\ atoms' = Append(atoms, form) /\ interned' = interned \cup {id}
        BY <1>2 DEF ValueAtom
  <2>2. atoms \in Seq(Form)
        BY DEF TypeOK
  <2>3. /\ atoms' \in Seq(Form) /\ Len(atoms') = Len(atoms) + 1 /\ Len(atoms) \in Nat
        /\ \A i \in 1 .. Len(atoms) : atoms'[i] = atoms[i]
        /\ atoms'[Len(atoms) + 1] = form
        BY <2>1, <2>2, AppendProperties, LenProperties
  <2>4. Ids' = Ids \cup {NewId}
        BY <2>3, IntervalLast DEF Ids, NewId
  <2> QED BY <1>2, <2>1, <2>3, <2>4 DEF AtomsKept, Ids, NewId, TypeOK
<1> QED BY <1>1, <1>2

LEMMA SameAtoms ==
    ASSUME TypeOK, UNCHANGED <<atoms, interned>>
    PROVE  AtomsKept /\ Ids' = Ids
BY DEF TypeOK, AtomsKept, Ids

-----------------------------------------------------------------------------
(* What becomes of the stack, for its type and for FramesOK. *)

StackInv ==
    /\ stack \in Seq(Frame)
    /\ \A i \in Stacked : {stack[i].atom, stack[i].key} \subseteq Ids \cup {0}
    /\ FramesOK

LEMMA StackFacts ==
    ASSUME TypeInv
    PROVE  /\ stack \in Seq(Frame) /\ Len(stack) \in Nat
           /\ \A i \in Stacked :
                 /\ stack[i] \in Frame /\ stack[i].form \in Form /\ stack[i].count \in Nat
                 /\ stack[i].atom \in Ids \cup {0} /\ stack[i].key \in Ids \cup {0}
                 /\ FrameOK(stack[i], i > 1 \/ returned # 0)
<1>1. stack \in Seq(Frame)
      BY DEF TypeInv, TypeOK
<1>2. Len(stack) \in Nat /\ \A i \in Stacked : stack[i] \in Frame
      BY <1>1 DEF Stacked
<1>3. \A c \in Frame : c.form \in Form /\ c.count \in Nat
      BY DEF Frame
<1>4. \A i \in Stacked : {stack[i].atom, stack[i].key} \subseteq Ids \cup {0}
      BY DEF TypeInv, TypeOK, Stacked
<1> QED BY <1>1, <1>2, <1>3, <1>4 DEF TypeInv, FramesOK

LEMMA SameStack ==
    ASSUME TypeInv, AtomsKept, UNCHANGED stack,
           returned' = 0 \/ returned # 0 \/ stack = << >> \/ Top.count < Capacity(Top)
    PROVE  StackInv'
<1>1. Stacked' = Stacked /\ stack' = stack
      BY DEF Stacked
<1>2. stack' \in Seq(Frame)
      BY StackFacts
<1>3. ASSUME NEW i \in Stacked
      PROVE  {stack[i].atom, stack[i].key} \subseteq Ids' \cup {0}
      BY StackFacts DEF AtomsKept
<1>4. ASSUME NEW i \in Stacked
      PROVE  FrameOK(stack[i], i > 1 \/ returned' # 0)
  <2>1. FrameOK(stack[i], i > 1 \/ returned # 0)
        BY StackFacts
  <2>2. i \in Nat \ {0} /\ stack # << >>
        BY StackFacts DEF Stacked
  <2>3. i > 1 \/ returned' # 0 => stack[i].count < Capacity(stack[i])
        BY <2>1, <2>2 DEF FrameOK, Top
  <2> QED BY <2>1, <2>3 DEF FrameOK
<1> QED BY <1>1, <1>2, <1>3, <1>4 DEF StackInv, FramesOK

LEMMA BeginStack ==
    ASSUME TypeInv, AtomsKept, NEW t \in Types, NEW f \in Forms[t], Awaited(t),
           f.shape \notin Single \cup {"nan"},
           NEW atom \in Ids' \cup {0}, atom \in Nat, Begin(f, atom)
    PROVE  StackInv' /\ returned' = 0
<1> DEFINE c == [form |-> f, atom |-> atom, key |-> 0, count |-> 0]
<1>1. /\ f \in Form /\ returned = 0 /\ returned' = 0 /\ stack' = <<c>> \o stack
      /\ stack = << >> \/ Top.count < Capacity(Top)
      BY FormFacts DEF Begin, Awaited
<1>2. c \in Frame /\ c.form = f /\ c.atom = atom /\ c.key = 0 /\ c.count = 0
      BY <1>1 DEF Frame
<1>3. FrameOK(c, FALSE)
  <2>1. 0 <= Capacity(c)
    <3>1. Len(f.of) \in Nat
          BY <1>1, FormType
    <3> QED BY <1>2, <3>1, SetFacts DEF Capacity
  <2> QED BY <1>2, <2>1 DEF FrameOK
<1> HIDE DEF c
<1>4. /\ stack' \in Seq(Frame) /\ stack'[1] = c /\ Len(stack') = Len(stack) + 1
      /\ \A i \in 2 .. Len(stack') : i - 1 \in 1 .. Len(stack) /\ stack'[i] = stack[i - 1]
      BY <1>1, <1>2, StackFacts, PushFrame
<1>5. ASSUME NEW i \in Stacked'
      PROVE  /\ {stack'[i].atom, stack'[i].key} \subseteq Ids' \cup {0}
             /\ FrameOK(stack'[i], i > 1 \/ returned' # 0)
  <2>1. CASE i = 1
        BY <1>1, <1>2, <1>3, <1>4, <2>1 DEF FrameOK
  <2>2. CASE i # 1
    <3>1. i \in 2 .. Len(stack')
          BY <2>2, <1>4, StackFacts DEF Stacked
    <3>2. PICK j \in Stacked : stack'[i] = stack[j]
          BY <1>4, <3>1 DEF Stacked
    <3>3. /\ {stack[j].atom, stack[j].key} \subseteq Ids' \cup {0}
          /\ FrameOK(stack[j], j > 1 \/ returned # 0)
          BY StackFacts DEF AtomsKept
    <3>4. j \in Nat \ {0} /\ stack # << >>
          BY StackFacts DEF Stacked
    <3>5. stack[j].count < Capacity(stack[j])
          BY <1>1, <3>3, <3>4 DEF FrameOK, Top
    <3> QED BY <3>2, <3>3, <3>5 DEF FrameOK
  <2> QED BY <2>1, <2>2
<1> QED BY <1>1, <1>4, <1>5 DEF StackInv, FramesOK

LEMMA ResumeStack ==
    ASSUME TypeInv, AtomsKept, stack # << >>, returned # 0,
           NEW atom \in Ids' \cup {0}, NEW key \in Ids' \cup {0},
           atom \in Nat, key \in Nat, Resume(atom, key)
    PROVE  StackInv' /\ returned' = 0
<1>1. returned' = 0 /\ stack' = [stack EXCEPT ![1] = Resumed(@, atom, key)]
      BY DEF Resume
<1>2. /\ stack' \in Seq(Frame) /\ Len(stack') = Len(stack) /\ stack'[1] \in Frame
      /\ stack'[1].form = stack[1].form /\ stack'[1].atom = atom /\ stack'[1].key = key
      /\ stack'[1].count = stack[1].count + 1
      /\ \A i \in 2 .. Len(stack) : stack'[i] = stack[i]
      BY <1>1, StackFacts, ResumedFrame
<1>3. 1 \in Stacked /\ Stacked' = Stacked
      BY <1>2, StackFacts DEF Stacked
<1>4. FrameOK(stack'[1], FALSE)
  <2>1. /\ FrameOK(stack[1], TRUE) /\ stack[1].count \in Nat /\ stack[1] \in Frame
        BY <1>3, StackFacts DEF FrameOK
  <2>2. Capacity(stack'[1]) = Capacity(stack[1])
        BY <1>2 DEF Capacity
  <2>3. Capacity(stack[1]) \in Nat
        BY <2>1, CapacityFacts
  <2> QED BY <1>2, <2>1, <2>2, <2>3 DEF FrameOK
<1>5. ASSUME NEW i \in Stacked
      PROVE  /\ {stack'[i].atom, stack'[i].key} \subseteq Ids' \cup {0}
             /\ FrameOK(stack'[i], i > 1 \/ returned' # 0)
  <2>1. CASE i = 1
        BY <1>1, <1>2, <1>4, <2>1 DEF FrameOK
  <2>2. CASE i # 1
    <3>1. i \in 2 .. Len(stack)
          BY <2>2, StackFacts DEF Stacked
    <3>2. stack'[i] = stack[i]
          BY <1>2, <3>1
    <3>3. /\ {stack[i].atom, stack[i].key} \subseteq Ids' \cup {0}
          /\ FrameOK(stack[i], i > 1 \/ returned # 0)
          BY StackFacts DEF AtomsKept
    <3> QED BY <3>1, <3>2, <3>3 DEF FrameOK
  <2> QED BY <2>1, <2>2
<1> QED BY <1>1, <1>2, <1>3, <1>5 DEF StackInv, FramesOK

LEMMA EndStack ==
    ASSUME TypeInv, EndComposite
    PROVE  StackInv' /\ returned' \in Ids' \cup {0} /\ AtomsKept /\ Ids' = Ids
<1>1. /\ stack # << >> /\ stack' = Tail(stack) /\ returned' = Top.atom
      /\ UNCHANGED <<atoms, interned>>
      BY DEF EndComposite
<1>2. AtomsKept /\ Ids' = Ids
      BY <1>1, SameAtoms DEF TypeInv
<1>3. /\ stack' \in Seq(Frame) /\ Len(stack') = Len(stack) - 1
      /\ \A i \in 1 .. Len(stack') : i + 1 \in 2 .. Len(stack) /\ stack'[i] = stack[i + 1]
      BY <1>1, StackFacts, PopFrame
<1>4. ASSUME NEW i \in Stacked'
      PROVE  /\ {stack'[i].atom, stack'[i].key} \subseteq Ids' \cup {0}
             /\ FrameOK(stack'[i], i > 1 \/ returned' # 0)
  <2>1. PICK j \in 2 .. Len(stack) : stack'[i] = stack[j]
        BY <1>3 DEF Stacked
  <2>2. j \in Stacked /\ j > 1
        BY StackFacts DEF Stacked
  <2>3. /\ {stack[j].atom, stack[j].key} \subseteq Ids' \cup {0}
        /\ FrameOK(stack[j], TRUE)
        BY <1>2, <2>2, StackFacts DEF FrameOK
  <2> QED BY <2>1, <2>3 DEF FrameOK
<1>5. returned' \in Ids' \cup {0}
      BY <1>1, <1>2, StackFacts DEF Top, Stacked
<1> QED BY <1>2, <1>3, <1>4, <1>5 DEF StackInv, FramesOK

-----------------------------------------------------------------------------
(* What becomes of the relations. *)

(* The record of a pushed tuple. *)
Matches(record, name, types) == record.source = types[1] /\ record.name = name

New(name, tuple) == [source |-> tuple.types[1], name |-> name, types |-> tuple.types,
                     tuples |-> <<tuple>>]

Pushed(name, ids, types) ==
    /\ name \in Names /\ ids \in Seq(Nat) /\ types \in Seq(Names)
    /\ Len(types) \in {2, 3} /\ Len(ids) = Len(types)
    /\ PushRelation(name, ids, types)

LEMMA JoinedHeader ==
    ASSUME NEW header \in Seq(Names), NEW incoming \in Seq(Names)
    PROVE  /\ JoinPositionTypes(header, incoming) \in Seq(Names)
           /\ Len(JoinPositionTypes(header, incoming))
                 = IF Len(header) > Len(incoming) THEN Len(header) ELSE Len(incoming)
           /\ \A i \in 1 .. Len(JoinPositionTypes(header, incoming)) :
                 JoinPositionTypes(header, incoming)[i] =
                    IF i > Len(header) THEN incoming[i]
                    ELSE IF i <= Len(incoming) /\ header[i] # incoming[i] THEN "atom"
                    ELSE header[i]
<1> DEFINE n == IF Len(header) > Len(incoming) THEN Len(header) ELSE Len(incoming)
           e(i) == IF i > Len(header) THEN incoming[i]
                   ELSE IF i <= Len(incoming) /\ header[i] # incoming[i] THEN "atom"
                   ELSE header[i]
           joined == [i \in 1 .. n |-> e(i)]
<1>1. n \in Nat
      BY LenProperties
<1>2. ASSUME NEW i \in 1 .. n PROVE e(i) \in Names
      BY SetFacts
<1>3. joined \in Seq(Names) /\ Len(joined) = n /\ \A i \in 1 .. n : joined[i] = e(i)
  <2> HIDE DEF n, e
  <2> QED BY <1>1, <1>2
<1> QED BY <1>3 DEF JoinPositionTypes

LEMMA RecordType ==
    ASSUME NEW record \in Record
    PROVE  /\ record.source \in Names /\ record.name \in Names
           /\ record.types \in Seq(Names) /\ record.tuples \in Seq(Tuple)
           /\ Len(record.types) \in Nat /\ Len(record.tuples) \in Nat
BY DEF Record

LEMMA TupleType ==
    ASSUME NEW ids \in Seq(Nat), NEW types \in Seq(Names)
    PROVE  LET tuple == [atoms |-> ids, types |-> types] IN
           tuple \in Tuple /\ tuple.atoms = ids /\ tuple.types = types
BY DEF Tuple

LEMMA ExtendedRecord ==
    ASSUME NEW record \in Record, NEW tuple \in Tuple
    PROVE  /\ Extended(record, tuple) \in Record
           /\ Extended(record, tuple).source = record.source
           /\ Extended(record, tuple).name = record.name
           /\ Extended(record, tuple).types = JoinPositionTypes(record.types, tuple.types)
           /\ Extended(record, tuple).tuples = Append(record.tuples, tuple)
<1> DEFINE types == JoinPositionTypes(record.types, tuple.types)
           tuples == Append(record.tuples, tuple)
           d == [record EXCEPT !.types = types]
           e == [d EXCEPT !.tuples = tuples]
<1>1. types \in Seq(Names) /\ tuples \in Seq(Tuple)
  <2>1. tuple.types \in Seq(Names)
        BY DEF Tuple
  <2> QED BY <2>1, RecordType, JoinedHeader, AppendProperties
<1>2. Extended(record, tuple) = e
      BY DEF Extended, Record
<1> HIDE DEF types, tuples
<1>3. /\ d \in Record /\ d.source = record.source /\ d.name = record.name
      /\ d.types = types
      BY <1>1 DEF Record
<1> HIDE DEF d
<1>4. /\ e \in Record /\ e.source = d.source /\ e.name = d.name
      /\ e.types = d.types /\ e.tuples = tuples
      BY <1>1, <1>3 DEF Record
<1> QED BY <1>2, <1>3, <1>4 DEF types, tuples

LEMMA NewRecord ==
    ASSUME NEW name \in Names, NEW tuple \in Tuple, tuple.types # << >>
    PROVE  /\ New(name, tuple) \in Record
           /\ New(name, tuple).source = tuple.types[1] /\ New(name, tuple).name = name
           /\ New(name, tuple).types = tuple.types
           /\ New(name, tuple).tuples = <<tuple>>
<1>1. tuple.types \in Seq(Names) /\ tuple.types[1] \in Names
  <2>1. tuple.types \in Seq(Names)
        BY DEF Tuple
  <2> QED BY <2>1
<1>2. <<tuple>> \in Seq(Tuple)
      OBVIOUS
<1> QED BY <1>1, <1>2 DEF New, Record

(* A tuple that is pushed makes a record, or goes into the one it matches. *)
LEMMA PushFacts ==
    ASSUME relations \in Seq(Record), NEW name, NEW ids, NEW types, Pushed(name, ids, types),
           NEW tuple, tuple = [atoms |-> ids, types |-> types]
    PROVE  /\ tuple \in Tuple /\ tuple.types = types /\ tuple.atoms = ids
           /\ relations' \in Seq(Record)
           /\ \/ /\ \A i \in 1 .. Len(relations) : ~Matches(relations[i], name, types)
                 /\ Len(relations') = Len(relations) + 1
                 /\ \A i \in 1 .. Len(relations) : relations'[i] = relations[i]
                 /\ relations'[Len(relations) + 1] = New(name, tuple)
              \/ /\ \E i \in 1 .. Len(relations) : Matches(relations[i], name, types)
                 /\ Len(relations') = Len(relations)
                 /\ \A i \in 1 .. Len(relations) :
                       relations'[i] = IF Matches(relations[i], name, types)
                                       THEN Extended(relations[i], tuple)
                                       ELSE relations[i]
<1> DEFINE n == Len(relations)
           at == {i \in 1 .. n : relations[i].source = types[1] /\ relations[i].name = name}
           extended == [i \in 1 .. n |-> IF i \notin at THEN relations[i]
                                         ELSE Extended(relations[i], tuple)]
<1>1. /\ tuple \in Tuple /\ tuple.types = types /\ tuple.atoms = ids
      /\ types \in Seq(Names) /\ types # << >>
      BY TupleType DEF Pushed
<1>2. n \in Nat /\ \A i \in 1 .. n : relations[i] \in Record
      BY LenProperties, ElementOfSeq
<1>3. relations' = IF at = {} THEN Append(relations, New(name, tuple)) ELSE extended
      BY <1>1 DEF Pushed, PushRelation, New
<1>4. \A i \in 1 .. n : i \in at <=> Matches(relations[i], name, types)
      BY DEF Matches
<1> HIDE DEF at, n
<1>5. CASE at = {}
  <2>1. New(name, tuple) \in Record
        BY <1>1, NewRecord DEF Pushed
  <2>2. relations' = Append(relations, New(name, tuple))
        BY <1>3, <1>5
  <2>3. /\ relations' \in Seq(Record) /\ Len(relations') = n + 1
        /\ \A i \in 1 .. n : relations'[i] = relations[i]
        /\ relations'[n + 1] = New(name, tuple)
        BY <2>1, <2>2, AppendProperties DEF n
  <2> QED BY <1>1, <1>4, <1>5, <2>3 DEF n
<1>6. CASE at # {}
  <2>1. ASSUME NEW i \in 1 .. n
        PROVE  (IF i \notin at THEN relations[i] ELSE Extended(relations[i], tuple)) \in Record
        BY <1>1, <1>2, ExtendedRecord
  <2>2. /\ extended \in Seq(Record) /\ Len(extended) = n
        BY <1>2, <2>1
  <2>3. \A i \in 1 .. n : extended[i] = IF Matches(relations[i], name, types)
                                        THEN Extended(relations[i], tuple)
                                        ELSE relations[i]
        BY <1>4
  <2>4. \E i \in 1 .. n : Matches(relations[i], name, types)
        BY <1>4, <1>6 DEF at
  <2>5. relations' = extended
        BY <1>3, <1>6
  <2> HIDE DEF extended
  <2> QED BY <1>1, <2>2, <2>3, <2>4, <2>5 DEF n
<1> QED BY <1>5, <1>6

(* What FinalizeRelations keeps of a record's tuples *)
LEMMA OfLengthFacts ==
    ASSUME NEW tuples \in Seq(Tuple), NEW n
    PROVE  /\ OfLength(tuples, n) \in Seq(Tuple)
           /\ Range(OfLength(tuples, n)) = {tu \in Range(tuples) : Len(tu.atoms) = n}
<1> DEFINE pieces == [j \in 1 .. Len(tuples) |->
                        IF Len(tuples[j].atoms) = n THEN <<tuples[j]>> ELSE << >>]
<1>1. Len(tuples) \in Nat /\ \A j \in 1 .. Len(tuples) : tuples[j] \in Tuple
      BY LenProperties, ElementOfSeq
<1>2. pieces \in Seq(Seq(Tuple)) /\ Len(pieces) = Len(tuples)
  <2>1. \A j \in 1 .. Len(tuples) : <<tuples[j]>> \in Seq(Tuple)
        BY <1>1
  <2> QED BY <1>1, <2>1
<1>3. \A j \in 1 .. Len(tuples) :
         Range(pieces[j]) = IF Len(tuples[j].atoms) = n THEN {tuples[j]} ELSE {}
  <2>1. ASSUME NEW x PROVE Range(<<x>>) = {x}
        BY DEF Range
  <2>2. Range(<< >>) = {}
        BY DEF Range
  <2> QED BY <2>1, <2>2
<1>4. OfLength(tuples, n) = Flatten(pieces)
      BY DEF OfLength
<1>5. Range(tuples) = {tuples[j] : j \in 1 .. Len(tuples)}
      BY RangeEquality
<1> HIDE DEF pieces
<1>6. Range(Flatten(pieces)) = UNION {Range(pieces[j]) : j \in 1 .. Len(tuples)}
      BY <1>2, FlattenRange
<1>7. Range(Flatten(pieces)) = {tu \in Range(tuples) : Len(tu.atoms) = n}
  <2>1. ASSUME NEW tu
        PROVE  tu \in Range(Flatten(pieces)) <=> tu \in Range(tuples) /\ Len(tu.atoms) = n
    <3>1. tu \in Range(Flatten(pieces)) <=> \E j \in 1 .. Len(tuples) : tu \in Range(pieces[j])
          BY <1>6
    <3>2. \A j \in 1 .. Len(tuples) :
             tu \in Range(pieces[j]) <=> tu = tuples[j] /\ Len(tuples[j].atoms) = n
          BY <1>3
    <3>3. tu \in Range(tuples) <=> \E j \in 1 .. Len(tuples) : tu = tuples[j]
          BY <1>5
    <3> QED BY <3>1, <3>2, <3>3
  <2> HIDE DEF pieces
  <2> QED BY <2>1
<1> QED BY <1>2, <1>4, <1>7, FlattenType

Finalized(record) ==
    [record EXCEPT !.tuples = OfLength(@, 3) \o OfLength(@, 2)]

LEMMA FinalizedRecord ==
    ASSUME NEW record \in Record
    PROVE  /\ Finalized(record) \in Record
           /\ Finalized(record).source = record.source
           /\ Finalized(record).name = record.name
           /\ Finalized(record).types = record.types
           /\ Finalized(record).tuples
                 = OfLength(record.tuples, 3) \o OfLength(record.tuples, 2)
<1> DEFINE tuples == OfLength(record.tuples, 3) \o OfLength(record.tuples, 2)
           d == [record EXCEPT !.tuples = tuples]
<1>1. tuples \in Seq(Tuple)
      BY RecordType, OfLengthFacts, ConcatProperties
<1>2. Finalized(record) = d
      BY DEF Finalized, Record
<1> HIDE DEF tuples
<1>3. /\ d \in Record /\ d.source = record.source /\ d.name = record.name
      /\ d.types = record.types /\ d.tuples = tuples
      BY <1>1 DEF Record
<1> QED BY <1>2, <1>3 DEF tuples

LEMMA FinalizeFacts ==
    ASSUME relations \in Seq(Record), Finish
    PROVE  /\ relations' \in Seq(Record) /\ Len(relations') = Len(relations)
           /\ \A i \in 1 .. Len(relations) : relations'[i] = Finalized(relations[i])
<1>1. relations' = [i \in 1 .. Len(relations) |-> Finalized(relations[i])]
      BY DEF Finish, FinalizeRelations, Finalized
<1>2. /\ Len(relations) \in Nat
      /\ \A i \in 1 .. Len(relations) : Finalized(relations[i]) \in Record
      BY FinalizedRecord, LenProperties, ElementOfSeq
<1> HIDE DEF Finalized
<1> QED BY <1>1, <1>2

-----------------------------------------------------------------------------
(* What the actions that resume a composite add. *)

LEMMA TopFacts ==
    ASSUME TypeInv, NEW shapes, Received(shapes)
    PROVE  /\ stack # << >> /\ returned \in Ids /\ returned # 0 /\ result = "running"
           /\ Top = stack[1] /\ 1 \in Stacked
           /\ Top \in Frame /\ Top.form \in Form /\ Top.form.shape \in shapes
           /\ Top.form.shape \notin Single \cup {"nan"}
           /\ Top.form.type \in Names
           /\ Top.atom \in Ids \cup {0} /\ Top.key \in Ids \cup {0}
           /\ Top.count \in Nat /\ Top.count < Capacity(Top)
           /\ Top.form.shape \in Named => Top.form.fields[Top.count + 1] \in Names
           /\ Top.form.shape \in Positional => Position(Top.count) \in Form
           /\ Ids \subseteq Nat
<1>1. /\ stack # << >> /\ returned # 0 /\ Top.form.shape \in shapes /\ result = "running"
      BY DEF Received
<1>2. 1 \in Stacked /\ Top = stack[1] /\ returned \in Ids
      BY <1>1, StackFacts DEF Stacked, Top, TypeInv, TypeOK
<1>3. /\ Top \in Frame /\ Top.form \in Form /\ Top.count \in Nat
      /\ Top.atom \in Ids \cup {0} /\ Top.key \in Ids \cup {0} /\ FrameOK(Top, TRUE)
      BY <1>1, <1>2, StackFacts DEF FrameOK
<1>4. /\ Top.count < Capacity(Top) /\ Capacity(Top) \in Nat
      /\ Top.form.shape \in Named => Capacity(Top) = Len(Top.form.fields)
      /\ Top.form.shape \in Positional => Capacity(Top) <= MaxLen
      /\ Top.form.shape \notin Single \cup {"nan"}
      BY <1>3, CapacityFacts DEF FrameOK
<1>5. Top.form.type \in Names /\ Top.form.fields \in Seq(Names)
      BY <1>3, FormType
<1>6. Top.form.shape \in Named => Top.form.fields[Top.count + 1] \in Names
  <2>1. SUFFICES ASSUME Top.form.shape \in Named
                 PROVE  Top.form.fields[Top.count + 1] \in Names
        OBVIOUS
  <2>2. Top.count + 1 \in 1 .. Len(Top.form.fields)
        BY <1>3, <1>4, <2>1
  <2> QED BY <1>5, <2>2, ElementOfSeq
<1>7. Top.form.shape \in Positional => Position(Top.count) \in Form
  <2>1. SUFFICES ASSUME Top.form.shape \in Positional
                 PROVE  Position(Top.count) \in Form
        OBVIOUS
  <2>2. Top.count \in 0 .. MaxLen - 1
        BY <1>3, <1>4, <2>1, SetFacts
  <2> QED BY <2>2, PositionType
<1>8. Ids \subseteq Nat
      BY IdFacts DEF TypeInv, TypeOK
<1> QED BY <1>1, <1>2, <1>3, <1>4, <1>5, <1>6, <1>7, <1>8

LEMMA FieldPush ==
    ASSUME TypeInv, AttachField
    PROVE  Pushed(Top.form.fields[Top.count + 1],
                  <<Top.atom, returned>>, <<Top.form.type, "atom">>)
<1>1. /\ Top.form.fields[Top.count + 1] \in Names /\ Top.form.type \in Names
      /\ Top.atom \in Nat /\ returned \in Nat
      BY TopFacts DEF AttachField
<1> QED BY <1>1, SetFacts DEF AttachField, Pushed

LEMMA ElementPush ==
    ASSUME TypeInv, Received(Positional), NEW index \in Nat,
           PushRelation("idx", <<Top.atom, index, returned>>,
                        <<Top.form.type, "u64", "atom">>)
    PROVE  Pushed("idx", <<Top.atom, index, returned>>,
                  <<Top.form.type, "u64", "atom">>)
<1>1. Top.form.type \in Names /\ Top.atom \in Nat /\ returned \in Nat
      BY TopFacts
<1> QED BY <1>1, SetFacts DEF Pushed

LEMMA EntryPush ==
    ASSUME TypeInv, AttachEntry
    PROVE  Pushed("map_entry", <<Top.atom, Top.key, returned>>,
                  <<"map", "atom", "atom">>)
<1>1. Top.key \in Nat /\ Top.atom \in Nat /\ returned \in Nat
      BY TopFacts DEF AttachEntry
<1> QED BY <1>1, SetFacts DEF AttachEntry, Pushed

LEMMA WrapperPush ==
    ASSUME TypeInv, AttachSome, atoms[returned].type \in {"None", "Some"}
    PROVE  Pushed("value", <<NewId, returned>>, <<"Some", "atom">>)
<1>1. returned \in Nat
      BY TopFacts DEF AttachSome
<1>2. NewId \in Nat
      BY IdFacts DEF TypeInv, TypeOK
<1> QED BY <1>1, <1>2, SetFacts DEF AttachSome, Pushed

-----------------------------------------------------------------------------
(* Every step keeps the type, one lemma per action. *)

LEMMA TypeFrom ==
    ASSUME TypeInv, AtomsKept, StackInv', returned' \in Ids' \cup {0},
           relations' \in Seq(Record), root' = root,
           result' \in {"running", "ok", "failed"},
           trail' \in Seq(Form \cup {End})
    PROVE  TypeInv'
BY DEF TypeInv, TypeOK, AtomsKept, StackInv, Stacked

LEMMA TrailFacts ==
    ASSUME TypeInv
    PROVE  /\ trail \in Seq(Form \cup {End})
           /\ \A f \in Form \cup {End} : Append(trail, f) \in Seq(Form \cup {End})
BY AppendProperties DEF TypeInv, TypeOK

LEMMA CalledFacts ==
    ASSUME TypeInv, NEW t \in Types, NEW f \in Forms[t], Called(t, f)
    PROVE  /\ f \in Form /\ Awaited(t) /\ returned = 0 /\ result = "running"
           /\ stack = << >> \/ Top.count < Capacity(Top)
           /\ trail' \in Seq(Form \cup {End}) /\ root' = root /\ result' = result
           /\ relations \in Seq(Record) /\ atoms \in Seq(Form)
<1>1. f \in Form
      BY FormFacts
<1>2. Append(trail, f) \in Seq(Form \cup {End})
      BY <1>1, TrailFacts
<1> QED BY <1>1, <1>2 DEF Called, Awaited, TypeInv, TypeOK

LEMMA ValueType ==
    ASSUME TypeInv, NEW t \in Types, NEW f \in Forms[t], SerializeValue(t, f)
    PROVE  TypeInv'
<1>1. Called(t, f) /\ UNCHANGED <<relations, stack>>
      BY DEF SerializeValue
<1>2. PICK id \in Ids \cup {NewId} : ValueAtom(f, id) /\ returned' = id
      BY DEF SerializeValue
<1>3. AtomsKept /\ id \in Ids'
      BY <1>1, <1>2, CalledFacts, ValueFacts DEF TypeInv
<1>4. StackInv'
      BY <1>1, <1>3, CalledFacts, SameStack
<1> QED BY <1>1, <1>2, <1>3, <1>4, CalledFacts, TypeFrom

LEMMA NaNType ==
    ASSUME TypeInv, NEW t \in Types, NEW f \in Forms[t], SerializeNaN(t, f)
    PROVE  TypeInv'
<1>1. /\ Called(t, f) /\ EmitAtom(f) /\ returned' = NewId
      /\ UNCHANGED <<relations, stack>>
      BY DEF SerializeNaN
<1>2. AtomsKept /\ NewId \in Ids'
      BY <1>1, CalledFacts, EmitFacts DEF TypeInv
<1>3. StackInv'
      BY <1>1, <1>2, CalledFacts, SameStack
<1> QED BY <1>1, <1>2, <1>3, CalledFacts, TypeFrom

LEMMA SomeType ==
    ASSUME TypeInv, NEW t \in Types, NEW f \in Forms[t], SerializeSome(t, f)
    PROVE  TypeInv'
<1>1. /\ Called(t, f) /\ Begin(f, 0) /\ f.shape = "some"
      /\ UNCHANGED <<atoms, relations, interned>>
      BY DEF SerializeSome
<1>2. AtomsKept
      BY <1>1, SameAtoms DEF TypeInv
<1>3. f.shape \notin Single \cup {"nan"}
      BY <1>1 DEF Single
<1>4. StackInv' /\ returned' = 0
  <2>1. 0 \in Ids' \cup {0} /\ 0 \in Nat
        OBVIOUS
  <2> QED BY <1>1, <1>2, <1>3, <2>1, CalledFacts, BeginStack
<1> QED BY <1>1, <1>2, <1>4, CalledFacts, TypeFrom

LEMMA CompositeType ==
    ASSUME TypeInv, NEW t \in Types, NEW f \in Forms[t], SerializeComposite(t, f)
    PROVE  TypeInv'
<1>1. /\ Called(t, f) /\ EmitAtom(f) /\ Begin(f, NewId) /\ UNCHANGED relations
      /\ f.shape \in Named \cup Positional \cup {"map"}
      BY DEF SerializeComposite
<1>2. AtomsKept /\ NewId \in Ids' /\ NewId \in Nat
      BY <1>1, CalledFacts, EmitFacts, IdFacts DEF TypeInv
<1>3. f.shape \notin Single \cup {"nan"}
      BY <1>1 DEF Single, Named, Positional
<1>4. StackInv' /\ returned' = 0
      BY <1>1, <1>2, <1>3, CalledFacts, BeginStack
<1> QED BY <1>1, <1>2, <1>4, CalledFacts, TypeFrom

LEMMA ResumeType ==
    ASSUME TypeInv, AtomsKept, stack # << >>, returned # 0, result = "running",
           relations' \in Seq(Record),
           NEW atom \in Ids' \cup {0}, NEW key \in Ids' \cup {0}, Resume(atom, key)
    PROVE  TypeInv'
<1>1. atom \in Nat /\ key \in Nat
  <2>1. Ids' \subseteq Nat
    <3>1. atoms' \in Seq(Form)
          BY DEF AtomsKept
    <3>2. Len(atoms') \in Nat
          BY <3>1, LenProperties
    <3> QED BY <3>2 DEF Ids
  <2> QED BY <2>1
<1>2. StackInv' /\ returned' = 0
      BY <1>1, ResumeStack
<1>3. trail' \in Seq(Form \cup {End}) /\ root' = root /\ result' = "running"
      BY TrailFacts DEF Resume
<1> QED BY <1>2, <1>3, TypeFrom

LEMMA PushType ==
    ASSUME TypeInv, NEW name, NEW ids, NEW types, Pushed(name, ids, types)
    PROVE  relations' \in Seq(Record)
<1>1. relations \in Seq(Record)
      BY DEF TypeInv, TypeOK
<1> QED BY <1>1, PushFacts

LEMMA FieldType == ASSUME TypeInv, AttachField PROVE TypeInv'
<1>1. relations' \in Seq(Record)
      BY FieldPush, PushType
<1>2. AtomsKept
      BY SameAtoms DEF AttachField, TypeInv
<1>3. /\ stack # << >> /\ returned # 0 /\ result = "running"
      /\ Top.atom \in Ids' \cup {0} /\ Resume(Top.atom, 0)
      BY <1>2, TopFacts DEF AttachField, AtomsKept
<1> QED BY <1>1, <1>2, <1>3, ResumeType

LEMMA ElementType == ASSUME TypeInv, AttachElement PROVE TypeInv'
<1>1. PICK index \in Ids \cup {NewId} :
          /\ ValueAtom(Position(Top.count), index)
          /\ PushRelation("idx", <<Top.atom, index, returned>>,
                          <<Top.form.type, "u64", "atom">>)
      BY DEF AttachElement
<1>2. /\ Received(Positional) /\ Resume(Top.atom, 0) /\ Position(Top.count) \in Form
  <2>1. Received(Positional) /\ Resume(Top.atom, 0)
        BY DEF AttachElement
  <2>2. Top.form.shape \in Positional
        BY <2>1 DEF Received
  <2> QED BY <2>1, <2>2, TopFacts
<1>3. AtomsKept
      BY <1>1, <1>2, ValueFacts DEF TypeInv
<1>4. index \in Nat
      BY IdFacts DEF TypeInv, TypeOK
<1>5. relations' \in Seq(Record)
      BY <1>1, <1>2, <1>4, ElementPush, PushType
<1>6. /\ stack # << >> /\ returned # 0 /\ result = "running"
      /\ Top.atom \in Ids' \cup {0}
      BY <1>2, <1>3, TopFacts DEF AtomsKept
<1> QED BY <1>2, <1>3, <1>5, <1>6, ResumeType

LEMMA KeyType == ASSUME TypeInv, AttachKey PROVE TypeInv'
<1>1. AtomsKept /\ relations' \in Seq(Record)
      BY SameAtoms DEF AttachKey, TypeInv, TypeOK
<1>2. /\ stack # << >> /\ returned # 0 /\ result = "running"
      /\ Top.atom \in Ids' \cup {0} /\ returned \in Ids' \cup {0}
      /\ Resume(Top.atom, returned)
      BY <1>1, TopFacts DEF AttachKey, AtomsKept
<1> QED BY <1>1, <1>2, ResumeType

LEMMA EntryType == ASSUME TypeInv, AttachEntry PROVE TypeInv'
<1>1. relations' \in Seq(Record)
      BY EntryPush, PushType
<1>2. AtomsKept
      BY SameAtoms DEF AttachEntry, TypeInv
<1>3. /\ stack # << >> /\ returned # 0 /\ result = "running"
      /\ Top.atom \in Ids' \cup {0} /\ Resume(Top.atom, 0)
      BY <1>2, TopFacts DEF AttachEntry, AtomsKept
<1> QED BY <1>1, <1>2, <1>3, ResumeType

LEMMA WrapperType == ASSUME TypeInv, AttachSome PROVE TypeInv'
<1>1. Received({"some"})
      BY DEF AttachSome
<1>2. CASE atoms[returned].type \in {"None", "Some"}
  <2>1. EmitAtom(Top.form) /\ Resume(NewId, 0)
        BY <1>2 DEF AttachSome
  <2>2. relations' \in Seq(Record)
        BY <1>2, WrapperPush, PushType
  <2>3. AtomsKept /\ NewId \in Ids'
        BY <1>1, <2>1, TopFacts, EmitFacts DEF TypeInv
  <2> QED BY <1>1, <2>1, <2>2, <2>3, TopFacts, ResumeType
<1>3. CASE atoms[returned].type \notin {"None", "Some"}
  <2>1. Resume(returned, 0) /\ UNCHANGED <<atoms, relations, interned>>
        BY <1>3 DEF AttachSome
  <2>2. AtomsKept /\ relations' \in Seq(Record)
        BY <2>1, SameAtoms DEF TypeInv, TypeOK
  <2>3. returned \in Ids'
        BY <1>1, <2>2, TopFacts DEF AtomsKept
  <2> QED BY <1>1, <2>1, <2>2, <2>3, TopFacts, ResumeType
<1> QED BY <1>2, <1>3

LEMMA EndType == ASSUME TypeInv, EndComposite PROVE TypeInv'
<1>1. /\ UNCHANGED <<root, relations, result>>
      /\ trail' = IF Top.form.shape \in Open THEN Append(trail, End) ELSE trail
      BY DEF EndComposite
<1>2. trail' \in Seq(Form \cup {End})
      BY <1>1, TrailFacts
<1>3. relations' \in Seq(Record) /\ result' \in {"running", "ok", "failed"}
      BY <1>1 DEF TypeInv, TypeOK
<1> QED BY <1>1, <1>2, <1>3, EndStack, TypeFrom

LEMMA FinishType == ASSUME TypeInv, Finish PROVE TypeInv'
<1>1. relations' \in Seq(Record)
      BY FinalizeFacts DEF TypeInv, TypeOK
<1>2. AtomsKept /\ Ids' = Ids /\ stack = << >> /\ UNCHANGED <<stack, returned, trail, root>>
      BY SameAtoms DEF Finish, TypeInv
<1>3. StackInv'
      BY <1>2, SameStack
<1>4. returned' \in Ids' \cup {0} /\ result' = "ok"
      BY <1>2 DEF Finish, TypeInv, TypeOK
<1> QED BY <1>1, <1>2, <1>3, <1>4, TrailFacts, TypeFrom

LEMMA EmptyType ==
    ASSUME root \in Roots, atoms = << >>, relations = << >>, interned = {},
           stack = << >>, returned = 0, result \in {"running", "ok", "failed"},
           trail = << >>
    PROVE  TypeInv
BY DEF TypeInv, TypeOK, FramesOK, Stacked, Ids

LEMMA FailType == ASSUME TypeInv, Fail PROVE TypeInv'
<1>1. root' \in Roots
      BY DEF Fail, TypeInv, TypeOK
<1> QED BY <1>1 DEF Fail, TypeInv, TypeOK, FramesOK, Stacked, Ids

LEMMA TypeInit == Init => TypeInv
BY EmptyType DEF Init

LEMMA TypeStep == TypeInv /\ [Next]_vars => TypeInv'
<1> SUFFICES ASSUME TypeInv, [Next]_vars PROVE TypeInv'
    OBVIOUS
<1>1. ASSUME NEW t \in Types, NEW f \in Forms[t],
             \/ SerializeValue(t, f) \/ SerializeNaN(t, f)
             \/ SerializeSome(t, f) \/ SerializeComposite(t, f)
      PROVE  TypeInv'
      BY <1>1, ValueType, NaNType, SomeType, CompositeType
<1>2. UNCHANGED vars => TypeInv'
      BY DEF vars, TypeInv, TypeOK, FramesOK, Stacked, Ids
<1> QED
    BY <1>1, <1>2, FieldType, ElementType, KeyType, EntryType, WrapperType,
       EndType, FinishType, FailType
    DEF Next

(* The state is well formed, and a part of a type's forms is what a composite
   awaits: no call finds the stack, or an id, other than the code expects. *)
THEOREM TypeCorrect == Spec => []TypeOK
<1>1. TypeInv => TypeOK
      BY DEF TypeInv
<1> QED BY <1>1, TypeInit, TypeStep, PTL DEF Spec

-----------------------------------------------------------------------------
(* The cache has the values' atoms, all of them and nothing else. *)

Interning == \A i \in Ids : atoms[i].shape \in Single <=> i \in interned

ShareInv == TypeInv /\ Interning /\ EqualValuesShare

AtomsStep ==
    \/ UNCHANGED <<atoms, interned>>
    \/ atoms' = << >> /\ interned' = {}
    \/ \E form \in Form : form.shape \in Single /\ \E id : ValueAtom(form, id)
    \/ \E form \in Form : form.shape \notin Single /\ EmitAtom(form)

(* Only composites, NaNs and wrappers get an atom without a look-up. *)
LEMMA AtomsChange == TypeInv /\ [Next]_vars => AtomsStep
<1> SUFFICES ASSUME TypeInv, [Next]_vars PROVE AtomsStep
    OBVIOUS
<1>1. ASSUME NEW t \in Types, NEW f \in Forms[t],
             \/ SerializeValue(t, f) \/ SerializeNaN(t, f)
             \/ SerializeSome(t, f) \/ SerializeComposite(t, f)
      PROVE  AtomsStep
  <2>1. f \in Form
        BY FormFacts
  <2>2. CASE SerializeValue(t, f)
        BY <2>1, <2>2 DEF SerializeValue, AtomsStep
  <2>3. CASE SerializeNaN(t, f)
        BY <2>1, <2>3 DEF SerializeNaN, AtomsStep, Single
  <2>4. CASE SerializeSome(t, f)
        BY <2>4 DEF SerializeSome, AtomsStep
  <2>5. CASE SerializeComposite(t, f)
        BY <2>1, <2>5 DEF SerializeComposite, AtomsStep, Single, Named, Positional
  <2> QED BY <1>1, <2>2, <2>3, <2>4, <2>5
<1>2. ASSUME AttachElement PROVE AtomsStep
  <2>1. Position(Top.count) \in Form
    <3>1. Received(Positional) /\ Top.form.shape \in Positional
          BY <1>2 DEF AttachElement, Received
    <3> QED BY <3>1, TopFacts
  <2>2. Position(Top.count).shape \in Single
        BY DEF Position, Single
  <2>3. \E id : ValueAtom(Position(Top.count), id)
        BY <1>2 DEF AttachElement
  <2> QED BY <2>1, <2>2, <2>3 DEF AtomsStep
<1>3. ASSUME AttachSome PROVE AtomsStep
  <2>1. Top.form \in Form /\ Top.form.shape \notin Single
        BY <1>3, TopFacts DEF AttachSome
  <2> QED BY <1>3, <2>1 DEF AttachSome, AtomsStep
<1>4. ASSUME \/ AttachField \/ AttachKey \/ AttachEntry \/ EndComposite
             \/ Finish \/ Fail \/ UNCHANGED vars
      PROVE  AtomsStep
      BY <1>4 DEF AttachField, AttachKey, AttachEntry, EndComposite, Finish, Fail,
                  vars, AtomsStep
<1> QED BY <1>1, <1>2, <1>3, <1>4 DEF Next

LEMMA ShareInit == Init => ShareInv
BY TypeInit DEF Init, ShareInv, Interning, EqualValuesShare, Ids

LEMMA ShareStep == ShareInv /\ [Next]_vars => ShareInv'
<1> SUFFICES ASSUME ShareInv, [Next]_vars PROVE ShareInv'
    OBVIOUS
<1>1. TypeInv /\ TypeOK /\ TypeInv' /\ AtomsStep
      BY TypeStep, AtomsChange DEF ShareInv, TypeInv
<1>2. CASE UNCHANGED <<atoms, interned>>
      BY <1>1, <1>2 DEF ShareInv, Interning, EqualValuesShare, Ids
<1>3. CASE atoms' = << >> /\ interned' = {}
  <2>1. Ids' = {}
        BY <1>3 DEF Ids
  <2> QED BY <1>1, <2>1 DEF ShareInv, Interning, EqualValuesShare
<1>4. ASSUME NEW form \in Form, form.shape \in Single, NEW id, ValueAtom(form, id)
      PROVE  ShareInv'
  <2>1. CASE Known(form) # {}
    <3>1. UNCHANGED <<atoms, interned>>
          BY <1>4, <2>1 DEF ValueAtom
    <3> QED BY <1>2, <3>1
  <2>2. CASE Known(form) = {}
    <3>1. /\ AtomsKept /\ Ids' = Ids \cup {NewId} /\ atoms'[NewId] = form
          /\ interned' = interned \cup {NewId}
          BY <1>1, <1>4, <2>2, ValueFacts
    <3>2. NewId \notin Ids /\ \A i \in Ids : atoms'[i] = atoms[i]
          BY <1>1, <3>1, IdFacts DEF TypeOK, AtomsKept
    <3>3. Interning'
          BY <1>4, <3>1, <3>2 DEF ShareInv, Interning
    <3>4. \A i \in Ids : atoms[i].shape \in Single =>
             ~(atoms[i].type = form.type /\ atoms[i].label = form.label)
          BY <2>2 DEF ShareInv, Interning, Known
    <3>5. EqualValuesShare'
          BY <3>1, <3>2, <3>4 DEF ShareInv, EqualValuesShare
    <3> QED BY <1>1, <3>3, <3>5 DEF ShareInv
  <2> QED BY <2>1, <2>2
<1>5. ASSUME NEW form \in Form, form.shape \notin Single, EmitAtom(form)
      PROVE  ShareInv'
  <2>1. /\ AtomsKept /\ Ids' = Ids \cup {NewId} /\ atoms'[NewId] = form
        /\ interned' = interned
        BY <1>1, <1>5, EmitFacts
  <2>2. /\ NewId \notin Ids /\ \A i \in Ids : atoms'[i] = atoms[i]
        /\ interned \subseteq Ids
        BY <1>1, <2>1, IdFacts DEF TypeOK, AtomsKept
  <2>3. Interning'
        BY <1>5, <2>1, <2>2 DEF ShareInv, Interning
  <2>4. EqualValuesShare'
        BY <1>5, <2>1, <2>2 DEF ShareInv, EqualValuesShare
  <2> QED BY <1>1, <2>3, <2>4 DEF ShareInv
<1> QED BY <1>1, <1>2, <1>3, <1>4, <1>5 DEF AtomsStep

(* Equal values have one atom, wherever in the value they are. *)
THEOREM EqualValuesAreOne == Spec => []EqualValuesShare
<1>1. ShareInv => EqualValuesShare
      BY DEF ShareInv
<1> QED BY <1>1, ShareInit, ShareStep, PTL DEF Spec

-----------------------------------------------------------------------------
(* Records: one per source and name, with a header that describes its tuples. *)

RelationsStep ==
    \/ UNCHANGED <<relations, result>>
    \/ relations' = << >> /\ result' = "failed"
    \/ /\ \E name, ids, types : Pushed(name, ids, types)
       /\ result' = result /\ result = "running"
    \/ Finish

LEMMA RelationsChange == TypeInv /\ [Next]_vars => RelationsStep
<1> SUFFICES ASSUME TypeInv, [Next]_vars PROVE RelationsStep
    OBVIOUS
<1>1. ASSUME NEW t \in Types, NEW f \in Forms[t],
             \/ SerializeValue(t, f) \/ SerializeNaN(t, f)
             \/ SerializeSome(t, f) \/ SerializeComposite(t, f)
      PROVE  RelationsStep
      BY <1>1 DEF SerializeValue, SerializeNaN, SerializeSome, SerializeComposite,
                  Called, RelationsStep
<1>2. ASSUME AttachField PROVE RelationsStep
      BY <1>2, FieldPush DEF AttachField, Received, Resume, RelationsStep
<1>3. ASSUME AttachElement PROVE RelationsStep
  <2>1. PICK index \in Ids \cup {NewId} :
            PushRelation("idx", <<Top.atom, index, returned>>,
                         <<Top.form.type, "u64", "atom">>)
        BY <1>3 DEF AttachElement
  <2>2. index \in Nat
        BY IdFacts DEF TypeInv, TypeOK
  <2>3. Received(Positional) /\ result = "running" /\ result' = result
        BY <1>3 DEF AttachElement, Received, Resume
  <2> QED BY <2>1, <2>2, <2>3, ElementPush DEF RelationsStep
<1>4. ASSUME AttachEntry PROVE RelationsStep
      BY <1>4, EntryPush DEF AttachEntry, Received, Resume, RelationsStep
<1>5. ASSUME AttachSome PROVE RelationsStep
      BY <1>5, WrapperPush DEF AttachSome, Received, Resume, RelationsStep
<1>6. ASSUME AttachKey \/ EndComposite \/ Finish \/ Fail \/ UNCHANGED vars
      PROVE  RelationsStep
      BY <1>6 DEF AttachKey, Resume, EndComposite, Fail, vars, RelationsStep
<1> QED BY <1>1, <1>2, <1>3, <1>4, <1>5, <1>6 DEF Next

TupleOK(tuple, source) ==
    /\ Len(tuple.types) \in {2, 3} /\ Len(tuple.atoms) = Len(tuple.types)
    /\ tuple.types[1] = source

(* A position that all tuples agree on has their type, another one "atom". *)
Described(types, tuples) ==
    /\ \A tu \in tuples : Len(tu.types) <= Len(types)
    /\ \E tu \in tuples : Len(tu.types) = Len(types)
    /\ \A p \in 1 .. Len(types) :
          \/ \A tu \in tuples : p <= Len(tu.types) => tu.types[p] = types[p]
          \/ /\ types[p] = "atom"
             /\ \E tu, tw \in tuples : /\ p <= Len(tu.types) /\ p <= Len(tw.types)
                                       /\ tu.types[p] # tw.types[p]

RecordOK(record) ==
    /\ \A tu \in Range(record.tuples) : TupleOK(tu, record.source)
    /\ Described(record.types, Range(record.tuples))

Keyed == \A i, j \in 1 .. Len(relations) :
            relations[i].source = relations[j].source /\ relations[i].name = relations[j].name
               => i = j

LongestFirst ==
    result = "ok" => \A i \in 1 .. Len(relations) :
                        Len(relations[i].tuples[1].types) = Len(relations[i].types)

RecordsInv ==
    /\ TypeInv /\ Keyed /\ LongestFirst
    /\ \A i \in 1 .. Len(relations) : RecordOK(relations[i])

LEMMA AppendRange ==
    ASSUME NEW T, NEW s \in Seq(T), NEW x \in T
    PROVE  Range(Append(s, x)) = Range(s) \cup {x}
<1> DEFINE u == <<x>>
<1>1. Append(s, x) = s \o u /\ u \in Seq(T)
      BY AppendIsConcat
<1>2. Range(u) = {x}
      BY DEF Range
<1> HIDE DEF u
<1>3. Range(s \o u) = Range(s) \cup Range(u)
      BY <1>1, RangeConcatenation
<1> QED BY <1>1, <1>2, <1>3

LEMMA FirstRecordOK ==
    ASSUME NEW name \in Names, NEW tuple \in Tuple,
           Len(tuple.types) \in {2, 3}, Len(tuple.atoms) = Len(tuple.types)
    PROVE  RecordOK(New(name, tuple))
<1>1. tuple.types # << >> /\ tuple.types \in Seq(Names)
  <2>1. tuple.types \in Seq(Names)
        BY DEF Tuple
  <2>2. Len(tuple.types) # 0
    <3>1. CASE Len(tuple.types) = 2
          BY <3>1
    <3>2. CASE Len(tuple.types) = 3
          BY <3>2
    <3> QED BY <3>1, <3>2
  <2> QED BY <2>1, <2>2, EmptySeq
<1>2. /\ New(name, tuple).source = tuple.types[1]
      /\ New(name, tuple).types = tuple.types
      /\ New(name, tuple).tuples = <<tuple>>
      BY <1>1, NewRecord
<1>3. Range(<<tuple>>) = {tuple}
      BY DEF Range
<1>4. TupleOK(tuple, tuple.types[1])
      BY DEF TupleOK
<1>5. Described(tuple.types, {tuple})
      BY <1>1 DEF Described
<1> QED BY <1>2, <1>3, <1>4, <1>5 DEF RecordOK

LEMMA JoinDescribes ==
    ASSUME NEW header \in Seq(Names), NEW tuples, \A tu \in tuples : tu \in Tuple,
           NEW tuple \in Tuple, Described(header, tuples)
    PROVE  Described(JoinPositionTypes(header, tuple.types), tuples \cup {tuple})
<1> DEFINE incoming == tuple.types
           joined == JoinPositionTypes(header, incoming)
           all == tuples \cup {tuple}
<1>1. \A tu \in all : tu.types \in Seq(Names) /\ Len(tu.types) \in Nat
      BY DEF Tuple
<1>2. /\ Len(header) \in Nat /\ Len(incoming) \in Nat /\ Len(joined) \in Nat
      /\ Len(joined) = IF Len(header) > Len(incoming) THEN Len(header) ELSE Len(incoming)
      /\ \A i \in 1 .. Len(joined) :
            joined[i] = IF i > Len(header) THEN incoming[i]
                        ELSE IF i <= Len(incoming) /\ header[i] # incoming[i] THEN "atom"
                        ELSE header[i]
      BY <1>1, JoinedHeader, LenProperties
<1> HIDE DEF joined
<1>3. \A tu \in all : Len(tu.types) <= Len(joined)
      BY <1>1, <1>2 DEF Described
<1>4. \E tu \in all : Len(tu.types) = Len(joined)
      BY <1>1, <1>2 DEF Described
<1>5. ASSUME NEW p \in 1 .. Len(joined)
      PROVE  \/ \A tu \in all : p <= Len(tu.types) => tu.types[p] = joined[p]
             \/ /\ joined[p] = "atom"
                /\ \E tu, tw \in all : /\ p <= Len(tu.types) /\ p <= Len(tw.types)
                                       /\ tu.types[p] # tw.types[p]
  <2>1. CASE p > Len(header)
    <3>1. \A tu \in tuples : ~(p <= Len(tu.types))
          BY <1>1, <1>2, <2>1 DEF Described
    <3>2. joined[p] = tuple.types[p]
          BY <1>2, <2>1
    <3> QED BY <3>1, <3>2
  <2>2. CASE p <= Len(header)
    <3>1. p \in 1 .. Len(header)
          BY <1>2, <2>2
    <3>2. CASE p <= Len(incoming) /\ header[p] # incoming[p]
      <4>1. joined[p] = "atom"
            BY <1>2, <2>2, <3>2
      <4>2. \E tu \in tuples : p <= Len(tu.types)
            BY <1>1, <3>1 DEF Described
      <4>3. CASE \A tu \in tuples : p <= Len(tu.types) => tu.types[p] = header[p]
            BY <3>2, <4>1, <4>2, <4>3
      <4>4. CASE \E tu, tw \in tuples : /\ p <= Len(tu.types) /\ p <= Len(tw.types)
                                        /\ tu.types[p] # tw.types[p]
            BY <4>1, <4>4
      <4> QED BY <3>1, <4>3, <4>4 DEF Described
    <3>3. CASE ~(p <= Len(incoming) /\ header[p] # incoming[p])
      <4>1. joined[p] = header[p]
            BY <1>2, <2>2, <3>3
      <4>2. p <= Len(tuple.types) => tuple.types[p] = header[p]
            BY <3>3
      <4> QED BY <3>1, <4>1, <4>2 DEF Described
    <3> QED BY <3>2, <3>3
  <2> QED BY <1>2, <2>1, <2>2
<1> QED BY <1>3, <1>4, <1>5 DEF Described, joined

LEMMA ExtendedRecordOK ==
    ASSUME NEW record \in Record, NEW tuple \in Tuple, RecordOK(record),
           TupleOK(tuple, record.source)
    PROVE  RecordOK(Extended(record, tuple))
<1>1. /\ record.tuples \in Seq(Tuple) /\ record.types \in Seq(Names)
      BY RecordType
<1>2. Range(Append(record.tuples, tuple)) = Range(record.tuples) \cup {tuple}
      BY <1>1, AppendRange
<1>3. \A tu \in Range(record.tuples) : tu \in Tuple
      BY <1>1, RangeOfSeq
<1>4. Described(JoinPositionTypes(record.types, tuple.types), Range(record.tuples) \cup {tuple})
      BY <1>1, <1>3, JoinDescribes DEF RecordOK
<1> QED BY <1>2, <1>4, ExtendedRecord DEF RecordOK

LEMMA FinalizedRecordOK ==
    ASSUME NEW record \in Record, RecordOK(record)
    PROVE  /\ RecordOK(Finalized(record))
           /\ Len(Finalized(record).tuples[1].types) = Len(Finalized(record).types)
<1> DEFINE long == OfLength(record.tuples, 3)
           short == OfLength(record.tuples, 2)
           tuples == Range(record.tuples)
<1>1. /\ long \in Seq(Tuple) /\ short \in Seq(Tuple)
      /\ Range(long) = {tu \in tuples : Len(tu.atoms) = 3}
      /\ Range(short) = {tu \in tuples : Len(tu.atoms) = 2}
      BY RecordType, OfLengthFacts
<1>2. /\ Finalized(record).source = record.source
      /\ Finalized(record).types = record.types
      /\ Finalized(record).tuples = long \o short
      BY FinalizedRecord
<1> HIDE DEF long, short
<1>3. long \o short \in Seq(Tuple) /\ Range(long \o short) = Range(long) \cup Range(short)
      BY <1>1, ConcatProperties, RangeConcatenation
<1>4. \A tu \in tuples : /\ Len(tu.types) \in {2, 3} /\ Len(tu.atoms) = Len(tu.types)
                         /\ Len(tu.types) <= Len(record.types)
      BY DEF RecordOK, TupleOK, Described
<1>5. PICK longest \in tuples : Len(longest.types) = Len(record.types)
      BY DEF RecordOK, Described
<1> HIDE DEF tuples
<1>6. Range(long \o short) = tuples
      BY <1>1, <1>3, <1>4
<1>7. RecordOK(Finalized(record))
      BY <1>2, <1>6 DEF RecordOK, tuples
<1>8. ASSUME NEW s \in Seq(Tuple), s # << >>
      PROVE  s[1] \in Range(s)
      BY <1>8 DEF Range
<1>9. Len((long \o short)[1].types) = Len(record.types)
  <2>1. CASE long # << >>
    <3>1. long[1] \in Range(long)
          BY <1>1, <1>8, <2>1
    <3>2. (long \o short)[1] = long[1]
          BY <1>1, <2>1
    <3>3. Len(long[1].types) = 3 /\ Len(long[1].types) <= Len(record.types)
          BY <1>1, <1>4, <3>1
    <3>4. Len(record.types) \in {2, 3}
          BY <1>4, <1>5
    <3>5. Len(record.types) = 3
      <4>1. 3 <= Len(record.types)
            BY <3>3
      <4>2. CASE Len(record.types) = 2
            BY <4>1, <4>2
      <4> QED BY <3>4, <4>2
    <3> QED BY <3>2, <3>3, <3>5
  <2>2. CASE long = << >>
    <3>1. Range(long) = {}
          BY <2>2 DEF Range
    <3>2. \A tu \in tuples : Len(tu.types) = 2
          BY <1>1, <1>4, <3>1
    <3>3. (long \o short) # << >>
          BY <1>5, <1>6 DEF Range
    <3>4. (long \o short)[1] \in tuples
          BY <1>3, <1>6, <1>8, <3>3
    <3> QED BY <1>5, <3>2, <3>4
  <2> QED BY <2>1, <2>2
<1> QED BY <1>2, <1>7, <1>9

LEMMA RecordsInit == Init => RecordsInv
BY TypeInit DEF Init, RecordsInv, Keyed, LongestFirst

LEMMA RecordsFacts ==
    ASSUME RecordsInv
    PROVE  /\ relations \in Seq(Record) /\ Len(relations) \in Nat
           /\ \A i \in 1 .. Len(relations) :
                 relations[i] \in Record /\ RecordOK(relations[i])
<1>1. relations \in Seq(Record)
      BY DEF RecordsInv, TypeInv, TypeOK
<1> QED BY <1>1, LenProperties, ElementOfSeq DEF RecordsInv

LEMMA PushRecords ==
    ASSUME RecordsInv, TypeInv', NEW name, NEW ids, NEW types, Pushed(name, ids, types),
           result' = result, result = "running"
    PROVE  RecordsInv'
<1> DEFINE n == Len(relations)
<1>1. PICK tuple : tuple = [atoms |-> ids, types |-> types]
      OBVIOUS
<1>2. /\ n \in Nat /\ relations \in Seq(Record)
      /\ \A i \in 1 .. n : relations[i] \in Record /\ RecordOK(relations[i])
      BY RecordsFacts
<1>3. tuple \in Tuple /\ tuple.types = types /\ tuple.atoms = ids
      BY <1>1, <1>2, PushFacts
<1>4. /\ name \in Names /\ Len(types) \in {2, 3} /\ Len(ids) = Len(types)
      /\ types # << >>
      BY <1>3 DEF Pushed
<1>5. /\ New(name, tuple).source = types[1] /\ New(name, tuple).name = name
      BY <1>3, <1>4, NewRecord
<1>6. LongestFirst'
      BY DEF LongestFirst
<1>7. CASE /\ \A i \in 1 .. n : ~Matches(relations[i], name, types)
           /\ Len(relations') = n + 1
           /\ \A i \in 1 .. n : relations'[i] = relations[i]
           /\ relations'[n + 1] = New(name, tuple)
  <2>1. 1 .. Len(relations') = 1 .. n \cup {n + 1}
        BY <1>2, <1>7, IntervalLast
  <2>2. RecordOK(New(name, tuple))
        BY <1>3, <1>4, FirstRecordOK
  <2>3. \A i \in 1 .. Len(relations') : RecordOK(relations'[i])
        BY <1>2, <1>7, <2>1, <2>2
  <2>4. Keyed'
    <3>1. ASSUME NEW i \in 1 .. Len(relations'), NEW j \in 1 .. Len(relations'),
                 /\ relations'[i].source = relations'[j].source
                 /\ relations'[i].name = relations'[j].name
          PROVE  i = j
      <4>1. CASE i \in 1 .. n /\ j \in 1 .. n
            BY <1>7, <3>1, <4>1 DEF RecordsInv, Keyed
      <4>2. CASE i \in 1 .. n /\ j = n + 1
        <5>1. ~Matches(relations[i], name, types)
              BY <1>7, <4>2
        <5>2. /\ relations[i].source = New(name, tuple).source
              /\ relations[i].name = New(name, tuple).name
              BY <1>7, <3>1, <4>2
        <5> QED BY <1>5, <5>1, <5>2 DEF Matches
      <4>3. CASE i = n + 1 /\ j \in 1 .. n
        <5>1. ~Matches(relations[j], name, types)
              BY <1>7, <4>3
        <5>2. /\ relations[j].source = New(name, tuple).source
              /\ relations[j].name = New(name, tuple).name
              BY <1>7, <3>1, <4>3
        <5> QED BY <1>5, <5>1, <5>2 DEF Matches
      <4>4. (i \in 1 .. n \/ i = n + 1) /\ (j \in 1 .. n \/ j = n + 1)
            BY <2>1
      <4>5. CASE i = n + 1 /\ j = n + 1
            BY <4>5
      <4> QED BY <4>1, <4>2, <4>3, <4>4, <4>5
    <3> QED BY <3>1 DEF Keyed
  <2> QED BY <1>6, <2>3, <2>4 DEF RecordsInv
<1>8. CASE /\ Len(relations') = n
           /\ \A i \in 1 .. n :
                 relations'[i] = IF Matches(relations[i], name, types)
                                 THEN Extended(relations[i], tuple)
                                 ELSE relations[i]
  <2>1. ASSUME NEW i \in 1 .. n
        PROVE  /\ RecordOK(relations'[i])
               /\ relations'[i].source = relations[i].source
               /\ relations'[i].name = relations[i].name
    <3>1. CASE Matches(relations[i], name, types)
      <4>1. TupleOK(tuple, relations[i].source)
            BY <1>3, <1>4, <3>1 DEF TupleOK, Matches
      <4>2. relations'[i] = Extended(relations[i], tuple)
            BY <1>8, <3>1
      <4>3. relations[i] \in Record /\ RecordOK(relations[i])
            BY <1>2
      <4> QED BY <1>3, <4>1, <4>2, <4>3, ExtendedRecordOK, ExtendedRecord
    <3>2. CASE ~Matches(relations[i], name, types)
          BY <1>2, <1>8, <3>2
    <3> QED BY <3>1, <3>2
  <2>2. Keyed'
        BY <1>8, <2>1 DEF RecordsInv, Keyed
  <2> QED BY <1>6, <1>8, <2>1, <2>2 DEF RecordsInv
<1> QED BY <1>1, <1>2, <1>7, <1>8, PushFacts

LEMMA RecordsStep == RecordsInv /\ [Next]_vars => RecordsInv'
<1> SUFFICES ASSUME RecordsInv, [Next]_vars PROVE RecordsInv'
    OBVIOUS
<1>1. TypeInv' /\ RelationsStep
      BY TypeStep, RelationsChange DEF RecordsInv
<1>2. CASE UNCHANGED <<relations, result>>
      BY <1>1, <1>2 DEF RecordsInv, Keyed, LongestFirst
<1>3. CASE relations' = << >> /\ result' = "failed"
  <2>1. 1 .. Len(relations') = {}
        BY <1>3
  <2> QED BY <1>1, <2>1 DEF RecordsInv, Keyed, LongestFirst
<1>4. CASE Finish
  <2>1. /\ Len(relations') = Len(relations)
        /\ \A i \in 1 .. Len(relations) : relations'[i] = Finalized(relations[i])
        BY <1>4, RecordsFacts, FinalizeFacts
  <2>2. ASSUME NEW i \in 1 .. Len(relations)
        PROVE  /\ RecordOK(relations'[i])
               /\ relations'[i].source = relations[i].source
               /\ relations'[i].name = relations[i].name
               /\ Len(relations'[i].tuples[1].types) = Len(relations'[i].types)
    <3>1. relations'[i] = Finalized(relations[i])
          BY <2>1
    <3>2. relations[i] \in Record /\ RecordOK(relations[i])
          BY RecordsFacts
    <3> QED BY <3>1, <3>2, FinalizedRecordOK, FinalizedRecord
  <2>3. Keyed' /\ LongestFirst'
        BY <2>1, <2>2 DEF RecordsInv, Keyed, LongestFirst
  <2> QED BY <1>1, <2>1, <2>2, <2>3 DEF RecordsInv
<1> QED BY <1>1, <1>2, <1>3, <1>4, PushRecords DEF RelationsStep

LEMMA DescribedHeader ==
    ASSUME NEW types, NEW tuples, Described(types, tuples), NEW p \in 1 .. Len(types),
           \A tu \in tuples : Len(tu.types) \in Nat, Len(types) \in Nat,
           NEW At, At = {tu.types[p] : tu \in {tw \in tuples : p <= Len(tw.types)}}
    PROVE  /\ At # {}
           /\ types[p] = IF \E a \in At : At = {a}
                         THEN CHOOSE a \in At : TRUE ELSE "atom"
<1>1. PICK longest \in tuples : p <= Len(longest.types)
      BY DEF Described
<1>2. longest.types[p] \in At
      BY <1>1
<1>3. CASE \A tu \in tuples : p <= Len(tu.types) => tu.types[p] = types[p]
  <2>1. At = {types[p]}
        BY <1>2, <1>3
  <2> QED BY <2>1
<1>4. CASE /\ types[p] = "atom"
           /\ \E tu, tw \in tuples : /\ p <= Len(tu.types) /\ p <= Len(tw.types)
                                     /\ tu.types[p] # tw.types[p]
  <2>1. \E a, b \in At : a # b
        BY <1>4
  <2> QED BY <1>2, <1>4, <2>1
<1> QED BY <1>3, <1>4 DEF Described

LEMMA RecordsHeaders == RecordsInv => HeadersDescribe
<1> SUFFICES ASSUME RecordsInv, NEW i \in 1 .. Len(relations)
             PROVE  LET types == relations[i].types
                        tuples == relations[i].tuples
                        At(p) == {tuples[j].types[p] :
                                     j \in {k \in 1 .. Len(tuples) :
                                               p <= Len(tuples[k].types)}} IN
                    /\ \A p \in 1 .. Len(types) :
                          /\ At(p) # {}
                          /\ types[p] = IF \E a \in At(p) : At(p) = {a}
                                        THEN CHOOSE a \in At(p) : TRUE ELSE "atom"
                    /\ \A j \in 1 .. Len(tuples) : Len(tuples[j].types) <= Len(types)
                    /\ result = "ok" => Len(tuples[1].types) = Len(types)
    BY DEF HeadersDescribe
<1> DEFINE types == relations[i].types
           tuples == relations[i].tuples
           At(p) == {tuples[j].types[p] : j \in {k \in 1 .. Len(tuples) :
                                                    p <= Len(tuples[k].types)}}
<1>1. /\ relations[i] \in Record /\ RecordOK(relations[i])
      /\ types \in Seq(Names) /\ tuples \in Seq(Tuple) /\ Len(types) \in Nat
      BY RecordsFacts, RecordType
<1>2. Described(types, Range(tuples))
      BY <1>1 DEF RecordOK
<1>3. result = "ok" => Len(tuples[1].types) = Len(types)
      BY DEF RecordsInv, LongestFirst
<1> HIDE DEF types, tuples
<1>4. Range(tuples) = {tuples[j] : j \in 1 .. Len(tuples)}
      BY <1>1, RangeEquality
<1>5. \A tu \in Range(tuples) : Len(tu.types) \in Nat
  <2>1. \A tu \in Range(tuples) : tu \in Tuple
        BY <1>1, RangeOfSeq
  <2>2. \A tu \in Tuple : Len(tu.types) \in Nat
        BY DEF Tuple
  <2> QED BY <2>1, <2>2
<1>6. ASSUME NEW p \in 1 .. Len(types)
      PROVE  /\ At(p) # {}
             /\ types[p] = IF \E a \in At(p) : At(p) = {a}
                           THEN CHOOSE a \in At(p) : TRUE ELSE "atom"
  <2>1. At(p) = {tu.types[p] : tu \in {tw \in Range(tuples) : p <= Len(tw.types)}}
        BY <1>4
  <2> HIDE DEF At
  <2>2. PICK all : all = Range(tuples)
        OBVIOUS
  <2>3. /\ Described(types, all) /\ At(p) = {tu.types[p] : tu \in {tw \in all : p <= Len(tw.types)}}
        /\ \A tu \in all : Len(tu.types) \in Nat
        BY <1>2, <1>5, <2>1, <2>2
  <2> QED BY <1>1, <2>3, DescribedHeader
<1>7. \A j \in 1 .. Len(tuples) : Len(tuples[j].types) <= Len(types)
      BY <1>2, <1>4 DEF Described
<1> QED BY <1>3, <1>6, <1>7 DEF types, tuples

(* A record's header describes all its tuples, whatever their arities and the
   order in which they come; in the result a longest one is first. *)
THEOREM HeadersAlwaysDescribe == Spec => []HeadersDescribe
BY RecordsInit, RecordsStep, RecordsHeaders, PTL DEF Spec

-----------------------------------------------------------------------------
(* Relation ids can be read: an escaped name is decoded from its start, where
   what follows a "\" is meant as it is and a bare "." ends the source type. *)

Escaped(x) == IF x \in {".", "\\"} THEN <<"\\", x>> ELSE <<x>>

Cons(x, s) == <<x>> \o s

LEMMA FirstSplit ==
    ASSUME NEW S, NEW s \in Seq(S), NEW n \in Nat, Len(s) = n + 1
    PROVE  \E x \in S, t \in Seq(S) : s = Cons(x, t) /\ Len(t) = n
<1>1. s # << >>
      BY EmptySeq
<1>2. /\ Head(s) \in S /\ Tail(s) \in Seq(S) /\ Len(Tail(s)) = n
      /\ \A i \in 1 .. n : Tail(s)[i] = s[i + 1]
      BY <1>1, HeadTailProperties
<1>3. Head(s) = s[1]
      BY <1>1
<1> DEFINE x == Head(s)
           t == Tail(s)
<1> HIDE DEF x, t
<1>4. /\ <<x>> \o t \in Seq(S) /\ Len(<<x>> \o t) = n + 1
      /\ (<<x>> \o t)[1] = x
      /\ \A i \in 2 .. n + 1 : (<<x>> \o t)[i] = t[i - 1]
      BY <1>2 DEF x, t
<1>5. \A i \in 1 .. n + 1 : (<<x>> \o t)[i] = s[i]
  <2>1. ASSUME NEW i \in 2 .. n + 1 PROVE (<<x>> \o t)[i] = s[i]
    <3>1. i - 1 \in 1 .. n /\ i - 1 + 1 = i
          OBVIOUS
    <3> QED BY <1>2, <1>4, <3>1 DEF t
  <2> QED BY <1>3, <1>4, <2>1 DEF x
<1>6. <<x>> \o t = s
      BY <1>4, <1>5, SeqEqual
<1> QED BY <1>2, <1>6 DEF x, t, Cons

LEMMA PieceFacts ==
    /\ "." \in Pieces /\ "\\" \in Pieces /\ "." # "\\"
    /\ \A x \in Pieces : Escaped(x) \in Seq(Pieces)
BY ExportAssumption DEF Escaped

LEMMA EscapeType ==
    ASSUME NEW s \in Seq(Pieces)
    PROVE  Escape(s) \in Seq(Pieces)
<1> DEFINE pieces == [i \in 1 .. Len(s) |-> Escaped(s[i])]
<1>1. pieces \in Seq(Seq(Pieces))
      BY PieceFacts
<1>2. Escape(s) = Flatten(pieces)
      BY DEF Escape, Escaped
<1> QED BY <1>1, <1>2, FlattenType

LEMMA EscapeEmpty == Escape(<< >>) = << >>
<1> DEFINE pieces == [i \in 1 .. Len(<< >>) |-> Escaped(<< >>[i])]
<1>1. Len(pieces) = 0
      OBVIOUS
<1>2. Escape(<< >>) = Flatten(pieces)
      BY DEF Escape, Escaped
<1> QED BY <1>1, <1>2, FlattenEmpty

LEMMA EscapeFirst ==
    ASSUME NEW x \in Pieces, NEW s \in Seq(Pieces)
    PROVE  Escape(Cons(x, s)) = Escaped(x) \o Escape(s)
<1> DEFINE t == Cons(x, s)
           rest == [i \in 1 .. Len(s) |-> Escaped(s[i])]
           all == [i \in 1 .. Len(t) |-> Escaped(t[i])]
           first == <<Escaped(x)>>
<1>1. /\ t \in Seq(Pieces) /\ Len(t) = Len(s) + 1 /\ Len(s) \in Nat
      /\ t[1] = x /\ \A i \in 2 .. Len(s) + 1 : t[i] = s[i - 1]
      BY DEF Cons
<1>2. Escape(t) = Flatten(all) /\ Escape(s) = Flatten(rest)
      BY DEF Escape, Escaped
<1> HIDE DEF t
<1>3. /\ all \in Seq(Seq(Pieces)) /\ Len(all) = Len(s) + 1
      /\ \A i \in 1 .. Len(s) + 1 : all[i] = Escaped(t[i])
      BY <1>1, PieceFacts
<1>4. /\ rest \in Seq(Seq(Pieces)) /\ Len(rest) = Len(s)
      /\ \A i \in 1 .. Len(s) : rest[i] = Escaped(s[i])
      BY <1>1, PieceFacts
<1>5. first \in Seq(Seq(Pieces)) /\ Len(first) = 1 /\ first[1] = Escaped(x)
      BY PieceFacts
<1> HIDE DEF all, rest, first
<1>6. all = first \o rest
  <2>1. /\ first \o rest \in Seq(Seq(Pieces)) /\ Len(first \o rest) = Len(s) + 1
        /\ \A i \in 1 .. Len(s) + 1 :
              (first \o rest)[i] = IF i <= 1 THEN first[i] ELSE rest[i - 1]
    <3>1. /\ first \o rest \in Seq(Seq(Pieces))
          /\ Len(first \o rest) = Len(first) + Len(rest)
          /\ \A i \in 1 .. Len(first) + Len(rest) :
                (first \o rest)[i] = IF i <= Len(first) THEN first[i]
                                     ELSE rest[i - Len(first)]
      <4> first \in Seq(Seq(Pieces)) /\ rest \in Seq(Seq(Pieces))
          BY <1>4, <1>5
      <4>1. /\ first \o rest \in Seq(Seq(Pieces))
            /\ Len(first \o rest) = Len(first) + Len(rest)
            BY <1>4, <1>5, ConcatProperties
      <4>2. \A i \in 1 .. Len(first) + Len(rest) :
                (first \o rest)[i] = IF i <= Len(first) THEN first[i]
                                     ELSE rest[i - Len(first)]
            BY ONLY first \in Seq(Seq(Pieces)), rest \in Seq(Seq(Pieces)), ConcatProperties
      <4> QED BY <4>1, <4>2
    <3>2. Len(first) = 1 /\ Len(first) + Len(rest) = Len(s) + 1
          BY <1>1, <1>4, <1>5
    <3> QED BY <3>1, <3>2
  <2>2. ASSUME NEW i \in 1 .. Len(s) + 1 PROVE all[i] = (first \o rest)[i]
    <3>1. CASE i = 1
      <4>1. all[i] = Escaped(t[1]) /\ t[1] = x
            BY <1>1, <1>3, <3>1
      <4>2. (first \o rest)[i] = first[1]
            BY <1>1, <2>1, <3>1
      <4> QED BY <1>5, <4>1, <4>2
    <3>2. CASE i # 1
      <4>1. i \in 2 .. Len(s) + 1 /\ i - 1 \in 1 .. Len(s) /\ ~(i <= 1)
            BY <1>1, <3>2
      <4>2. all[i] = Escaped(s[i - 1])
            BY <1>1, <1>3, <4>1
      <4>3. (first \o rest)[i] = rest[i - 1]
            BY <2>1, <4>1
      <4> QED BY <1>4, <4>1, <4>2, <4>3
    <3> QED BY <3>1, <3>2
  <2> QED BY <1>3, <2>1, <2>2, SeqEqual
<1>7. Flatten(all) = Flatten(first) \o Flatten(rest)
      BY <1>4, <1>5, <1>6, FlattenConcat
<1>8. Flatten(first) = Escaped(x)
  <2>1. << >> \in Seq(Seq(Pieces)) /\ Escaped(x) \in Seq(Pieces)
        BY PieceFacts
  <2>2. Append(<< >>, Escaped(x)) = first
        BY DEF first
  <2>3. Flatten(Append(<< >>, Escaped(x))) = Flatten(<< >>) \o Escaped(x)
        BY <2>1, FlattenAppend
  <2>4. Flatten(<< >>) = << >>
        BY FlattenEmpty
  <2> QED BY <2>1, <2>2, <2>3, <2>4, ConcatEmptySeq
<1> QED BY <1>2, <1>7, <1>8 DEF t

LEMMA DecodeStop ==
    ASSUME NEW x \in Pieces, NEW u \in Seq(Pieces), NEW v \in Seq(Pieces)
    PROVE  Escaped(x) \o u # <<".">> \o v
<1> DEFINE l == Escaped(x) \o u
           d == <<".">> \o v
<1>1. /\ x \in {".", "\\"} => l[1] = "\\"
      /\ x \notin {".", "\\"} => l[1] = x
      BY DEF Escaped
<1>2. d[1] = "."
      OBVIOUS
<1> HIDE DEF l, d
<1> QED BY <1>1, <1>2, PieceFacts DEF l, d

LEMMA DecodeSame ==
    ASSUME NEW x \in Pieces, NEW y \in Pieces, NEW u \in Seq(Pieces), NEW v \in Seq(Pieces),
           Escaped(x) \o u = Escaped(y) \o v
    PROVE  x = y /\ u = v
<1> DEFINE l == Escaped(x) \o u
           r == Escaped(y) \o v
<1>1. /\ x \in {".", "\\"} => l[1] = "\\" /\ l[2] = x
      /\ x \notin {".", "\\"} => l[1] = x
      BY DEF Escaped
<1>2. /\ y \in {".", "\\"} => r[1] = "\\" /\ r[2] = y
      /\ y \notin {".", "\\"} => r[1] = y
      BY DEF Escaped
<1>3. l = r
      OBVIOUS
<1>4. x = y
  <2> HIDE DEF l, r
  <2> QED BY <1>1, <1>2, <1>3
<1> DEFINE e == Escaped(x)
<1>5. e \in Seq(Pieces) /\ e \o u = e \o v
      BY <1>4, PieceFacts
<1> HIDE DEF e
<1>6. u = v
      BY <1>5, ConcatSimplifications
<1> QED BY <1>4, <1>6

Dot(w) == <<".">> \o w

Readable(s, t) ==
    \A w, z \in Seq(Pieces) :
       Escape(s) \o Dot(w) = Escape(t) \o Dot(z) => s = t /\ w = z

LEMMA DotFacts ==
    ASSUME NEW w \in Seq(Pieces), NEW z \in Seq(Pieces)
    PROVE  /\ Dot(w) \in Seq(Pieces)
           /\ << >> \o Dot(w) = Dot(w)
           /\ Dot(w) = Dot(z) => w = z
<1> DEFINE dot == <<".">>
<1>1. dot \in Seq(Pieces)
      BY PieceFacts
<1>2. Dot(w) = dot \o w /\ Dot(z) = dot \o z
      BY DEF Dot
<1> HIDE DEF dot
<1>3. dot \o w \in Seq(Pieces)
      BY <1>1, ConcatProperties
<1>4. dot \o w = dot \o z => w = z
      BY <1>1, ConcatSimplifications
<1>5. << >> \o (dot \o w) = dot \o w
      BY <1>3, ConcatEmptySeq
<1> QED BY <1>2, <1>3, <1>4, <1>5

LEMMA NonEmptySplit ==
    ASSUME NEW s \in Seq(Pieces), s # << >>
    PROVE  \E x \in Pieces, t \in Seq(Pieces) : s = Cons(x, t)
<1>1. PICK n \in Nat : Len(s) = n + 1
  <2>1. Len(s) \in Nat \ {0}
        BY EmptySeq
  <2>2. Len(s) - 1 \in Nat /\ Len(s) = (Len(s) - 1) + 1
        BY <2>1
  <2> QED BY <2>2
<1>2. \E x \in Pieces, t \in Seq(Pieces) : s = Cons(x, t) /\ Len(t) = n
      BY <1>1, FirstSplit
<1> QED BY <1>2

LEMMA EscapeDotType ==
    ASSUME NEW s \in Seq(Pieces), NEW w \in Seq(Pieces)
    PROVE  Escape(s) \o Dot(w) \in Seq(Pieces)
<1> DEFINE r == Escape(s)
           d == Dot(w)
<1>1. r \in Seq(Pieces) /\ d \in Seq(Pieces)
      BY DotFacts, EscapeType
<1> HIDE DEF r, d
<1>2. r \o d \in Seq(Pieces)
      BY <1>1, ConcatProperties
<1> QED BY <1>2 DEF r, d

LEMMA EscapeFirstDot ==
    ASSUME NEW x \in Pieces, NEW s \in Seq(Pieces), NEW w \in Seq(Pieces)
    PROVE  Escape(Cons(x, s)) \o Dot(w) = Escaped(x) \o (Escape(s) \o Dot(w))
<1> DEFINE e == Escaped(x)
           r == Escape(s)
           d == Dot(w)
<1>1. e \in Seq(Pieces) /\ r \in Seq(Pieces) /\ d \in Seq(Pieces)
      BY DotFacts, EscapeType, PieceFacts
<1>2. Escape(Cons(x, s)) = e \o r
      BY EscapeFirst
<1> HIDE DEF e, r, d
<1>3. (e \o r) \o d = e \o (r \o d)
      BY <1>1, ConcatAssociative
<1> QED BY <1>2, <1>3 DEF e, r, d

LEMMA EscapeFirstStop ==
    ASSUME NEW x \in Pieces, NEW s \in Seq(Pieces), NEW w \in Seq(Pieces),
           NEW z \in Seq(Pieces)
    PROVE  Escape(Cons(x, s)) \o Dot(w) # Dot(z)
<1>1. PICK u \in Seq(Pieces) : u = Escape(s) \o Dot(w)
      BY EscapeDotType
<1>2. Escape(Cons(x, s)) \o Dot(w) = Escaped(x) \o u
      BY <1>1, EscapeFirstDot
<1>3. Escaped(x) \o u # Dot(z)
      BY DecodeStop DEF Dot
<1> QED BY <1>2, <1>3

LEMMA ReadableEmpty ==
    ASSUME NEW t \in Seq(Pieces)
    PROVE  Readable(<< >>, t)
<1> SUFFICES ASSUME NEW w \in Seq(Pieces), NEW z \in Seq(Pieces),
                    Escape(<< >>) \o Dot(w) = Escape(t) \o Dot(z)
             PROVE  << >> = t /\ w = z
    BY DEF Readable
<1>1. Dot(w) = Escape(t) \o Dot(z)
      BY DotFacts, EscapeEmpty
<1>2. CASE t = << >>
      BY <1>1, <1>2, DotFacts, EscapeEmpty
<1>3. CASE t # << >>
  <2>1. PICK y \in Pieces, rest \in Seq(Pieces) : t = Cons(y, rest)
        BY <1>3, NonEmptySplit
  <2>2. Escape(Cons(y, rest)) \o Dot(z) # Dot(w)
        BY EscapeFirstStop
  <2> QED BY <1>1, <2>1, <2>2
<1> QED BY <1>2, <1>3

LEMMA ReadableNext ==
    ASSUME NEW x \in Pieces, NEW s \in Seq(Pieces), NEW t \in Seq(Pieces),
           \A rest \in Seq(Pieces) : Readable(s, rest)
    PROVE  Readable(Cons(x, s), t)
<1> SUFFICES ASSUME NEW w \in Seq(Pieces), NEW z \in Seq(Pieces),
                    Escape(Cons(x, s)) \o Dot(w) = Escape(t) \o Dot(z)
             PROVE  Cons(x, s) = t /\ w = z
    BY DEF Readable
<1>1. t # << >>
  <2>1. Escape(Cons(x, s)) \o Dot(w) # Dot(z)
        BY EscapeFirstStop
  <2>2. Escape(<< >>) \o Dot(z) = Dot(z)
        BY DotFacts, EscapeEmpty
  <2> QED BY <2>1, <2>2
<1>2. PICK y \in Pieces, rest \in Seq(Pieces) : t = Cons(y, rest)
      BY <1>1, NonEmptySplit
<1>3. PICK u \in Seq(Pieces), v \in Seq(Pieces) :
          u = Escape(s) \o Dot(w) /\ v = Escape(rest) \o Dot(z)
      BY EscapeDotType
<1>4. Escaped(x) \o u = Escaped(y) \o v
  <2>1. Escape(Cons(x, s)) \o Dot(w) = Escaped(x) \o u
        BY <1>3, EscapeFirstDot
  <2>2. Escape(Cons(y, rest)) \o Dot(z) = Escaped(y) \o v
        BY <1>3, EscapeFirstDot
  <2> QED BY <1>2, <2>1, <2>2
<1>5. x = y /\ u = v
      BY <1>4, DecodeSame
<1>6. s = rest /\ w = z
      BY <1>3, <1>5 DEF Readable
<1> QED BY <1>2, <1>5, <1>6

(* By induction on the length of what is read first *)
LEMMA EscapeReadable ==
    ASSUME NEW a \in Seq(Pieces), NEW c \in Seq(Pieces)
    PROVE  Readable(a, c)
<1> DEFINE Reads(n) == \A s, t \in Seq(Pieces) : Len(s) = n => Readable(s, t)
           S == {n \in Nat : Reads(n)}
<1>1. Reads(0)
      BY EmptySeq, ReadableEmpty
<1>2. ASSUME NEW n \in Nat, Reads(n) PROVE Reads(n + 1)
  <2>1. ASSUME NEW s \in Seq(Pieces), NEW t \in Seq(Pieces), Len(s) = n + 1
        PROVE  Readable(s, t)
    <3>1. PICK x \in Pieces, tail \in Seq(Pieces) : s = Cons(x, tail) /\ Len(tail) = n
          BY <2>1, FirstSplit
    <3>2. \A rest \in Seq(Pieces) : Readable(tail, rest)
          BY <1>2, <3>1
    <3> QED BY <3>1, <3>2, ReadableNext
  <2> QED BY <2>1
<1> HIDE DEF Reads
<1>3. 0 \in S /\ S \in SUBSET Nat /\ \A n \in S : n + 1 \in S
      BY <1>1, <1>2
<1> HIDE DEF S
<1>4. S = Nat
      BY <1>3, SetInduction
<1>5. Len(a) \in Nat
      BY LenProperties
<1>6. Reads(Len(a))
      BY <1>4, <1>5 DEF S
<1> QED BY <1>6 DEF Reads

LEMMA RelationIdApart ==
    ASSUME NEW s \in Names, NEW n \in Names, NEW t \in Names, NEW m \in Names,
           RelationId(s, n) = RelationId(t, m)
    PROVE  s = t /\ n = m
<1> DEFINE a == Spelling[s]
           b == Spelling[n]
           c == Spelling[t]
           d == Spelling[m]
           dot == <<".">>
<1>1. /\ a \in Seq(Pieces) /\ b \in Seq(Pieces) /\ c \in Seq(Pieces) /\ d \in Seq(Pieces)
      /\ (a = c => s = t) /\ (b = d => n = m)
      BY ExportAssumption
<1>2. (Escape(a) \o dot) \o Escape(b) = (Escape(c) \o dot) \o Escape(d)
      BY DEF RelationId
<1> HIDE DEF a, b, c, d
<1> DEFINE p == Escape(a)
           q == Escape(b)
           r == Escape(c)
           e == Escape(d)
<1>3. dot \in Seq(Pieces)
      BY PieceFacts
<1>4. p \in Seq(Pieces) /\ q \in Seq(Pieces) /\ r \in Seq(Pieces) /\ e \in Seq(Pieces)
      BY <1>1, EscapeType
<1>5. p \o Dot(q) = r \o Dot(e)
  <2>1. Dot(q) = dot \o q /\ Dot(e) = dot \o e
        BY DEF Dot
  <2> HIDE DEF p, q, r, e, dot
  <2>2. (p \o dot) \o q = p \o (dot \o q)
    <3> p \in Seq(Pieces) /\ q \in Seq(Pieces) /\ dot \in Seq(Pieces)
        BY <1>3, <1>4
    <3> QED BY ONLY p \in Seq(Pieces), q \in Seq(Pieces), dot \in Seq(Pieces),
                    ConcatAssociative
  <2>3. (r \o dot) \o e = r \o (dot \o e)
    <3> r \in Seq(Pieces) /\ e \in Seq(Pieces) /\ dot \in Seq(Pieces)
        BY <1>3, <1>4
    <3> QED BY ONLY r \in Seq(Pieces), e \in Seq(Pieces), dot \in Seq(Pieces),
                    ConcatAssociative
  <2> QED BY <1>2, <2>1, <2>2, <2>3 DEF p, q, r, e
<1>6. a = c /\ q = e
  <2>1. Readable(a, c)
        BY <1>1, EscapeReadable
  <2> QED BY <1>4, <1>5, <2>1 DEF Readable
<1>7. b = d
  <2>1. << >> \in Seq(Pieces)
        BY EmptySeq
  <2>2. Escape(b) \o Dot(<< >>) = Escape(d) \o Dot(<< >>)
        BY <1>6
  <2>3. Readable(b, d)
        BY <1>1, EscapeReadable
  <2> QED BY <2>1, <2>2, <2>3 DEF Readable
<1> QED BY <1>1, <1>6, <1>7

(* Ids keep records apart, dots and backslashes in names notwithstanding; a
   record has the tuples of its own source type. *)
THEOREM RecordsAreApart == Spec => []RecordsApart
<1>1. RecordsInv => RecordsApart
  <2> SUFFICES ASSUME RecordsInv PROVE RecordsApart
      OBVIOUS
  <2>1. ASSUME NEW i \in 1 .. Len(relations), NEW j \in 1 .. Len(relations),
               RelationId(relations[i].source, relations[i].name)
                  = RelationId(relations[j].source, relations[j].name)
        PROVE  i = j
    <3>1. /\ relations[i].source \in Names /\ relations[i].name \in Names
          /\ relations[j].source \in Names /\ relations[j].name \in Names
          BY RecordsFacts, RecordType
    <3>2. relations[i].source = relations[j].source /\ relations[i].name = relations[j].name
          BY <2>1, <3>1, RelationIdApart
    <3> QED BY <3>2 DEF RecordsInv, Keyed
  <2>2. ASSUME NEW i \in 1 .. Len(relations), NEW k \in 1 .. Len(relations[i].tuples)
        PROVE  relations[i].tuples[k].types[1] = relations[i].source
    <3>1. relations[i].tuples \in Seq(Tuple) /\ RecordOK(relations[i])
          BY RecordsFacts, RecordType
    <3>2. relations[i].tuples[k] \in Range(relations[i].tuples)
          BY <3>1, RangeEquality
    <3> QED BY <3>1, <3>2 DEF RecordOK, TupleOK
  <2> QED BY <2>1, <2>2 DEF RecordsApart
<1> QED BY <1>1, RecordsInit, RecordsStep, PTL DEF Spec

-----------------------------------------------------------------------------
(* A composite's atom is held in one place, as the atom or the key of a frame
   or as what was returned, until it is put into a tuple, once.  What holds it
   and what contains it are parameters here. *)

Whole(as, a) == a # 0 /\ as[a].shape \notin Single

HeldIn(s, r, a) == a = r \/ \E j \in 1 .. Len(s) : a \in {s[j].atom, s[j].key}

Apart(as, s, r) ==
    /\ \A i, j \in 1 .. Len(s) :
          Whole(as, s[i].atom) /\ s[i].atom = s[j].atom => i = j
    /\ \A i, j \in 1 .. Len(s) :
          Whole(as, s[i].key) /\ s[i].key = s[j].key => i = j
    /\ \A i, j \in 1 .. Len(s) : Whole(as, s[i].atom) => s[i].atom # s[j].key
    /\ \A j \in 1 .. Len(s) : Whole(as, r) => r # s[j].atom /\ r # s[j].key

PartsFree(as, T, s, r) ==
    \A tu \in T : \A n \in 2 .. Len(tu.atoms) :
       /\ tu.atoms[n] \in DOMAIN as
       /\ Whole(as, tu.atoms[n]) => ~HeldIn(s, r, tu.atoms[n])

Once(as, T) ==
    \A tu, tw \in T : \A m \in 2 .. Len(tu.atoms), n \in 2 .. Len(tw.atoms) :
       tu.atoms[m] = tw.atoms[n] /\ Whole(as, tu.atoms[m]) => tu = tw /\ m = n

PartInv ==
    /\ ShareInv
    /\ Apart(atoms, stack, returned)
    /\ PartsFree(atoms, Tuples, stack, returned)
    /\ Once(atoms, Tuples)

LEMMA PartInit == Init => PartInv
<1> SUFFICES ASSUME Init PROVE PartInv
    OBVIOUS
<1>1. Tuples = {}
      BY DEF Init, Tuples
<1>2. 1 .. Len(stack) = {}
      BY DEF Init
<1>3. Apart(atoms, stack, returned)
      BY <1>2 DEF Apart
<1> QED BY <1>1, <1>3, ShareInit DEF PartInv, PartsFree, Once

(* Atoms do not change when others are added. *)
LEMMA WholeKept ==
    ASSUME AtomsKept, atoms \in Seq(Form)
    PROVE  /\ \A a \in Ids \cup {0} : Whole(atoms', a) <=> Whole(atoms, a)
           /\ DOMAIN atoms = Ids /\ DOMAIN atoms' = Ids'
           /\ Ids \subseteq Ids'
BY DEF AtomsKept, Whole, Ids

LEMMA ApartKept ==
    ASSUME PartInv, AtomsKept
    PROVE  Apart(atoms', stack, returned)
<1>1. /\ returned \in Ids \cup {0}
      /\ \A i \in 1 .. Len(stack) : stack[i].atom \in Ids \cup {0} /\ stack[i].key \in Ids \cup {0}
      BY StackFacts DEF PartInv, ShareInv, TypeInv, TypeOK, Stacked
<1>2. \A a \in Ids \cup {0} : Whole(atoms', a) <=> Whole(atoms, a)
      BY WholeKept DEF PartInv, ShareInv, TypeInv, TypeOK
<1>3. Apart(atoms, stack, returned)
      BY DEF PartInv
<1> QED BY <1>1, <1>2, <1>3 DEF Apart

(* Nothing is held that was not, but for new atoms; tuples are no more. *)
LEMMA PartsStay ==
    ASSUME PartInv, AtomsKept, ShareInv', Apart(atoms', stack', returned'),
           Tuples' \subseteq Tuples,
           \A a \in Ids : HeldIn(stack', returned', a) /\ Whole(atoms', a)
                             => HeldIn(stack, returned, a)
    PROVE  PartInv'
<1>1. /\ \A a \in Ids \cup {0} : Whole(atoms', a) <=> Whole(atoms, a)
      /\ DOMAIN atoms = Ids /\ DOMAIN atoms' = Ids' /\ Ids \subseteq Ids'
      BY WholeKept DEF PartInv, ShareInv, TypeInv, TypeOK
<1>2. PartsFree(atoms', Tuples', stack', returned')
      BY <1>1 DEF PartInv, PartsFree
<1>3. Once(atoms', Tuples')
  <2>1. \A tu \in Tuples : \A n \in 2 .. Len(tu.atoms) : tu.atoms[n] \in Ids
        BY <1>1 DEF PartInv, PartsFree
  <2> QED BY <1>1, <2>1 DEF PartInv, Once
<1> QED BY <1>2, <1>3 DEF PartInv

(* A tuple more, of values and of what was held and is no longer. *)
LEMMA PartsAdded ==
    ASSUME PartInv, AtomsKept, ShareInv', Apart(atoms', stack', returned'),
           NEW tuple, Tuples' \subseteq Tuples \cup {tuple},
           \A a \in Ids : HeldIn(stack', returned', a) /\ Whole(atoms', a)
                             => HeldIn(stack, returned, a),
           \A n \in 2 .. Len(tuple.atoms) :
              /\ tuple.atoms[n] \in Ids'
              /\ Whole(atoms', tuple.atoms[n]) =>
                    /\ tuple.atoms[n] \in Ids
                    /\ HeldIn(stack, returned, tuple.atoms[n])
                    /\ ~HeldIn(stack', returned', tuple.atoms[n]),
           \A m, n \in 2 .. Len(tuple.atoms) :
              tuple.atoms[m] = tuple.atoms[n] /\ Whole(atoms', tuple.atoms[m]) => m = n
    PROVE  PartInv'
<1>1. /\ \A a \in Ids \cup {0} : Whole(atoms', a) <=> Whole(atoms, a)
      /\ DOMAIN atoms = Ids /\ DOMAIN atoms' = Ids' /\ Ids \subseteq Ids'
      BY WholeKept DEF PartInv, ShareInv, TypeInv, TypeOK
<1>2. \A tu \in Tuples : \A n \in 2 .. Len(tu.atoms) :
         /\ tu.atoms[n] \in Ids
         /\ Whole(atoms', tu.atoms[n]) => ~HeldIn(stack, returned, tu.atoms[n])
      BY <1>1 DEF PartInv, PartsFree
<1>3. PartsFree(atoms', Tuples', stack', returned')
  <2>1. ASSUME NEW tu \in Tuples', NEW n \in 2 .. Len(tu.atoms)
        PROVE  /\ tu.atoms[n] \in Ids'
               /\ Whole(atoms', tu.atoms[n]) => ~HeldIn(stack', returned', tu.atoms[n])
    <3>1. CASE tu \in Tuples
          BY <1>1, <1>2, <3>1
    <3>2. CASE tu = tuple
          BY <3>2
    <3> QED BY <3>1, <3>2
  <2> QED BY <1>1, <2>1 DEF PartsFree
<1>4. Once(atoms', Tuples')
  <2>1. ASSUME NEW tu \in Tuples', NEW tw \in Tuples',
               NEW m \in 2 .. Len(tu.atoms), NEW n \in 2 .. Len(tw.atoms),
               tu.atoms[m] = tw.atoms[n], Whole(atoms', tu.atoms[m])
        PROVE  tu = tw /\ m = n
    <3>1. CASE tu \in Tuples /\ tw \in Tuples
      <4>1. Whole(atoms, tu.atoms[m])
            BY <1>1, <1>2, <2>1, <3>1
      <4> QED BY <2>1, <3>1, <4>1 DEF PartInv, Once
    <3>2. CASE tu \in Tuples /\ tw = tuple
          BY <1>2, <2>1, <3>2
    <3>3. CASE tu = tuple /\ tw \in Tuples
          BY <1>2, <2>1, <3>3
    <3>4. CASE tu = tuple /\ tw = tuple
          BY <2>1, <3>4
    <3> QED BY <3>1, <3>2, <3>3, <3>4
  <2> QED BY <2>1 DEF Once
<1> QED BY <1>3, <1>4 DEF PartInv

-----------------------------------------------------------------------------
(* What the three ways in which the stack changes do to what is held *)

LEMMA ApartReturned ==
    ASSUME NEW as, NEW s, NEW r, Apart(as, s, r), NEW fresh,
           Whole(as, fresh) => ~HeldIn(s, r, fresh)
    PROVE  Apart(as, s, fresh)
BY DEF Apart, HeldIn

LEMMA ApartPushed ==
    ASSUME NEW as, NEW s \in Seq(Frame), NEW r, Apart(as, s, r), NEW c \in Frame,
           NEW t, t = <<c>> \o s, c.key = 0,
           Whole(as, c.atom) => ~HeldIn(s, r, c.atom)
    PROVE  /\ Apart(as, t, r)
           /\ \A a : HeldIn(t, r, a) => HeldIn(s, r, a) \/ a \in {c.atom, 0}
<1>1. /\ t \in Seq(Frame) /\ Len(t) = Len(s) + 1 /\ t[1] = c /\ Len(s) \in Nat
      /\ \A i \in 2 .. Len(t) : i - 1 \in 1 .. Len(s) /\ t[i] = s[i - 1]
      BY PushFrame
<1>2. ~Whole(as, 0)
      BY DEF Whole
<1>3. \A i \in 1 .. Len(t) : i = 1 \/ i \in 2 .. Len(t)
      BY <1>1
<1>4. \A i, j \in 2 .. Len(t) : i - 1 = j - 1 => i = j
      OBVIOUS
<1>5. ASSUME NEW i \in 1 .. Len(t), NEW j \in 1 .. Len(t)
      PROVE  /\ Whole(as, t[i].atom) /\ t[i].atom = t[j].atom => i = j
             /\ Whole(as, t[i].key) /\ t[i].key = t[j].key => i = j
             /\ Whole(as, t[i].atom) => t[i].atom # t[j].key
             /\ Whole(as, r) => r # t[j].atom /\ r # t[j].key
  <2>1. CASE i = 1 /\ j = 1
        BY <1>1, <1>2, <2>1 DEF HeldIn, Whole
  <2>2. CASE i = 1 /\ j \in 2 .. Len(t)
    <3>1. PICK k \in 1 .. Len(s) : t[j] = s[k]
          BY <1>1, <2>2
    <3>2. t[i] = c
          BY <1>1, <2>2
    <3> QED BY <1>2, <3>1, <3>2 DEF HeldIn, Apart
  <2>3. CASE i \in 2 .. Len(t) /\ j = 1
    <3>1. PICK k \in 1 .. Len(s) : t[i] = s[k]
          BY <1>1, <2>3
    <3>2. t[j] = c
          BY <1>1, <2>3
    <3> QED BY <1>2, <3>1, <3>2 DEF HeldIn, Apart, Whole
  <2>4. CASE i \in 2 .. Len(t) /\ j \in 2 .. Len(t)
    <3>1. PICK k \in 1 .. Len(s), l \in 1 .. Len(s) :
              t[i] = s[k] /\ t[j] = s[l] /\ (k = l => i = j)
      <4>1. /\ i - 1 \in 1 .. Len(s) /\ t[i] = s[i - 1]
            /\ j - 1 \in 1 .. Len(s) /\ t[j] = s[j - 1]
            BY <1>1, <2>4
      <4>2. i - 1 = j - 1 => i = j
            BY <1>4, <2>4
      <4> QED BY <4>1, <4>2
    <3> QED BY <3>1 DEF Apart
  <2> QED BY <1>3, <2>1, <2>2, <2>3, <2>4
<1>6. Apart(as, t, r)
      BY ONLY <1>5 DEF Apart
<1>7. ASSUME NEW a, HeldIn(t, r, a)
      PROVE  HeldIn(s, r, a) \/ a \in {c.atom, 0}
  <2>1. CASE a = r
        BY <2>1 DEF HeldIn
  <2>2. CASE \E i \in 1 .. Len(t) : a = t[i].atom \/ a = t[i].key
    <3>1. PICK i \in 1 .. Len(t) : a = t[i].atom \/ a = t[i].key
          BY <2>2
    <3>2. CASE i = 1
          BY <1>1, <3>1, <3>2
    <3>3. CASE i # 1
      <4>1. i - 1 \in 1 .. Len(s) /\ t[i] = s[i - 1]
            BY <1>1, <3>3
      <4> QED BY <3>1, <4>1 DEF HeldIn
    <3> QED BY <3>2, <3>3
  <2> QED BY <1>7, <2>1, <2>2 DEF HeldIn
<1> QED BY <1>6, <1>7

LEMMA ApartResumed ==
    ASSUME NEW as, NEW s \in Seq(Frame), s # << >>, NEW r, Apart(as, s, r),
           NEW t \in Seq(Frame), Len(t) = Len(s), \A i \in 2 .. Len(s) : t[i] = s[i],
           t[1].key \in {0, r}, t[1].key # t[1].atom \/ ~Whole(as, t[1].atom),
           \/ t[1].atom \in {s[1].atom, r}
           \/ Whole(as, t[1].atom) => ~HeldIn(s, r, t[1].atom)
    PROVE  /\ Apart(as, t, 0)
           /\ \A a : HeldIn(t, 0, a) => HeldIn(s, r, a) \/ a \in {t[1].atom, 0}
           /\ r # t[1].atom /\ r # t[1].key /\ Whole(as, r) => ~HeldIn(t, 0, r)
<1>1. ~Whole(as, 0)
      BY DEF Whole
<1>2. /\ Len(s) \in Nat /\ 1 \in 1 .. Len(s)
      /\ \A i \in 1 .. Len(s) : i = 1 \/ i \in 2 .. Len(s)
      OBVIOUS
<1>3. ASSUME NEW i \in 2 .. Len(s)
      PROVE  /\ Whole(as, t[1].atom) => t[1].atom # s[i].atom /\ t[1].atom # s[i].key
             /\ Whole(as, t[1].key) => t[1].key # s[i].atom /\ t[1].key # s[i].key
  <2>1. i \in 1 .. Len(s) /\ i # 1
        BY <1>2
  <2>2. ASSUME Whole(as, t[1].atom)
        PROVE  t[1].atom # s[i].atom /\ t[1].atom # s[i].key
    <3>1. CASE t[1].atom = s[1].atom
      <4>1. \A j \in 1 .. Len(s) : Whole(as, s[1].atom) =>
                (s[1].atom = s[j].atom => 1 = j) /\ s[1].atom # s[j].key
            BY <1>2 DEF Apart
      <4> QED BY <2>1, <2>2, <3>1, <4>1
    <3>2. CASE t[1].atom = r
          BY <2>1, <2>2, <3>2 DEF Apart
    <3>3. CASE ~HeldIn(s, r, t[1].atom)
          BY <2>1, <3>3 DEF HeldIn
    <3> QED BY <2>2, <3>1, <3>2, <3>3
  <2>3. ASSUME Whole(as, t[1].key)
        PROVE  t[1].key # s[i].atom /\ t[1].key # s[i].key
    <3>1. t[1].key = r
          BY <1>1, <2>3
    <3> QED BY <2>1, <2>3, <3>1 DEF Apart, HeldIn
  <2> QED BY <2>2, <2>3
<1>4. ASSUME NEW i \in 1 .. Len(t), NEW j \in 1 .. Len(t)
      PROVE  /\ Whole(as, t[i].atom) /\ t[i].atom = t[j].atom => i = j
             /\ Whole(as, t[i].key) /\ t[i].key = t[j].key => i = j
             /\ Whole(as, t[i].atom) => t[i].atom # t[j].key
  <2>1. CASE i = 1 /\ j = 1
        BY <2>1
  <2>2. CASE i = 1 /\ j \in 2 .. Len(s)
        BY <1>3, <2>2
  <2>3. CASE i \in 2 .. Len(s) /\ j = 1
        BY <1>3, <2>3
  <2>4. CASE i \in 2 .. Len(s) /\ j \in 2 .. Len(s)
    <3>1. i \in 1 .. Len(s) /\ j \in 1 .. Len(s) /\ t[i] = s[i] /\ t[j] = s[j]
          BY <1>2, <2>4
    <3> QED BY <3>1 DEF Apart
  <2> QED BY <1>2, <2>1, <2>2, <2>3, <2>4
<1>5. Apart(as, t, 0)
      BY <1>1, <1>4 DEF Apart
<1>6. ASSUME NEW a, HeldIn(t, 0, a)
      PROVE  HeldIn(s, r, a) \/ a \in {t[1].atom, 0}
  <2>1. CASE \E j \in 2 .. Len(s) : a \in {t[j].atom, t[j].key}
    <3>1. PICK j \in 1 .. Len(s) : a \in {s[j].atom, s[j].key}
          BY <2>1
    <3> QED BY <3>1 DEF HeldIn
  <2>2. CASE a \in {t[1].atom, t[1].key, 0}
        BY <2>2 DEF HeldIn
  <2> QED BY <1>2, <1>6, <2>1, <2>2 DEF HeldIn
<1>7. ASSUME r # t[1].atom, r # t[1].key, Whole(as, r)
      PROVE  ~HeldIn(t, 0, r)
  <2>1. ASSUME NEW j \in 1 .. Len(t) PROVE r # t[j].atom /\ r # t[j].key
    <3>1. CASE j \in 2 .. Len(s)
          BY <1>2, <1>7, <3>1 DEF Apart
    <3> QED BY <1>2, <1>7, <3>1
  <2>2. r # 0
        BY <1>7 DEF Whole
  <2> QED BY <2>1, <2>2 DEF HeldIn
<1> QED BY <1>5, <1>6, <1>7

LEMMA ApartPopped ==
    ASSUME NEW as, NEW s \in Seq(Frame), s # << >>, NEW r, Apart(as, s, r),
           NEW t, t = Tail(s)
    PROVE  /\ Apart(as, t, s[1].atom)
           /\ \A a : HeldIn(t, s[1].atom, a) => HeldIn(s, r, a)
<1>1. /\ t \in Seq(Frame) /\ Len(t) = Len(s) - 1 /\ Len(s) \in Nat
      /\ \A i \in 1 .. Len(t) : i + 1 \in 2 .. Len(s) /\ t[i] = s[i + 1]
      BY PopFrame
<1>2. \A i \in 2 .. Len(s) : i \in 1 .. Len(s) /\ i # 1
      BY <1>1
<1>3. 1 \in 1 .. Len(s)
      BY TopFrame
<1>4. ASSUME NEW i \in 1 .. Len(t), NEW j \in 1 .. Len(t)
      PROVE  /\ Whole(as, t[i].atom) /\ t[i].atom = t[j].atom => i = j
             /\ Whole(as, t[i].key) /\ t[i].key = t[j].key => i = j
             /\ Whole(as, t[i].atom) => t[i].atom # t[j].key
             /\ Whole(as, s[1].atom) => s[1].atom # t[j].atom /\ s[1].atom # t[j].key
  <2>1. /\ i + 1 \in 1 .. Len(s) /\ j + 1 \in 1 .. Len(s) /\ 1 # j + 1
        /\ t[i] = s[i + 1] /\ t[j] = s[j + 1]
        BY <1>1, <1>2
  <2>2. i + 1 = j + 1 => i = j
        OBVIOUS
  <2> QED BY <1>3, <2>1, <2>2 DEF Apart
<1>5. Apart(as, t, s[1].atom)
      BY <1>4 DEF Apart
<1>6. ASSUME NEW a, HeldIn(t, s[1].atom, a) PROVE HeldIn(s, r, a)
      BY <1>1, <1>2, <1>3, <1>6 DEF HeldIn
<1> QED BY <1>5, <1>6

-----------------------------------------------------------------------------
(* The tuples after a step *)

LEMMA TupleOf ==
    ASSUME NEW i \in 1 .. Len(relations), NEW j \in 1 .. Len(relations[i].tuples)
    PROVE  relations[i].tuples[j] \in Tuples
<1> DEFINE T(k) == {relations[k].tuples[l] : l \in 1 .. Len(relations[k].tuples)}
<1>1. relations[i].tuples[j] \in T(i)
      OBVIOUS
<1>2. Tuples = UNION {T(k) : k \in 1 .. Len(relations)}
      BY DEF Tuples
<1> HIDE DEF T
<1> QED BY <1>1, <1>2

LEMMA TuplesPushed ==
    ASSUME TypeInv, NEW name, NEW ids, NEW types, Pushed(name, ids, types),
           NEW tuple, tuple = [atoms |-> ids, types |-> types]
    PROVE  Tuples' \subseteq Tuples \cup {tuple}
<1>1. relations \in Seq(Record)
      BY DEF TypeInv, TypeOK
<1>2. tuple \in Tuple /\ tuple.types = types /\ types # << >> /\ name \in Names
  <2>1. tuple \in Tuple /\ tuple.types = types /\ types \in Seq(Names)
    <3>1. tuple \in Tuple /\ tuple.types = types
          BY <1>1, PushFacts
    <3> QED BY <3>1 DEF Pushed
  <2> QED BY <2>1 DEF Pushed
<1>3. ASSUME NEW tu \in Tuples' PROVE tu \in Tuples \cup {tuple}
  <2>1. PICK i \in 1 .. Len(relations') :
            \E j \in 1 .. Len(relations'[i].tuples) : tu = relations'[i].tuples[j]
        BY DEF Tuples
  <2>2. PICK j \in 1 .. Len(relations'[i].tuples) : tu = relations'[i].tuples[j]
        BY <2>1
  <2>3. CASE i \in 1 .. Len(relations) /\ relations'[i] = relations[i]
        BY <2>2, <2>3 DEF Tuples
  <2>4. CASE relations'[i] = New(name, tuple)
    <3>1. New(name, tuple).tuples = <<tuple>>
          BY <1>2, NewRecord
    <3>2. relations'[i].tuples = <<tuple>>
          BY <2>4, <3>1
    <3>3. j = 1
          BY <2>2, <3>2
    <3> QED BY <2>2, <3>2, <3>3
  <2>5. CASE i \in 1 .. Len(relations) /\ relations'[i] = Extended(relations[i], tuple)
    <3>1. PICK record \in Record : record = relations[i]
          BY <1>1, <2>5, ElementOfSeq
    <3>2. relations'[i].tuples = Append(record.tuples, tuple) /\ record.tuples \in Seq(Tuple)
      <4>1. record.tuples \in Seq(Tuple)
            BY RecordType
      <4>2. Extended(record, tuple).tuples = Append(record.tuples, tuple)
            BY <1>2, ExtendedRecord
      <4> QED BY <2>5, <3>1, <4>1, <4>2
    <3>3. /\ Len(relations'[i].tuples) = Len(record.tuples) + 1
          /\ Len(record.tuples) \in Nat
          /\ \A k \in 1 .. Len(record.tuples) : relations'[i].tuples[k] = record.tuples[k]
          /\ relations'[i].tuples[Len(record.tuples) + 1] = tuple
          BY <1>2, <3>2, AppendProperties, LenProperties
    <3>4. CASE j \in 1 .. Len(record.tuples)
      <4>1. tu = relations[i].tuples[j] /\ j \in 1 .. Len(relations[i].tuples)
            BY <2>2, <3>1, <3>3, <3>4
      <4> QED BY <2>5, <4>1, TupleOf
    <3>5. CASE j = Len(record.tuples) + 1
          BY <2>2, <3>3, <3>5
    <3>6. j \in 1 .. Len(record.tuples) + 1
          BY <2>2, <3>3
    <3> QED BY <3>3, <3>4, <3>5, <3>6
  <2>6. \/ i \in 1 .. Len(relations) /\ relations'[i] = relations[i]
        \/ relations'[i] = New(name, tuple)
        \/ i \in 1 .. Len(relations) /\ relations'[i] = Extended(relations[i], tuple)
    <3>1. CASE /\ Len(relations') = Len(relations) + 1
               /\ \A k \in 1 .. Len(relations) : relations'[k] = relations[k]
               /\ relations'[Len(relations) + 1] = New(name, tuple)
      <4>1. i \in 1 .. Len(relations) \/ i = Len(relations) + 1
            BY <1>1, <3>1, LenProperties, IntervalLast
      <4> QED BY <3>1, <4>1
    <3>2. CASE /\ Len(relations') = Len(relations)
               /\ \A k \in 1 .. Len(relations) :
                     relations'[k] = IF Matches(relations[k], name, types)
                                     THEN Extended(relations[k], tuple)
                                     ELSE relations[k]
          BY <3>2
    <3> QED BY <1>1, <3>1, <3>2, PushFacts
  <2> QED BY <2>3, <2>4, <2>5, <2>6
<1> QED BY <1>3

LEMMA TuplesFinished ==
    ASSUME TypeInv, Finish
    PROVE  Tuples' \subseteq Tuples
<1>1. relations \in Seq(Record)
      BY DEF TypeInv, TypeOK
<1>2. /\ Len(relations') = Len(relations)
      /\ \A i \in 1 .. Len(relations) : relations'[i] = Finalized(relations[i])
      BY <1>1, FinalizeFacts
<1>3. ASSUME NEW tu \in Tuples' PROVE tu \in Tuples
  <2>1. PICK i \in 1 .. Len(relations) :
            \E j \in 1 .. Len(relations'[i].tuples) : tu = relations'[i].tuples[j]
        BY <1>2 DEF Tuples
  <2>2. PICK j \in 1 .. Len(relations'[i].tuples) : tu = relations'[i].tuples[j]
        BY <2>1
  <2>3. PICK record \in Record : record = relations[i]
        BY <1>1, ElementOfSeq
  <2> DEFINE long == OfLength(record.tuples, 3)
             short == OfLength(record.tuples, 2)
  <2>4. /\ relations'[i].tuples = long \o short /\ record.tuples \in Seq(Tuple)
        /\ long \in Seq(Tuple) /\ short \in Seq(Tuple)
        /\ Range(long) \subseteq Range(record.tuples)
        /\ Range(short) \subseteq Range(record.tuples)
    <3>1. record.tuples \in Seq(Tuple) /\ relations'[i] = Finalized(record)
          BY <1>2, <2>3, RecordType
    <3>2. Finalized(record).tuples = long \o short
          BY FinalizedRecord
    <3>3. /\ long \in Seq(Tuple) /\ short \in Seq(Tuple)
          /\ Range(long) = {tw \in Range(record.tuples) : Len(tw.atoms) = 3}
          /\ Range(short) = {tw \in Range(record.tuples) : Len(tw.atoms) = 2}
          BY <3>1, OfLengthFacts
    <3> HIDE DEF long, short
    <3> QED BY <3>1, <3>2, <3>3
  <2> HIDE DEF long, short
  <2>5. long \o short \in Seq(Tuple) /\ Range(long \o short) = Range(long) \cup Range(short)
        BY <2>4, ConcatProperties, RangeConcatenation
  <2>6. tu \in Range(long \o short)
        BY <2>2, <2>4, <2>5, RangeEquality
  <2>7. PICK k \in 1 .. Len(record.tuples) : tu = record.tuples[k]
    <3>1. tu \in Range(record.tuples)
          BY <2>4, <2>5, <2>6
    <3>2. Range(record.tuples) = {record.tuples[k] : k \in 1 .. Len(record.tuples)}
          BY <2>4, RangeEquality
    <3> QED BY <3>1, <3>2
  <2>8. tu = relations[i].tuples[k] /\ k \in 1 .. Len(relations[i].tuples)
        BY <2>3, <2>7
  <2> QED BY <2>8, TupleOf
<1> QED BY <1>3

-----------------------------------------------------------------------------
(* The actions *)

LEMMA PartFacts ==
    ASSUME PartInv
    PROVE  /\ ShareInv /\ TypeInv /\ TypeOK /\ Apart(atoms, stack, returned)
           /\ stack \in Seq(Frame) /\ atoms \in Seq(Form)
           /\ ~HeldIn(stack, returned, NewId) /\ NewId \notin Ids /\ 0 \notin Ids
           /\ NewId # 0
<1>1. /\ ShareInv /\ TypeInv /\ TypeOK /\ Apart(atoms, stack, returned)
      /\ stack \in Seq(Frame) /\ atoms \in Seq(Form) /\ returned \in Ids \cup {0}
      BY DEF PartInv, ShareInv, TypeInv, TypeOK
<1>2. NewId \notin Ids /\ 0 \notin Ids /\ NewId # 0
      BY <1>1, IdFacts
<1>3. ~HeldIn(stack, returned, NewId)
      BY <1>1, <1>2, StackFacts DEF HeldIn, Stacked
<1> QED BY <1>1, <1>2, <1>3

LEMMA ValuePart ==
    ASSUME PartInv, ShareInv', NEW t \in Types, NEW f \in Forms[t], SerializeValue(t, f)
    PROVE  PartInv'
<1>1. PICK id : ValueAtom(f, id) /\ returned' = id
      BY DEF SerializeValue
<1>2. AtomsKept /\ id \in Ids' /\ id \in interned'
      BY <1>1, PartFacts, FormFacts, ValueFacts
<1>3. ~Whole(atoms', id)
      BY <1>2 DEF ShareInv, Interning, Whole
<1>4. stack' = stack /\ Tuples' = Tuples
      BY DEF SerializeValue, Tuples
<1>5. Apart(atoms', stack', returned')
      BY <1>1, <1>2, <1>3, <1>4, ApartKept, ApartReturned
<1>6. \A a : HeldIn(stack', returned', a) /\ Whole(atoms', a)
                => HeldIn(stack, returned, a)
      BY <1>1, <1>3, <1>4 DEF HeldIn
<1> QED BY <1>2, <1>4, <1>5, <1>6, PartsStay

LEMMA NaNPart ==
    ASSUME PartInv, ShareInv', NEW t \in Types, NEW f \in Forms[t], SerializeNaN(t, f)
    PROVE  PartInv'
<1>1. AtomsKept
      BY PartFacts, FormFacts, EmitFacts DEF SerializeNaN
<1>2. stack' = stack /\ Tuples' = Tuples /\ returned' = NewId
      BY DEF SerializeNaN, Tuples
<1>3. Apart(atoms', stack', returned')
      BY <1>1, <1>2, PartFacts, ApartKept, ApartReturned
<1>4. \A a \in Ids : HeldIn(stack', returned', a) /\ Whole(atoms', a)
                        => HeldIn(stack, returned, a)
      BY <1>2, PartFacts DEF HeldIn
<1> QED BY <1>1, <1>2, <1>3, <1>4, PartsStay

LEMMA BeginPart ==
    ASSUME PartInv, ShareInv', AtomsKept, NEW f \in Form,
           NEW atom \in {0, NewId}, atom \in Nat, Begin(f, atom),
           UNCHANGED relations
    PROVE  PartInv'
<1> DEFINE c == [form |-> f, atom |-> atom, key |-> 0, count |-> 0]
<1>1. /\ stack' = <<c>> \o stack /\ returned' = returned
      /\ c \in Frame /\ c.key = 0 /\ c.atom = atom
      BY DEF Begin, Frame
<1>2. Tuples' = Tuples
      BY DEF Tuples
<1>3. Whole(atoms', atom) => ~HeldIn(stack, returned, atom)
      BY PartFacts DEF Whole
<1> HIDE DEF c
<1>4. Apart(atoms', stack, returned) /\ stack \in Seq(Frame)
      BY PartFacts, ApartKept
<1>5. /\ Apart(atoms', stack', returned')
      /\ \A a : HeldIn(stack', returned', a)
                   => HeldIn(stack, returned, a) \/ a \in {atom, 0}
      BY <1>1, <1>3, <1>4, ApartPushed
<1> QED BY <1>2, <1>5, PartFacts, PartsStay

LEMMA ResumeFacts ==
    ASSUME PartInv, AtomsKept, NEW shapes, Received(shapes),
           NEW atom \in Nat, NEW key \in Nat, Resume(atom, key),
           key \in {0, returned}, key # atom \/ ~Whole(atoms', atom),
           atom \in {stack[1].atom, returned, NewId}
    PROVE  /\ Apart(atoms', stack', returned') /\ returned' = 0
           /\ \A a \in Ids : HeldIn(stack', returned', a)
                                => HeldIn(stack, returned, a)
           /\ stack'[1].atom = atom /\ stack'[1].key = key /\ Len(stack') = Len(stack)
           /\ \A i \in 2 .. Len(stack) : stack'[i] = stack[i]
           /\ HeldIn(stack, returned, returned)
           /\ returned # atom /\ returned # key /\ Whole(atoms', returned)
                 => ~HeldIn(stack', returned', returned)
<1>1. stack # << >> /\ 1 \in 1 .. Len(stack)
      BY PartFacts, TopFacts DEF Stacked
<1>2. /\ stack' \in Seq(Frame) /\ Len(stack') = Len(stack)
      /\ stack'[1].atom = atom /\ stack'[1].key = key
      /\ \A i \in 2 .. Len(stack) : stack'[i] = stack[i]
      /\ returned' = 0
      BY <1>1, PartFacts, ResumedFrame DEF Resume
<1>3. Apart(atoms', stack, returned)
      BY ApartKept
<1>4. \/ stack'[1].atom \in {stack[1].atom, returned}
      \/ Whole(atoms', stack'[1].atom) => ~HeldIn(stack, returned, stack'[1].atom)
      BY <1>2, PartFacts
<1>5. /\ Apart(atoms', stack', 0)
      /\ \A a : HeldIn(stack', 0, a)
                   => HeldIn(stack, returned, a) \/ a \in {stack'[1].atom, 0}
      /\ returned # stack'[1].atom /\ returned # stack'[1].key /\ Whole(atoms', returned)
            => ~HeldIn(stack', 0, returned)
      BY <1>1, <1>2, <1>3, <1>4, PartFacts, ApartResumed
<1>6. \A a \in Ids : a = atom => HeldIn(stack, returned, a)
      BY <1>1, PartFacts DEF HeldIn
<1>7. HeldIn(stack, returned, returned)
      BY DEF HeldIn
<1> QED BY <1>1, <1>2, <1>5, <1>6, <1>7, PartFacts

LEMMA FieldPart == ASSUME PartInv, ShareInv', AttachField PROVE PartInv'
<1>1. PICK tuple : tuple = [atoms |-> <<Top.atom, returned>>,
                            types |-> <<Top.form.type, "atom">>]
      OBVIOUS
<1>2. AtomsKept /\ Received(Named) /\ Resume(Top.atom, 0)
      BY PartFacts, SameAtoms DEF AttachField
<1>3. Tuples' \subseteq Tuples \cup {tuple}
      BY <1>1, PartFacts, FieldPush, TuplesPushed
<1>4. Top.atom \in Nat /\ returned \in Ids /\ Top = stack[1] /\ 1 \in 1 .. Len(stack)
      BY <1>2, PartFacts, TopFacts DEF Stacked
<1>5. 0 # Top.atom \/ ~Whole(atoms', Top.atom)
      BY DEF Whole
<1>6. /\ Apart(atoms', stack', returned')
      /\ \A a \in Ids : HeldIn(stack', returned', a) => HeldIn(stack, returned, a)
      /\ HeldIn(stack, returned, returned)
      /\ returned # Top.atom /\ returned # 0 /\ Whole(atoms', returned)
            => ~HeldIn(stack', returned', returned)
      BY <1>2, <1>4, <1>5, ResumeFacts
<1>7. Whole(atoms', returned) => returned # Top.atom
      BY <1>2, <1>4, ApartKept DEF Apart
<1>8. tuple.atoms = <<Top.atom, returned>> /\ 2 .. Len(tuple.atoms) = {2}
      BY <1>1
<1>9. tuple.atoms[2] = returned /\ returned \in Ids' /\ returned # 0
      BY <1>2, <1>4, <1>8, PartFacts DEF AtomsKept
<1> HIDE DEF Top
<1> QED BY <1>2, <1>3, <1>4, <1>6, <1>7, <1>8, <1>9, PartsAdded

LEMMA ElementPart == ASSUME PartInv, ShareInv', AttachElement PROVE PartInv'
<1>1. PICK index \in Ids \cup {NewId} :
          /\ ValueAtom(Position(Top.count), index)
          /\ PushRelation("idx", <<Top.atom, index, returned>>,
                          <<Top.form.type, "u64", "atom">>)
      BY DEF AttachElement
<1>2. PICK tuple : tuple = [atoms |-> <<Top.atom, index, returned>>,
                            types |-> <<Top.form.type, "u64", "atom">>]
      OBVIOUS
<1>3. /\ Received(Positional) /\ Resume(Top.atom, 0)
      /\ Top.atom \in Nat /\ returned \in Ids /\ Top = stack[1] /\ 1 \in 1 .. Len(stack)
      /\ Position(Top.count) \in Form
  <2>1. Received(Positional) /\ Resume(Top.atom, 0) /\ Top.form.shape \in Positional
        BY DEF AttachElement, Received
  <2> QED BY <2>1, PartFacts, TopFacts DEF Stacked
<1>4. AtomsKept /\ index \in Ids' /\ index \in interned'
      BY <1>1, <1>3, PartFacts, ValueFacts
<1>5. ~Whole(atoms', index)
      BY <1>4 DEF ShareInv, Interning, Whole
<1>6. index \in Nat
      BY PartFacts, IdFacts
<1>7. Tuples' \subseteq Tuples \cup {tuple}
      BY <1>1, <1>2, <1>3, <1>6, PartFacts, ElementPush, TuplesPushed
<1>8. 0 # Top.atom \/ ~Whole(atoms', Top.atom)
      BY DEF Whole
<1>9. /\ Apart(atoms', stack', returned')
      /\ \A a \in Ids : HeldIn(stack', returned', a) => HeldIn(stack, returned, a)
      /\ HeldIn(stack, returned, returned)
      /\ returned # Top.atom /\ returned # 0 /\ Whole(atoms', returned)
            => ~HeldIn(stack', returned', returned)
      BY <1>3, <1>4, <1>8, ResumeFacts
<1>10. Whole(atoms', returned) => returned # Top.atom
      BY <1>3, <1>4, ApartKept DEF Apart
<1>11. tuple.atoms = <<Top.atom, index, returned>> /\ 2 .. Len(tuple.atoms) = {2, 3}
      BY <1>2
<1>12. /\ tuple.atoms[2] = index /\ tuple.atoms[3] = returned
       /\ returned \in Ids' /\ returned # 0
      BY <1>3, <1>4, <1>11, PartFacts DEF AtomsKept
<1> HIDE DEF Top
<1> QED BY <1>3, <1>4, <1>5, <1>7, <1>9, <1>10, <1>11, <1>12, PartsAdded

LEMMA KeyPart == ASSUME PartInv, ShareInv', AttachKey PROVE PartInv'
<1>1. /\ AtomsKept /\ Received({"map"}) /\ Resume(Top.atom, returned)
      /\ Tuples' = Tuples
      BY PartFacts, SameAtoms DEF AttachKey, Tuples
<1>2. /\ Top.atom \in Nat /\ returned \in Ids /\ returned \in Nat
      /\ Top = stack[1] /\ 1 \in 1 .. Len(stack)
      BY <1>1, PartFacts, TopFacts DEF Stacked
<1>3. returned # Top.atom \/ ~Whole(atoms', Top.atom)
      BY <1>1, <1>2, ApartKept DEF Apart
<1>4. /\ Apart(atoms', stack', returned')
      /\ \A a \in Ids : HeldIn(stack', returned', a) => HeldIn(stack, returned, a)
      BY <1>1, <1>2, <1>3, ResumeFacts
<1> QED BY <1>1, <1>4, PartsStay

LEMMA EntryPart == ASSUME PartInv, ShareInv', AttachEntry PROVE PartInv'
<1>1. PICK tuple : tuple = [atoms |-> <<Top.atom, Top.key, returned>>,
                            types |-> <<"map", "atom", "atom">>]
      OBVIOUS
<1>2. AtomsKept /\ Received({"map"}) /\ Resume(Top.atom, 0) /\ Top.key # 0
      BY PartFacts, SameAtoms DEF AttachEntry
<1>3. Tuples' \subseteq Tuples \cup {tuple}
  <2>1. Pushed("map_entry", <<Top.atom, Top.key, returned>>, <<"map", "atom", "atom">>)
        BY PartFacts, EntryPush
  <2>2. PICK ids, types :
            /\ ids = <<Top.atom, Top.key, returned>> /\ types = <<"map", "atom", "atom">>
        OBVIOUS
  <2>3. Pushed("map_entry", ids, types) /\ tuple = [atoms |-> ids, types |-> types]
        BY <1>1, <2>1, <2>2
  <2> QED BY <2>3, PartFacts, TuplesPushed
<1>4. /\ Top.atom \in Nat /\ returned \in Ids /\ Top.key \in Ids
      /\ Top = stack[1] /\ 1 \in 1 .. Len(stack)
      BY <1>2, PartFacts, TopFacts DEF Stacked
<1>5. 0 # Top.atom \/ ~Whole(atoms', Top.atom)
      BY DEF Whole
<1>6. /\ Apart(atoms', stack', returned') /\ returned' = 0
      /\ \A a \in Ids : HeldIn(stack', returned', a) => HeldIn(stack, returned, a)
      /\ stack'[1].atom = Top.atom /\ stack'[1].key = 0 /\ Len(stack') = Len(stack)
      /\ \A i \in 2 .. Len(stack) : stack'[i] = stack[i]
      /\ HeldIn(stack, returned, returned)
      /\ returned # Top.atom /\ returned # 0 /\ Whole(atoms', returned)
            => ~HeldIn(stack', returned', returned)
      BY <1>2, <1>4, <1>5, ResumeFacts
<1>7. Whole(atoms', returned) => returned # Top.atom /\ returned # Top.key
      BY <1>2, <1>4, ApartKept DEF Apart
<1>8. HeldIn(stack, returned, Top.key)
      BY <1>4 DEF HeldIn
<1>9. ASSUME Whole(atoms', Top.key) PROVE ~HeldIn(stack', returned', Top.key)
  <2>1. Apart(atoms', stack, returned)
        BY <1>2, ApartKept
  <2>2. ASSUME NEW j \in 1 .. Len(stack)
        PROVE  Top.key # stack'[j].atom /\ Top.key # stack'[j].key
    <3>1. CASE j = 1
      <4>1. Top.key # Top.atom
            BY <1>4, <1>9, <2>1 DEF Apart
      <4> QED BY <1>2, <1>6, <3>1, <4>1
    <3>2. CASE j # 1
      <4>1. j \in 2 .. Len(stack) /\ stack'[j] = stack[j]
            BY <1>6, <3>2
      <4>2. Top.key # stack[j].atom
            BY <1>4, <1>9, <2>1 DEF Apart
      <4>3. Top.key # stack[j].key
            BY <1>4, <1>9, <2>1, <3>2 DEF Apart
      <4> QED BY <4>1, <4>2, <4>3
    <3> QED BY <3>1, <3>2
  <2> QED BY <1>2, <1>6, <2>2 DEF HeldIn
<1>10. tuple.atoms = <<Top.atom, Top.key, returned>> /\ 2 .. Len(tuple.atoms) = {2, 3}
      BY <1>1
<1>11. /\ tuple.atoms[2] = Top.key /\ tuple.atoms[3] = returned
       /\ returned \in Ids' /\ returned # 0 /\ Top.key \in Ids'
      BY <1>2, <1>4, <1>10, PartFacts DEF AtomsKept
<1> HIDE DEF Top
<1>12. \A n \in 2 .. Len(tuple.atoms) :
          /\ tuple.atoms[n] \in Ids'
          /\ Whole(atoms', tuple.atoms[n]) =>
                /\ tuple.atoms[n] \in Ids
                /\ HeldIn(stack, returned, tuple.atoms[n])
                /\ ~HeldIn(stack', returned', tuple.atoms[n])
      BY <1>4, <1>6, <1>7, <1>8, <1>9, <1>10, <1>11
<1>13. \A m, n \in 2 .. Len(tuple.atoms) :
          tuple.atoms[m] = tuple.atoms[n] /\ Whole(atoms', tuple.atoms[m]) => m = n
      BY <1>7, <1>10, <1>11
<1> QED BY <1>2, <1>3, <1>6, <1>12, <1>13, PartsAdded

LEMMA SomePart == ASSUME PartInv, ShareInv', AttachSome PROVE PartInv'
<1>1. Received({"some"})
      BY DEF AttachSome
<1>2. returned \in Ids /\ returned \in Nat /\ Top.form \in Form /\ returned # 0
      BY <1>1, PartFacts, TopFacts
<1>3. CASE atoms[returned].type \in {"None", "Some"}
  <2>1. PICK tuple : tuple = [atoms |-> <<NewId, returned>>,
                              types |-> <<"Some", "atom">>]
        OBVIOUS
  <2>2. Resume(NewId, 0) /\ EmitAtom(Top.form)
        BY <1>3 DEF AttachSome
  <2>3. AtomsKept
        BY <1>2, <2>2, PartFacts, EmitFacts
  <2>4. Tuples' \subseteq Tuples \cup {tuple}
    <3>1. Pushed("value", <<NewId, returned>>, <<"Some", "atom">>)
          BY <1>3, PartFacts, WrapperPush
    <3>2. PICK ids, types : ids = <<NewId, returned>> /\ types = <<"Some", "atom">>
          OBVIOUS
    <3>3. Pushed("value", ids, types) /\ tuple = [atoms |-> ids, types |-> types]
          BY <2>1, <3>1, <3>2
    <3> QED BY <3>3, PartFacts, TuplesPushed
  <2>5. NewId \in Nat /\ 0 # NewId /\ returned # NewId
        BY <1>2, PartFacts, IdFacts
  <2>6. /\ Apart(atoms', stack', returned')
        /\ \A a \in Ids : HeldIn(stack', returned', a) => HeldIn(stack, returned, a)
        /\ HeldIn(stack, returned, returned)
        /\ returned # NewId /\ returned # 0 /\ Whole(atoms', returned)
              => ~HeldIn(stack', returned', returned)
        BY <1>1, <2>2, <2>3, <2>5, ResumeFacts
  <2>7. tuple.atoms = <<NewId, returned>> /\ 2 .. Len(tuple.atoms) = {2}
        BY <2>1
  <2>8. tuple.atoms[2] = returned /\ returned \in Ids'
        BY <1>2, <2>3, <2>7 DEF AtomsKept
  <2> QED BY <1>2, <2>3, <2>4, <2>5, <2>6, <2>7, <2>8, PartsAdded
<1>4. CASE atoms[returned].type \notin {"None", "Some"}
  <2>1. Resume(returned, 0) /\ UNCHANGED <<atoms, relations, interned>>
        BY <1>4 DEF AttachSome
  <2>2. AtomsKept /\ Tuples' = Tuples
        BY <2>1, PartFacts, SameAtoms DEF Tuples
  <2>3. /\ Apart(atoms', stack', returned')
        /\ \A a \in Ids : HeldIn(stack', returned', a) => HeldIn(stack, returned, a)
        BY <1>1, <1>2, <2>1, <2>2, ResumeFacts
  <2> QED BY <2>2, <2>3, PartsStay
<1> QED BY <1>3, <1>4

LEMMA EndPart == ASSUME PartInv, ShareInv', EndComposite PROVE PartInv'
<1>1. /\ stack # << >> /\ stack' = Tail(stack) /\ returned' = stack[1].atom
      /\ UNCHANGED <<atoms, interned, relations>>
      BY DEF EndComposite, Top
<1>2. AtomsKept /\ Tuples' = Tuples
      BY <1>1, PartFacts, SameAtoms DEF Tuples
<1>3. Apart(atoms', stack, returned) /\ stack \in Seq(Frame)
      BY <1>2, PartFacts, ApartKept
<1>4. /\ Apart(atoms', stack', returned')
      /\ \A a : HeldIn(stack', returned', a) => HeldIn(stack, returned, a)
      BY <1>1, <1>3, ApartPopped
<1> QED BY <1>2, <1>4, PartsStay

LEMMA FinishPart == ASSUME PartInv, ShareInv', Finish PROVE PartInv'
<1>1. AtomsKept /\ stack' = stack /\ returned' = returned
      BY PartFacts, SameAtoms DEF Finish
<1>2. Tuples' \subseteq Tuples
      BY PartFacts, TuplesFinished
<1> QED BY <1>1, <1>2, ApartKept, PartsStay

LEMMA FailPart == ASSUME PartInv, ShareInv', Fail PROVE PartInv'
<1>1. Tuples' = {} /\ 1 .. Len(stack') = {} /\ returned' = 0
      BY DEF Fail, Tuples
<1>2. Apart(atoms', stack', returned')
      BY <1>1 DEF Apart
<1> QED BY <1>1, <1>2 DEF PartInv, PartsFree, Once

LEMMA PartStep == PartInv /\ [Next]_vars => PartInv'
<1> SUFFICES ASSUME PartInv, [Next]_vars PROVE PartInv'
    OBVIOUS
<1>1. ShareInv'
      BY PartFacts, ShareStep
<1>2. ASSUME NEW t \in Types, NEW f \in Forms[t],
             \/ SerializeValue(t, f) \/ SerializeNaN(t, f)
             \/ SerializeSome(t, f) \/ SerializeComposite(t, f)
      PROVE  PartInv'
  <2>1. f \in Form
        BY FormFacts
  <2>2. CASE SerializeSome(t, f)
    <3>1. AtomsKept /\ Begin(f, 0) /\ UNCHANGED relations
          BY <2>2, PartFacts, SameAtoms DEF SerializeSome
    <3>2. 0 \in {0, NewId} /\ 0 \in Nat
          OBVIOUS
    <3> QED BY <1>1, <2>1, <3>1, <3>2, BeginPart
  <2>3. CASE SerializeComposite(t, f)
    <3>1. AtomsKept /\ Begin(f, NewId) /\ UNCHANGED relations
          BY <2>1, <2>3, PartFacts, EmitFacts DEF SerializeComposite
    <3>2. NewId \in {0, NewId} /\ NewId \in Nat
          BY PartFacts, IdFacts
    <3> QED BY <1>1, <2>1, <3>1, <3>2, BeginPart
  <2> QED BY <1>1, <1>2, <2>2, <2>3, ValuePart, NaNPart
<1>3. CASE UNCHANGED vars
  <2>1. /\ atoms' = atoms /\ stack' = stack /\ returned' = returned
        /\ Tuples' = Tuples
        BY <1>3 DEF vars, Tuples
  <2> QED BY <1>1, <2>1 DEF PartInv
<1> QED
    BY <1>1, <1>2, <1>3, FieldPart, ElementPart, KeyPart, EntryPart, SomePart,
       EndPart, FinishPart, FailPart
    DEF Next

(* No atom but a value's is the part of two composites, or twice of one. *)
THEOREM PartsOfOne == Spec => []PartOfOne
<1>1. PartInv => PartOfOne
  <2> SUFFICES ASSUME PartInv PROVE PartOfOne
      OBVIOUS
  <2>1. \A tu \in Tuples : \A n \in 2 .. Len(tu.atoms) : tu.atoms[n] # 0
        BY PartFacts, WholeKept DEF PartInv, PartsFree, Ids
  <2> QED BY <2>1 DEF PartInv, Once, PartOfOne, Whole
<1> QED BY <1>1, PartInit, PartStep, PTL DEF Spec

=============================================================================
