---------------------------- MODULE BuffersProofs ----------------------------
(***************************************************************************)
(* Ownership of the pooled buffers and what is in them, for every number   *)
(* of buffers, indexers and messages, with or without a producer, at every *)
(* log level.  First what the operators on sequences compute, by induction *)
(* with the property as a set; then the inductive invariant, in which each *)
(* buffer of a message or of a batch holds a sequence of whole messages.   *)
(***************************************************************************)
EXTENDS Buffers, WellFoundedInduction, SequenceTheorems, FiniteSetTheorems, TLAPS

-----------------------------------------------------------------------------
(* Sequences                                                               *)

\* Induction, with the property as a set of numbers.
LEMMA SetInduction ==
  ASSUME NEW S, 0 \in S, \A n \in Nat : n \in S => n + 1 \in S
  PROVE  \A n \in Nat : n \in S
<1> SUFFICES ASSUME Nat \ S # {} PROVE FALSE
  OBVIOUS
<1> DEFINE R == OpToRel(<, Nat)
<1>1. IsWellFoundedOn(R, Nat)
  BY NatLessThanWellFounded, Zenon
<1>2. \A y, x \in Nat : y < x => <<y, x>> \in R
  BY DEF OpToRel
<1> HIDE DEF R
<1>3. PICK x \in Nat \ S : \A y \in Nat \ S : ~ (<<y, x>> \in R)
  BY <1>1, WFMin, Zenon
<1>4. x - 1 \in Nat /\ x - 1 < x /\ (x - 1) + 1 = x
  OBVIOUS
<1>5. x - 1 \in S
  BY <1>2, <1>3, <1>4
<1> QED
  BY <1>4, <1>5

\* The equation of the function in FlattenSeq, whose value at i flattens the first i.
Flattens(f, n, ss) == f = [i \in 1 .. n |-> IF i = 1 THEN ss[i] ELSE f[i - 1] \o ss[i]]

\* The equation at one index.
LEMMA FlattensAt ==
  ASSUME NEW f, NEW n \in Nat, NEW ss, Flattens(f, n, ss), NEW i \in 1 .. n
  PROVE  f[i] = IF i = 1 THEN ss[i] ELSE f[i - 1] \o ss[i]
<1> DEFINE g == [j \in 1 .. n |-> IF j = 1 THEN ss[j] ELSE f[j - 1] \o ss[j]]
<1>1. f = g
  BY DEF Flattens
<1>2. g[i] = IF i = 1 THEN ss[i] ELSE f[i - 1] \o ss[i]
  OBVIOUS
<1> HIDE DEF g
<1> QED
  BY <1>1, <1>2

\* It has a solution, so that CHOOSE picks one.
LEMMA FlattensExists ==
  ASSUME NEW ss
  PROVE  \A n \in Nat : \E f : Flattens(f, n, ss)
<1> DEFINE S == {n \in Nat : \E f : Flattens(f, n, ss)}
<1>1. 0 \in S
  <2>1. Flattens([i \in {} |-> 0], 0, ss)
    BY DEF Flattens
  <2> QED
    BY <2>1
<1>2. ASSUME NEW n \in Nat, n \in S PROVE n + 1 \in S
  <2>1. PICK f : Flattens(f, n, ss)
    BY <1>2
  <2> DEFINE last == IF n = 0 THEN ss[1] ELSE f[n] \o ss[n + 1]
             g == [i \in 1 .. n + 1 |-> IF i <= n THEN f[i] ELSE last]
  <2>2. ASSUME NEW i \in 1 .. n + 1 PROVE g[i] = IF i = 1 THEN ss[i] ELSE g[i - 1] \o ss[i]
    <3>1. CASE i <= n
      <4>1. f[i] = IF i = 1 THEN ss[i] ELSE f[i - 1] \o ss[i]
        BY <2>1, <3>1, FlattensAt
      <4>2. i # 1 => i - 1 \in 1 .. n + 1 /\ i - 1 <= n
        OBVIOUS
      <4> QED
        BY <3>1, <4>1, <4>2
    <3>2. CASE i = n + 1
      BY <3>2
    <3> QED
      BY <3>1, <3>2
  <2>3. Flattens(g, n + 1, ss)
    BY <2>2 DEF Flattens
  <2> QED
    BY <2>3
<1> HIDE DEF S
<1>3. \A n \in Nat : n \in S
  BY <1>1, <1>2, SetInduction
<1> QED
  BY <1>3 DEF S

\* Nothing to flatten.
LEMMA FlattenEmpty == FlattenSeq(<<>>) = <<>>
  BY DEF FlattenSeq

\* The value of FlattenSeq is the last value of that function, which maps to sequences.
LEMMA FlattenFacts ==
  ASSUME NEW T, NEW ss \in Seq(Seq(T)), ss # <<>>
  PROVE  \E f : /\ Flattens(f, Len(ss), ss)
                /\ FlattenSeq(ss) = f[Len(ss)]
                /\ \A i \in 1 .. Len(ss) : f[i] \in Seq(T)
<1> DEFINE n == Len(ss)
           f == CHOOSE f : Flattens(f, n, ss)
<1>1. n \in Nat \ {0}
  OBVIOUS
<1>2. FlattenSeq(ss) = f[n]
  BY <1>1, Zenon DEF FlattenSeq, Flattens
<1>3. Flattens(f, n, ss)
  BY <1>1, FlattensExists
<1> HIDE DEF f
<1> DEFINE S == {i \in Nat : i \in 1 .. n => f[i] \in Seq(T)}
<1>4. 0 \in S
  OBVIOUS
<1>5. ASSUME NEW i \in Nat, i \in S PROVE i + 1 \in S
  <2> SUFFICES ASSUME i + 1 \in 1 .. n PROVE f[i + 1] \in Seq(T)
    OBVIOUS
  <2>1. ss[i + 1] \in Seq(T)
    OBVIOUS
  <2>2. f[i + 1] = IF i + 1 = 1 THEN ss[i + 1] ELSE f[(i + 1) - 1] \o ss[i + 1]
    BY <1>3, FlattensAt
  <2>3. CASE i = 0
    BY <2>1, <2>2, <2>3
  <2>4. CASE i # 0
    <3>1. i \in 1 .. n /\ i + 1 # 1 /\ (i + 1) - 1 = i
      BY <2>4
    <3>2. f[i] \in Seq(T) /\ f[i + 1] = f[i] \o ss[i + 1]
      BY <1>5, <2>2, <3>1
    <3> QED
      BY <2>1, <3>2, ConcatProperties
  <2> QED
    BY <2>3, <2>4
<1> HIDE DEF S
<1>6. \A i \in Nat : i \in S
  BY <1>4, <1>5, SetInduction
<1> QED
  BY <1>1, <1>2, <1>3, <1>6 DEF S

\* Flattening sequences of elements of T gives such a sequence.
LEMMA FlattenType ==
  ASSUME NEW T, NEW ss \in Seq(Seq(T))
  PROVE  FlattenSeq(ss) \in Seq(T)
<1>1. CASE ss = <<>>
  BY <1>1, FlattenEmpty, EmptySeq, Zenon
<1>2. CASE ss # <<>>
  <2>1. Len(ss) \in 1 .. Len(ss)
    BY <1>2
  <2> QED
    BY <1>2, <2>1, FlattenFacts
<1> QED
  BY <1>1, <1>2

\* One more sequence is appended to what the others are flattened to.
LEMMA FlattenAppend ==
  ASSUME NEW T, NEW ss \in Seq(Seq(T)), NEW s \in Seq(T)
  PROVE  FlattenSeq(Append(ss, s)) = FlattenSeq(ss) \o s
<1> DEFINE n == Len(ss)
           tt == Append(ss, s)
<1>1. tt \in Seq(Seq(T)) /\ tt # <<>> /\ Len(tt) = n + 1 /\ n \in Nat
  BY SMTT(30)
<1>2. tt[n + 1] = s /\ \A i \in 1 .. n : tt[i] = ss[i]
  OBVIOUS
<1> HIDE DEF tt
<1>3. PICK g : Flattens(g, n + 1, tt) /\ FlattenSeq(tt) = g[n + 1]
  BY <1>1, FlattenFacts
<1>4. g[n + 1] = IF n = 0 THEN s ELSE g[n] \o s
  <2>1. g[n + 1] = IF n + 1 = 1 THEN tt[n + 1] ELSE g[(n + 1) - 1] \o tt[n + 1]
    BY <1>1, <1>3, FlattensAt
  <2> QED
    BY <1>1, <1>2, <2>1
<1>5. CASE n = 0
  <2>1. ss = <<>>
    BY <1>5, EmptySeq
  <2>2. <<>> \o s = s
    BY ConcatEmptySeq
  <2> QED
    BY <1>3, <1>4, <1>5, <2>1, <2>2, FlattenEmpty DEF tt
<1>6. CASE n # 0
  <2>1. PICK f : Flattens(f, n, ss) /\ FlattenSeq(ss) = f[n]
    BY <1>6, FlattenFacts
  <2> DEFINE S == {i \in Nat : i \in 1 .. n => f[i] = g[i]}
  <2>2. 0 \in S
    OBVIOUS
  <2>3. ASSUME NEW i \in Nat, i \in S PROVE i + 1 \in S
    <3> SUFFICES ASSUME i + 1 \in 1 .. n PROVE f[i + 1] = g[i + 1]
      OBVIOUS
    <3>1. f[i + 1] = IF i + 1 = 1 THEN ss[i + 1] ELSE f[(i + 1) - 1] \o ss[i + 1]
      BY <1>1, <2>1, FlattensAt
    <3>2. g[i + 1] = IF i + 1 = 1 THEN tt[i + 1] ELSE g[(i + 1) - 1] \o tt[i + 1]
      <4>1. i + 1 \in 1 .. n + 1 /\ n + 1 \in Nat
        BY <1>1
      <4> QED
        BY <1>3, <4>1, FlattensAt, ZenonT(40)
    <3>3. tt[i + 1] = ss[i + 1]
      BY <1>2
    <3>4. i # 0 => f[(i + 1) - 1] = g[(i + 1) - 1]
      <4>1. (i + 1) - 1 = i /\ (i # 0 => i \in 1 .. n)
        OBVIOUS
      <4> QED
        BY <2>3, <4>1
    <3> QED
      BY <3>1, <3>2, <3>3, <3>4
  <2> HIDE DEF S
  <2>4. \A i \in Nat : i \in S
    BY <2>2, <2>3, SetInduction
  <2>5. f[n] = g[n]
    BY <1>1, <1>6, <2>4 DEF S
  <2> QED
    BY <1>3, <1>4, <1>6, <2>1, <2>5 DEF tt
<1> QED
  BY <1>5, <1>6

\* Induction over sequences, element by element, with the property as a set.
LEMMA SeqInduction ==
  ASSUME NEW A, NEW S, <<>> \in S, \A s \in Seq(A), e \in A : s \in S => Append(s, e) \in S
  PROVE  \A s \in Seq(A) : s \in S
<1> DEFINE N == {n \in Nat : \A s \in Seq(A) : Len(s) = n => s \in S}
<1>1. 0 \in N
  BY EmptySeq
<1>2. ASSUME NEW n \in Nat, n \in N PROVE n + 1 \in N
  <2> SUFFICES ASSUME NEW s \in Seq(A), Len(s) = n + 1 PROVE s \in S
    OBVIOUS
  <2>1. s # <<>>
    BY EmptySeq
  <2>2. PICK t \in Seq(A), e \in A : s = Append(t, e)
    BY <2>1, SequenceEmptyOrAppend
  <2>3. Len(t) = n
    BY <2>2, AppendProperties, LenProperties
  <2> QED
    BY <1>2, <2>2, <2>3
<1> HIDE DEF N
<1>3. \A n \in Nat : n \in N
  BY <1>1, <1>2, SetInduction
<1> QED
  BY <1>3, LenProperties DEF N

\* The elements of a concatenation.
LEMMA ToSetConcat ==
  ASSUME NEW A, NEW s \in Seq(A), NEW t \in Seq(A)
  PROVE  ToSet(s \o t) = ToSet(s) \cup ToSet(t)
<1>1. Range(s \o t) = Range(s) \cup Range(t)
  BY RangeConcatenation
<1> QED
  BY <1>1, Zenon DEF ToSet, Range

\* The elements of a sequence with one more.
LEMMA ToSetAppend ==
  ASSUME NEW A, NEW s \in Seq(A), NEW x \in A
  PROVE  ToSet(Append(s, x)) = ToSet(s) \cup {x}
<1>1. Append(s, x) = s \o <<x>> /\ <<x>> \in Seq(A)
  OBVIOUS
<1>2. ToSet(<<x>>) = {x}
  BY DEF ToSet
<1>3. ToSet(s \o <<x>>) = ToSet(s) \cup ToSet(<<x>>)
  BY <1>1, ToSetConcat
<1> QED
  BY <1>1, <1>2, <1>3

-----------------------------------------------------------------------------
(* Mapping                                                                 *)

\* Nothing is mapped to nothing.
LEMMA FlatMapEmpty == ASSUME NEW f PROVE FlatMap(<<>>, f) = <<>>
<1>1. [k \in DOMAIN <<>> |-> f[<<>>[k]]] = <<>>
  OBVIOUS
<1> QED
  BY <1>1, FlattenEmpty DEF FlatMap

\* One more element appends what it is mapped to.
LEMMA FlatMapAppend ==
  ASSUME NEW A, NEW B, NEW f \in [A -> Seq(B)], NEW s \in Seq(A), NEW x \in A
  PROVE  FlatMap(Append(s, x), f) = FlatMap(s, f) \o f[x]
<1> DEFINE ss == [k \in DOMAIN s |-> f[s[k]]]
           tt == [k \in DOMAIN Append(s, x) |-> f[Append(s, x)[k]]]
<1>1. ss \in Seq(Seq(B))
  OBVIOUS
<1>2. tt = Append(ss, f[x])
  OBVIOUS
<1>3. f[x] \in Seq(B)
  OBVIOUS
<1> HIDE DEF ss, tt
<1> QED
  BY <1>1, <1>2, <1>3, FlattenAppend DEF FlatMap, ss, tt

\* The type of a mapped sequence.
LEMMA FlatMapType ==
  ASSUME NEW A, NEW B, NEW f \in [A -> Seq(B)], NEW s \in Seq(A)
  PROVE  FlatMap(s, f) \in Seq(B)
<1> DEFINE ss == [k \in DOMAIN s |-> f[s[k]]]
<1>1. ss \in Seq(Seq(B))
  <2>1. Len(s) \in Nat /\ DOMAIN s = 1 .. Len(s)
    BY LenProperties
  <2>2. \A k \in 1 .. Len(s) : f[s[k]] \in Seq(B)
    BY ElementOfSeq
  <2> QED
    BY <2>1, <2>2
<1> HIDE DEF ss
<1> QED
  BY <1>1, FlattenType DEF FlatMap, ss

\* Mapping distributes over concatenation.
LEMMA FlatMapConcat ==
  ASSUME NEW A, NEW B, NEW f \in [A -> Seq(B)], NEW s \in Seq(A),
         NEW r \in Seq(A)
  PROVE  FlatMap(s \o r, f) = FlatMap(s, f) \o FlatMap(r, f)
<1> DEFINE S == {t \in Seq(A) : FlatMap(s \o t, f) = FlatMap(s, f) \o FlatMap(t, f)}
<1>1. <<>> \in S
  <2>1. FlatMap(s, f) \in Seq(B)
    BY FlatMapType
  <2> QED
    BY <2>1, ConcatEmptySeq, EmptySeq, FlatMapEmpty
<1>2. ASSUME NEW t \in Seq(A), NEW e \in A, t \in S PROVE Append(t, e) \in S
  <2>1. s \o Append(t, e) = Append(s \o t, e)
    OBVIOUS
  <2>2. FlatMap(Append(s \o t, e), f) = FlatMap(s \o t, f) \o f[e]
    <3>1. s \o t \in Seq(A)
      BY ConcatProperties
    <3> QED
      BY <3>1, FlatMapAppend
  <2>3. FlatMap(Append(t, e), f) = FlatMap(t, f) \o f[e]
    BY FlatMapAppend
  <2>4. FlatMap(s, f) \in Seq(B) /\ FlatMap(t, f) \in Seq(B) /\ f[e] \in Seq(B)
    BY FlatMapType
  <2>5. (FlatMap(s, f) \o FlatMap(t, f)) \o f[e] = FlatMap(s, f) \o (FlatMap(t, f) \o f[e])
    BY <2>4, ConcatAssociative, SMTT(30)
  <2>6. Append(t, e) \in Seq(A)
    BY AppendProperties
  <2> QED
    BY <1>2, <2>1, <2>2, <2>3, <2>5, <2>6
<1> HIDE DEF S
<1>3. \A t \in Seq(A) : t \in S
  BY <1>1, <1>2, SeqInduction, Zenon
<1> QED
  BY <1>3 DEF S

\* Mapping a single element.
LEMMA FlatMapOne ==
  ASSUME NEW A, NEW B, NEW f \in [A -> Seq(B)], NEW x \in A
  PROVE  FlatMap(<<x>>, f) = f[x]
<1>1. <<>> \in Seq(A) /\ <<x>> = Append(<<>>, x)
  OBVIOUS
<1>2. FlatMap(<<x>>, f) = FlatMap(<<>>, f) \o f[x]
  BY <1>1, FlatMapAppend
<1>3. f[x] \in Seq(B)
  OBVIOUS
<1> QED
  BY <1>2, <1>3, FlatMapEmpty, ConcatEmptySeq

\* Mapping two lines.
LEMMA FlatMapTwo ==
  ASSUME NEW B, NEW f \in [Line -> Seq(B)], NEW x \in Line, NEW y \in Line
  PROVE  FlatMap(<<x, y>>, f) = f[x] \o f[y]
<1>1. <<x>> \in Seq(Line) /\ <<x, y>> = Append(<<x>>, y)
  OBVIOUS
<1>2. FlatMap(Append(<<x>>, y), f) = FlatMap(<<x>>, f) \o f[y]
  BY <1>1, FlatMapAppend, ZenonT(40)
<1>3. FlatMap(<<x>>, f) = f[x]
  BY FlatMapOne, ZenonT(40)
<1> QED
  BY <1>1, <1>2, <1>3

\* Flattening distributes over concatenation.
LEMMA FlattenConcat ==
  ASSUME NEW T, NEW ss \in Seq(Seq(T)), NEW tt \in Seq(Seq(T))
  PROVE  FlattenSeq(ss \o tt) = FlattenSeq(ss) \o FlattenSeq(tt)
<1> DEFINE id == [s \in Seq(T) |-> s]
<1>1. ASSUME NEW uu \in Seq(Seq(T)) PROVE FlatMap(uu, id) = FlattenSeq(uu)
  <2>1. [k \in DOMAIN uu |-> id[uu[k]]] = uu
    <3>1. uu \in [1 .. Len(uu) -> Seq(T)] /\ DOMAIN uu = 1 .. Len(uu)
      BY LenProperties
    <3> QED
      BY <3>1
  <2> QED
    BY <2>1 DEF FlatMap
<1>2. id \in [Seq(T) -> Seq(T)] /\ ss \o tt \in Seq(Seq(T))
  BY ConcatProperties
<1> HIDE DEF id
<1>3. FlatMap(ss \o tt, id) = FlatMap(ss, id) \o FlatMap(tt, id)
  BY <1>2, FlatMapConcat
<1> QED
  BY <1>1, <1>2, <1>3

-----------------------------------------------------------------------------
(* Payloads and what parseESErrors makes of them                           *)

\* An action has lines.
LEMMA LinesOfType == LinesOf \in [Actions -> Seq(Line)]
<1>1. ASSUME NEW a \in Actions
      PROVE  << <<a, 1>> >> \in Seq(Line) /\ << <<a, 1>>, <<a, 2>> >> \in Seq(Line)
  BY DEF Line
<1> QED
  BY <1>1 DEF LinesOf

\* A line begins at most one action.
LEMMA BegunType == Begun \in [Line -> Seq(Actions)]
<1>1. ASSUME NEW l \in Line PROVE <<l[1]>> \in Seq(Actions) /\ <<>> \in Seq(Actions)
  BY DEF Line
<1> QED
  BY <1>1 DEF Begun

\* A payload consists of lines.
LEMMA PayloadType == ASSUME NEW a \in Seq(Actions) PROVE Payload(a) \in Seq(Line)
  BY LinesOfType, FlatMapType DEF Payload

\* No actions, no lines.
LEMMA PayloadEmpty == Payload(<<>>) = <<>>
  BY FlatMapEmpty DEF Payload

\* One more action appends its lines.
LEMMA PayloadAppend ==
  ASSUME NEW a \in Seq(Actions), NEW x \in Actions
  PROVE  Payload(Append(a, x)) = Payload(a) \o LinesOf[x]
  BY LinesOfType, FlatMapAppend DEF Payload

\* Writing one message after the other concatenates their actions.
LEMMA PayloadConcat ==
  ASSUME NEW a \in Seq(Actions), NEW b \in Seq(Actions)
  PROVE  Payload(a \o b) = Payload(a) \o Payload(b)
  BY LinesOfType, FlatMapConcat DEF Payload

\* The lines of an action begin that action and no other.
LEMMA ActionsOfLines == ASSUME NEW x \in Actions PROVE ActionsOf(LinesOf[x]) = <<x>>
<1>1. <<x, 1>> \in Line /\ <<x, 2>> \in Line
  BY DEF Line
<1>2. Begun[<<x, 1>>] = <<x>> /\ Begun[<<x, 2>>] = <<>>
  BY <1>1 DEF Begun
<1>3. <<x>> \o <<>> = <<x>>
  OBVIOUS
<1>4. CASE x \in OneLine
  <2>1. LinesOf[x] = << <<x, 1>> >>
    BY <1>4 DEF LinesOf
  <2> QED
    BY <1>1, <1>2, <2>1, BegunType, FlatMapOne DEF ActionsOf
<1>5. CASE x \notin OneLine
  <2>1. LinesOf[x] = << <<x, 1>>, <<x, 2>> >>
    BY <1>5 DEF LinesOf
  <2> QED
    BY <1>1, <1>2, <1>3, <2>1, BegunType, FlatMapTwo DEF ActionsOf
<1> QED
  BY <1>4, <1>5

\* Elasticsearch finds in a payload the actions that it was made from, in their order.
LEMMA ActionsOfPayload == \A a \in Seq(Actions) : ActionsOf(Payload(a)) = a
<1> DEFINE S == {a \in Seq(Actions) : ActionsOf(Payload(a)) = a}
<1>1. <<>> \in S
  BY PayloadEmpty, FlatMapEmpty, EmptySeq DEF ActionsOf
<1>2. ASSUME NEW a \in Seq(Actions), NEW x \in Actions, a \in S PROVE Append(a, x) \in S
  <2>1. Payload(Append(a, x)) = Payload(a) \o LinesOf[x]
    BY PayloadAppend
  <2>2. Payload(a) \in Seq(Line) /\ LinesOf[x] \in Seq(Line)
    BY PayloadType, LinesOfType
  <2>3. ActionsOf(Payload(a) \o LinesOf[x]) = ActionsOf(Payload(a)) \o ActionsOf(LinesOf[x])
    BY <2>2, BegunType, FlatMapConcat DEF ActionsOf
  <2>4. a \o <<x>> = Append(a, x) /\ Append(a, x) \in Seq(Actions)
    OBVIOUS
  <2> QED
    BY <1>2, <2>1, <2>3, <2>4, ActionsOfLines
<1> HIDE DEF S
<1>3. \A a \in Seq(Actions) : a \in S
  BY <1>1, <1>2, SeqInduction, Zenon
<1> QED
  BY <1>3 DEF S

\* Each action of a request has its first line in it.
LEMMA FirstLines ==
  \A a \in Seq(Actions) : \A x \in ToSet(a) : <<x, 1>> \in ToSet(Payload(a))
<1> DEFINE S == {a \in Seq(Actions) : \A x \in ToSet(a) : <<x, 1>> \in ToSet(Payload(a))}
<1>1. <<>> \in S
  BY DEF ToSet
<1>2. ASSUME NEW a \in Seq(Actions), NEW x \in Actions, a \in S PROVE Append(a, x) \in S
  <2>1. Payload(Append(a, x)) = Payload(a) \o LinesOf[x] /\ Append(a, x) \in Seq(Actions)
    BY PayloadAppend
  <2>2. Payload(a) \in Seq(Line) /\ LinesOf[x] \in Seq(Line)
    BY PayloadType, LinesOfType
  <2>3. ToSet(Payload(a) \o LinesOf[x]) = ToSet(Payload(a)) \cup ToSet(LinesOf[x])
    BY <2>2, ToSetConcat
  <2>4. ToSet(Append(a, x)) = ToSet(a) \cup {x}
    BY ToSetAppend
  <2>5. <<x, 1>> \in ToSet(LinesOf[x])
    BY DEF LinesOf, ToSet
  <2> QED
    BY <1>2, <2>1, <2>3, <2>4, <2>5
<1> HIDE DEF S
<1>3. \A a \in Seq(Actions) : a \in S
  BY <1>1, <1>2, SeqInduction, Zenon
<1> QED
  BY <1>3 DEF S

\* Where each action has two lines, the k-th one has lines 2k - 1 and 2k.
LEMMA LinePairs ==
  \A a \in Seq(Actions) :
    ToSet(a) \cap OneLine = {} =>
      /\ Len(Payload(a)) = 2 * Len(a)
      /\ \A k \in 1 .. Len(a) : /\ Payload(a)[2 * k - 1] = <<a[k], 1>>
                                /\ Payload(a)[2 * k] = <<a[k], 2>>
<1> DEFINE Pairs(a) == /\ Len(Payload(a)) = 2 * Len(a)
                       /\ \A k \in 1 .. Len(a) : /\ Payload(a)[2 * k - 1] = <<a[k], 1>>
                                                 /\ Payload(a)[2 * k] = <<a[k], 2>>
           S == {a \in Seq(Actions) : ToSet(a) \cap OneLine = {} => Pairs(a)}
<1>1. <<>> \in S
  BY PayloadEmpty
<1>2. ASSUME NEW a \in Seq(Actions), NEW x \in Actions, a \in S PROVE Append(a, x) \in S
  <2> DEFINE b == Append(a, x)
             n == Len(a)
  <2>0. b \in Seq(Actions)
    OBVIOUS
  <2> SUFFICES ASSUME ToSet(b) \cap OneLine = {} PROVE Pairs(b)
    BY <2>0, Zenon
  <2>1. x \notin OneLine /\ ToSet(a) \cap OneLine = {}
    BY ToSetAppend
  <2>2. Payload(b) = Payload(a) \o << <<x, 1>>, <<x, 2>> >>
    BY <2>1, PayloadAppend DEF LinesOf
  <2>3. n \in Nat /\ Len(b) = n + 1 /\ b[n + 1] = x /\ \A k \in 1 .. n : b[k] = a[k]
    OBVIOUS
  <2>4. Payload(a) \in Seq(Line) /\ << <<x, 1>>, <<x, 2>> >> \in Seq(Line)
    BY PayloadType DEF Line
  <2>5. Pairs(a)
    BY <1>2, <2>1
  <2> DEFINE p == Payload(a)
             q == Payload(b)
  <2>6. /\ Len(q) = 2 * n + 2
        /\ q[2 * n + 1] = <<x, 1>> /\ q[2 * n + 2] = <<x, 2>>
        /\ \A j \in 1 .. 2 * n : q[j] = p[j]
    <3>1. Len(p) = 2 * n
      BY <2>5
    <3>2. p \in Seq(Line) /\ q = p \o << <<x, 1>>, <<x, 2>> >>
      BY <2>2, <2>4
    <3> DEFINE w == << <<x, 1>>, <<x, 2>> >>
    <3>3. w \in Seq(Line) /\ Len(w) = 2 /\ w[1] = <<x, 1>> /\ w[2] = <<x, 2>>
      BY <2>4
    <3> HIDE DEF p, q, n, w
    <3>4. /\ Len(q) = 2 * n + 2
          /\ \A j \in 1 .. 2 * n + 2 : q[j] = IF j <= 2 * n THEN p[j] ELSE w[j - 2 * n]
      BY <3>1, <3>2, <3>3, ConcatProperties DEF w
    <3>5. (2 * n + 1) - 2 * n = 1 /\ (2 * n + 2) - 2 * n = 2
      BY <2>3
    <3> QED
      BY <2>3, <3>3, <3>4, <3>5
  <2> HIDE DEF b, n
  <2>7. ASSUME NEW k \in 1 .. n + 1 PROVE q[2 * k - 1] = <<b[k], 1>> /\ q[2 * k] = <<b[k], 2>>
    <3>1. CASE k = n + 1
      <4>1. 2 * k - 1 = 2 * n + 1 /\ 2 * k = 2 * n + 2
        BY <2>3, <3>1
      <4> QED
        BY <2>3, <2>6, <3>1, <4>1
    <3>2. CASE k \in 1 .. n
      <4>1. 2 * k - 1 \in 1 .. 2 * n /\ 2 * k \in 1 .. 2 * n
        BY <2>3, <3>2
      <4>2. p[2 * k - 1] = <<a[k], 1>> /\ p[2 * k] = <<a[k], 2>>
        BY <2>5, <3>2 DEF n
      <4> QED
        BY <2>3, <2>6, <3>2, <4>1, <4>2
    <3> QED
      BY <2>3, <3>1, <3>2
  <2>8. Len(q) = 2 * Len(b)
    BY <2>3, <2>6
  <2> HIDE DEF q
  <2> QED
    BY <2>3, <2>7, <2>8 DEF q
<1> HIDE DEF S
<1>3. \A a \in Seq(Actions) : a \in S
  BY <1>1, <1>2, SeqInduction, Zenon
<1> QED
  BY <1>3 DEF S

\* Mapping the lines of some actions maps the actions.
LEMMA FlatMapPayload ==
  ASSUME NEW g \in [Line -> Seq(Line)], NEW h \in [Actions -> Seq(Line)],
         \A x \in Actions : h[x] = FlatMap(LinesOf[x], g), NEW r \in Seq(Actions)
  PROVE  FlatMap(Payload(r), g) = FlatMap(r, h)
<1> DEFINE S == {s \in Seq(Actions) : FlatMap(Payload(s), g) = FlatMap(s, h)}
<1>1. <<>> \in S
  BY FlatMapEmpty, PayloadEmpty, EmptySeq
<1>2. ASSUME NEW s \in Seq(Actions), NEW x \in Actions, s \in S PROVE Append(s, x) \in S
  <2>1. Payload(Append(s, x)) = Payload(s) \o LinesOf[x]
    BY PayloadAppend
  <2>2. FlatMap(Append(s, x), h) = FlatMap(s, h) \o h[x]
    BY FlatMapAppend
  <2>3. Payload(s) \in Seq(Line) /\ LinesOf[x] \in Seq(Line)
    BY PayloadType, LinesOfType
  <2>4. FlatMap(Payload(s) \o LinesOf[x], g) = FlatMap(Payload(s), g) \o FlatMap(LinesOf[x], g)
    BY <2>3, FlatMapConcat, ZenonT(40)
  <2>5. Append(s, x) \in Seq(Actions)
    BY AppendProperties
  <2> QED
    BY <1>2, <2>1, <2>2, <2>4, <2>5
<1> HIDE DEF S
<1>3. \A s \in Seq(Actions) : s \in S
  BY <1>1, <1>2, SeqInduction, Zenon
<1> QED
  BY <1>3 DEF S

\* Two sequences of one element.
LEMMA PairConcat ==
  ASSUME NEW A, NEW u \in A, NEW v \in A
  PROVE  <<u>> \o <<v>> = <<u, v>>
<1>1. <<u>> \in Seq(A) /\ <<u, v>> = Append(<<u>>, v)
  OBVIOUS
<1> QED
  BY <1>1, AppendIsConcat

\* parseESErrors on a request of two-line actions.
LEMMA ErrorLinesExact ==
  ASSUME NEW a \in Seq(Actions), NEW failed, NEW ended \in BOOLEAN, ToSet(a) \cap OneLine = {}
  PROVE  /\ ~OutOfRange(Payload(a), failed, ended)
         /\ ErrorLines(Payload(a), failed, ended)
              = LinesToRepublish([request |-> Payload(a), failed |-> failed])
<1> DEFINE p == Payload(a)
           n == Len(a)
           h == [x \in Actions |-> IF x \in failed THEN LinesOf[x] ELSE <<>>]
           keep == [l \in Line |-> IF l[1] \in failed THEN <<l>> ELSE <<>>]
<1>1. p \in Seq(Line) /\ ActionsOf(p) = a
  BY PayloadType, ActionsOfPayload
<1>2. /\ Len(p) = 2 * n /\ n \in Nat /\ DOMAIN a = 1 .. n
      /\ \A k \in 1 .. n : p[2 * k - 1] = <<a[k], 1>> /\ p[2 * k] = <<a[k], 2>>
  BY LinePairs, LenProperties
<1>3. FailedItems(p, failed) = {k \in 1 .. n : a[k] \in failed}
  BY <1>1, <1>2 DEF FailedItems
<1>4. /\ Len(SplitAfter(p, ended)) \in {2 * n, 2 * n + 1}
      /\ \A j \in 1 .. 2 * n : SplitAfter(p, ended)[j] = p[j]
  <2> DEFINE L == Line \cup {EmptyLine}
  <2>1. p \in Seq(L) /\ EmptyLine \in L
    BY <1>1, SeqMonotonic
  <2> HIDE DEF p, n, L
  <2>2. CASE ended
    <3>1. SplitAfter(p, ended) = Append(p, EmptyLine)
      BY <2>2 DEF SplitAfter
    <3> DEFINE q == Append(p, EmptyLine)
    <3>2. Len(q) = Len(p) + 1 /\ \A j \in 1 .. Len(p) : q[j] = p[j]
      BY <2>1, AppendProperties
    <3>3. SplitAfter(p, ended) = q
      BY <3>1
    <3> HIDE DEF q
    <3> QED
      BY <1>2, <3>2, <3>3
  <2>3. CASE ~ended
    BY <1>2, <2>3 DEF SplitAfter
  <2> QED
    BY <2>2, <2>3
<1>5. ~OutOfRange(p, failed, ended)
  BY <1>2, <1>3, <1>4 DEF OutOfRange
<1>6. ASSUME NEW k \in 1 .. n PROVE ItemLines(p, k, ended) = LinesOf[a[k]]
  <2>1. 2 * k - 1 \in 1 .. 2 * n /\ 2 * k \in 1 .. 2 * n
    BY <1>2
  <2>2. a[k] \in Actions /\ a[k] \notin OneLine
    BY <1>2 DEF ToSet
  <2>3. ItemLines(p, k, ended) = << <<a[k], 1>>, <<a[k], 2>> >>
    BY <1>2, <1>4, <2>1 DEF ItemLines
  <2> QED
    BY <2>2, <2>3 DEF LinesOf
<1>7. ErrorLines(p, failed, ended) = FlatMap(a, h)
  <2> DEFINE e == [k \in DOMAIN ActionsOf(p) |->
                     IF k \in FailedItems(p, failed) THEN ItemLines(p, k, ended) ELSE <<>>]
             d == [k \in DOMAIN a |-> h[a[k]]]
  <2>1. ASSUME NEW k \in 1 .. n
        PROVE  (IF k \in FailedItems(p, failed) THEN ItemLines(p, k, ended) ELSE <<>>) = h[a[k]]
    <3>1. a[k] \in Actions
      BY <1>2
    <3> QED
      BY <1>3, <1>6, <3>1
  <2>2. e = d
    BY <1>1, <1>2, <2>1
  <2> QED
    BY <2>2 DEF ErrorLines, FlatMap
<1>8. h \in [Actions -> Seq(Line)] /\ keep \in [Line -> Seq(Line)]
  <2>1. \A x \in Actions : LinesOf[x] \in Seq(Line)
    BY LinesOfType
  <2>2. \A l \in Line : <<l>> \in Seq(Line)
    OBVIOUS
  <2>3. <<>> \in Seq(Line)
    BY EmptySeq
  <2> QED
    BY <2>1, <2>2, <2>3
<1>9. ASSUME NEW x \in Actions PROVE h[x] = FlatMap(LinesOf[x], keep)
  <2>1. <<x, 1>> \in Line /\ <<x, 2>> \in Line
    BY DEF Line
  <2>2. \/ LinesOf[x] = << <<x, 1>> >> 
        \/ LinesOf[x] = << <<x, 1>>, <<x, 2>> >>
    BY DEF LinesOf
  <2>3. \A l \in {<<x, 1>>, <<x, 2>>} : keep[l] = IF x \in failed THEN <<l>> ELSE <<>>
    BY <2>1
  <2>4. h[x] = IF x \in failed THEN LinesOf[x] ELSE <<>>
    OBVIOUS
  <2>5. FlatMap(<< <<x, 1>> >>, keep) = keep[<<x, 1>>]
    BY <1>8, <2>1, FlatMapOne, Zenon
  <2>6. FlatMap(<< <<x, 1>>, <<x, 2>> >>, keep) = keep[<<x, 1>>] \o keep[<<x, 2>>]
    <3>1. ASSUME NEW k \in Line, NEW l \in Line
          PROVE  FlatMap(<<k, l>>, keep) = keep[k] \o keep[l]
      <4> HIDE DEF keep, h
      <4>1. keep \in [Line -> Seq(Line)]
        BY <1>8
      <4> QED
        BY <4>1, FlatMapTwo, ZenonT(40)
    <3> HIDE DEF keep, h
    <3> QED
      BY <2>1, <3>1, ZenonT(40)
  <2>7. /\ << <<x, 1>> >> \o << <<x, 2>> >> = << <<x, 1>>, <<x, 2>> >>
        /\ <<>> \o <<>> = <<>>
    BY <2>1, ConcatEmptySeq, EmptySeq, PairConcat
  <2> HIDE DEF h, keep
  <2> QED
    BY <2>2, <2>3, <2>4, <2>5, <2>6, <2>7
<1>10. FlatMap(p, keep) = FlatMap(a, h)
  <2> HIDE DEF h, keep
  <2>1. \A x \in Actions : h[x] = FlatMap(LinesOf[x], keep)
    BY <1>9
  <2> QED
    BY <1>8, <2>1, FlatMapPayload
<1>11. LinesToRepublish([request |-> p, failed |-> failed]) = FlatMap(p, keep)
  BY DEF LinesToRepublish
<1> QED
  BY <1>5, <1>7, <1>10, <1>11

\* What parseESErrors writes are lines, the empty one included, if it does not panic.
LEMMA ErrorLinesType ==
  ASSUME NEW lines \in Seq(Line), NEW failed, NEW ended \in BOOLEAN,
         ~OutOfRange(lines, failed, ended)
  PROVE  ErrorLines(lines, failed, ended) \in Seq(Line \cup {EmptyLine})
<1> DEFINE L == Line \cup {EmptyLine}
           acts == ActionsOf(lines)
           e == [k \in DOMAIN acts |->
                   IF k \in FailedItems(lines, failed) THEN ItemLines(lines, k, ended) ELSE <<>>]
<1>1. acts \in Seq(Actions)
  BY BegunType, FlatMapType DEF ActionsOf
<1>2. Len(acts) \in Nat /\ DOMAIN acts = 1 .. Len(acts)
  BY <1>1, LenProperties
<1>3. SplitAfter(lines, ended) \in Seq(L)
  <2>1. lines \in Seq(L) /\ EmptyLine \in L
    BY SeqMonotonic
  <2> HIDE DEF L
  <2> QED
    BY <2>1, AppendProperties DEF SplitAfter
<1> HIDE DEF L
<1>4. ASSUME NEW k \in FailedItems(lines, failed) PROVE ItemLines(lines, k, ended) \in Seq(L)
  <2>1. k \in Nat /\ 1 <= k /\ 2 * k <= Len(SplitAfter(lines, ended))
    BY <1>2, <1>3 DEF FailedItems, OutOfRange
  <2>2. 2 * k - 1 \in 1 .. Len(SplitAfter(lines, ended)) /\ 2 * k \in 1 .. Len(SplitAfter(lines, ended))
    BY <1>3, <2>1
  <2>3. SplitAfter(lines, ended)[2 * k - 1] \in L /\ SplitAfter(lines, ended)[2 * k] \in L
    BY <1>3, <2>2, ElementOfSeq
  <2> QED
    BY <2>3 DEF ItemLines
<1> HIDE DEF acts
<1>5. \A k \in 1 .. Len(acts) :
        (IF k \in FailedItems(lines, failed) THEN ItemLines(lines, k, ended) ELSE <<>>) \in Seq(L)
  BY <1>4, EmptySeq
<1>6. e \in Seq(Seq(L))
  BY <1>2, <1>5
<1> HIDE DEF e
<1> QED
  BY <1>6, FlattenType DEF ErrorLines, L, e, acts

\* Sequences without repetitions and without a common element.
LEMMA InjectiveConcat ==
  ASSUME NEW A, NEW s \in Seq(A), NEW t \in Seq(A), IsInjective(s), IsInjective(t),
         ToSet(s) \cap ToSet(t) = {}
  PROVE  IsInjective(s \o t)
<1> DEFINE m == Len(s)
           n == Len(t)
           u == s \o t
<1>1. /\ m \in Nat /\ n \in Nat /\ u \in Seq(A) /\ Len(u) = m + n
      /\ DOMAIN s = 1 .. m /\ DOMAIN t = 1 .. n
      /\ \A i \in 1 .. m + n : u[i] = IF i <= m THEN s[i] ELSE t[i - m]
  BY ConcatProperties, LenProperties
<1>2. DOMAIN u = 1 .. m + n
  BY <1>1, LenProperties
<1>3. \A i \in 1 .. m, j \in 1 .. n : s[i] # t[j]
  BY <1>1 DEF ToSet
<1> HIDE DEF m, n, u
<1>4. ASSUME NEW i \in 1 .. m + n, NEW j \in 1 .. m + n, u[i] = u[j] PROVE i = j
  <2>1. CASE i <= m /\ j <= m
    <3>1. i \in 1 .. m /\ j \in 1 .. m
      BY <1>1, <2>1
    <3>2. s[i] = s[j]
      BY <1>1, <1>4, <2>1
    <3> QED
      BY <1>1, <3>1, <3>2 DEF IsInjective
  <2>2. CASE i <= m /\ ~(j <= m)
    <3>1. i \in 1 .. m /\ j - m \in 1 .. n
      BY <1>1, <2>2
    <3> QED
      BY <1>1, <1>3, <1>4, <2>2, <3>1
  <2>3. CASE ~(i <= m) /\ j <= m
    <3>1. j \in 1 .. m /\ i - m \in 1 .. n
      BY <1>1, <2>3
    <3> QED
      BY <1>1, <1>3, <1>4, <2>3, <3>1
  <2>4. CASE ~(i <= m) /\ ~(j <= m)
    <3>1. j - m \in 1 .. n /\ i - m \in 1 .. n
      BY <1>1, <2>4
    <3>2. i - m = j - m
      BY <1>1, <1>4, <2>4, <3>1 DEF IsInjective
    <3> QED
      BY <1>1, <3>2
  <2> QED
    BY <2>1, <2>2, <2>3, <2>4
<1>5. IsInjective(u)
  BY <1>2, <1>4 DEF IsInjective
<1> QED
  BY <1>5 DEF u

\* What is appended without a repetition was not there.
LEMMA InjectiveAppend ==
  ASSUME NEW A, NEW s \in Seq(A), NEW x \in A, IsInjective(Append(s, x))
  PROVE  IsInjective(s) /\ x \notin ToSet(s)
<1> DEFINE n == Len(s)
           u == Append(s, x)
<1>1. /\ n \in Nat /\ DOMAIN s = 1 .. n /\ DOMAIN u = 1 .. n + 1
      /\ u[n + 1] = x /\ \A i \in 1 .. n : u[i] = s[i]
  OBVIOUS
<1>2. \A i, j \in 1 .. n + 1 : u[i] = u[j] => i = j
  BY <1>1 DEF IsInjective
<1> HIDE DEF n, u
<1> QED
  BY <1>1, <1>2 DEF IsInjective, ToSet

\* A batch that holds the messages ms.
LEMMA FlattenMessages ==
  ASSUME NEW ms \in Seq(Topic)
  PROVE  ms \in Seq(Seq(Actions)) /\ FlattenSeq(ms) \in Seq(Actions)
<1>1. ms \in Seq(Seq(Actions))
  BY BuffersAssumption, SeqMonotonic DEF BuffersAssumption
<1> QED
  BY <1>1, FlattenType

\* The actions of a batch are those of its messages.
LEMMA FlattenMembers ==
  \A ms \in Seq(Topic) : \A e : e \in ToSet(FlattenSeq(ms)) <=> \E m \in ToSet(ms) : e \in ToSet(m)
<1> DEFINE S == {ms \in Seq(Topic) :
                   \A e : e \in ToSet(FlattenSeq(ms)) <=> \E m \in ToSet(ms) : e \in ToSet(m)}
<1>1. <<>> \in S
  BY FlattenEmpty, EmptySeq DEF ToSet
<1>2. ASSUME NEW ms \in Seq(Topic), NEW m \in Topic, ms \in S PROVE Append(ms, m) \in S
  <2>1. ms \in Seq(Seq(Actions)) /\ FlattenSeq(ms) \in Seq(Actions) /\ m \in Seq(Actions)
    BY FlattenMessages, BuffersAssumption DEF BuffersAssumption
  <2>2. FlattenSeq(Append(ms, m)) = FlattenSeq(ms) \o m
    BY <2>1, FlattenAppend
  <2>3. ToSet(FlattenSeq(ms) \o m) = ToSet(FlattenSeq(ms)) \cup ToSet(m)
    BY <2>1, ToSetConcat
  <2>4. ToSet(Append(ms, m)) = ToSet(ms) \cup {m}
    BY ToSetAppend
  <2>5. Append(ms, m) \in Seq(Topic)
    BY AppendProperties
  <2> QED
    BY <1>2, <2>2, <2>3, <2>4, <2>5
<1> HIDE DEF S
<1>3. \A ms \in Seq(Topic) : ms \in S
  BY <1>1, <1>2, SeqInduction, Zenon
<1> QED
  BY <1>3 DEF S

\* None of its actions is there twice.
LEMMA FlattenInjective ==
  \A ms \in Seq(Topic) : IsInjective(ms) => IsInjective(FlattenSeq(ms))
<1> DEFINE S == {ms \in Seq(Topic) : IsInjective(ms) => IsInjective(FlattenSeq(ms))}
<1>1. <<>> \in S
  BY FlattenEmpty, EmptySeq DEF IsInjective
<1>2. ASSUME NEW ms \in Seq(Topic), NEW m \in Topic, ms \in S PROVE Append(ms, m) \in S
  <2>0. Append(ms, m) \in Seq(Topic)
    BY AppendProperties
  <2> SUFFICES ASSUME IsInjective(Append(ms, m)) PROVE IsInjective(FlattenSeq(Append(ms, m)))
    BY <2>0
  <2>1. ms \in Seq(Seq(Actions)) /\ FlattenSeq(ms) \in Seq(Actions) /\ m \in Seq(Actions)
    BY FlattenMessages, BuffersAssumption DEF BuffersAssumption
  <2>2. FlattenSeq(Append(ms, m)) = FlattenSeq(ms) \o m
    BY <2>1, FlattenAppend
  <2>3. IsInjective(ms) /\ m \notin ToSet(ms)
    BY InjectiveAppend
  <2>4. \A n \in ToSet(ms) : ToSet(n) \cap ToSet(m) = {}
    <3>1. \A n \in ToSet(ms) : n \in Topic
      BY DEF ToSet
    <3> QED
      BY <2>3, <3>1, TopicAssumption DEF TopicAssumption
  <2>5. ToSet(FlattenSeq(ms)) \cap ToSet(m) = {}
    BY <2>4, FlattenMembers
  <2>6. IsInjective(m) /\ IsInjective(FlattenSeq(ms))
    BY <1>2, <2>3, TopicAssumption DEF TopicAssumption
  <2>7. IsInjective(FlattenSeq(ms) \o m)
    BY <2>1, <2>5, <2>6, InjectiveConcat
  <2> QED
    BY <2>2, <2>7
<1> HIDE DEF S
<1>3. \A ms \in Seq(Topic) : ms \in S
  BY <1>1, <1>2, SeqInduction, Zenon
<1> QED
  BY <1>3 DEF S

\* The lines of u follow each other in p.
Occurs(u, p) == \E x, y \in Seq(Line) : p = (x \o u) \o y

\* Lines that occur still do when more is written.
LEMMA OccursMore ==
  ASSUME NEW u \in Seq(Line), NEW p \in Seq(Line), NEW q \in Seq(Line), Occurs(u, p)
  PROVE  Occurs(u, p \o q)
<1>1. PICK x \in Seq(Line), y \in Seq(Line) : p = (x \o u) \o y
  BY DEF Occurs
<1> DEFINE v == x \o u
<1>2. v \in Seq(Line) /\ y \o q \in Seq(Line)
  BY ConcatProperties
<1> HIDE DEF v
<1>3. (v \o y) \o q = v \o (y \o q)
  BY <1>2, ConcatAssociative, SMTT(30)
<1> QED
  BY <1>1, <1>2, <1>3 DEF Occurs, v

\* What is written last occurs.
LEMMA OccursLast ==
  ASSUME NEW u \in Seq(Line), NEW p \in Seq(Line)
  PROVE  Occurs(u, p \o u)
<1>1. p \o u \in Seq(Line) /\ <<>> \in Seq(Line)
  BY ConcatProperties, EmptySeq
<1>2. (p \o u) \o <<>> = p \o u
  BY <1>1, ConcatEmptySeq
<1> QED
  BY <1>1, <1>2 DEF Occurs

\* In the terms of BatchesAreWhole.
LEMMA OccursPrefix ==
  ASSUME NEW u \in Seq(Line), NEW p \in Seq(Line), Occurs(u, p)
  PROVE  \E k \in 0 .. Len(p) : IsPrefix(u, SubSeq(p, k + 1, Len(p)))
<1>1. PICK x \in Seq(Line), y \in Seq(Line) : p = (x \o u) \o y
  BY DEF Occurs
<1> DEFINE k == Len(x)
           n == Len(u)
           w == SubSeq(p, k + 1, Len(p))
<1>2. x \o u \in Seq(Line) /\ Len(x \o u) = k + n
  BY ConcatProperties
<1>3. Len(p) = k + n + Len(y) /\ k \in Nat /\ n \in Nat /\ Len(y) \in Nat
  BY <1>1, <1>2, ConcatProperties, LenProperties
<1>4. ASSUME NEW i \in 1 .. n PROVE p[k + i] = u[i]
  <2>1. k + i \in 1 .. k + n /\ k + i \in 1 .. k + n + Len(y)
    BY <1>3
  <2>2. p[k + i] = (x \o u)[k + i]
    BY <1>1, <1>2, <1>3, <2>1, ConcatProperties
  <2>3. (x \o u)[k + i] = u[(k + i) - k]
    BY <1>3, <2>1, ConcatProperties
  <2>4. (k + i) - k = i
    BY <1>3
  <2> QED
    BY <2>2, <2>3, <2>4
<1> HIDE DEF k, n
<1>5. w \in Seq(Line) /\ Len(w) = n + Len(y) /\ \A i \in 1 .. n + Len(y) : w[i] = p[k + i]
  <2>1. \A i \in k + 1 .. Len(p) : p[i] \in Line
    BY <1>3, ElementOfSeq
  <2>2. k + 1 \in Int /\ Len(p) \in Int
    BY <1>3
  <2>3. /\ w \in Seq(Line)
        /\ Len(w) = IF k + 1 <= Len(p) THEN Len(p) - (k + 1) + 1 ELSE 0
        /\ \A i \in 1 .. Len(p) - (k + 1) + 1 : w[i] = p[(k + 1) + i - 1]
    BY <2>1, <2>2, SubSeqProperties
  <2> HIDE DEF w
  <2> QED
    BY <1>3, <2>3
<1> HIDE DEF w
<1>6. Len(u) <= Len(w)
  BY <1>3, <1>5 DEF n
<1>7. SubSeq(u, 1, n) = SubSeq(w, 1, n)
  <2>1. \A i \in 1 .. n : u[i] \in Line /\ w[i] \in Line
    BY <1>3, <1>5, ElementOfSeq DEF n
  <2>2. /\ SubSeq(u, 1, n) \in Seq(Line) /\ Len(SubSeq(u, 1, n)) = n
        /\ \A i \in 1 .. n : SubSeq(u, 1, n)[i] = u[i]
    <3>1. 1 \in Int /\ n \in Int
      BY <1>3
    <3>2. /\ SubSeq(u, 1, n) \in Seq(Line)
          /\ Len(SubSeq(u, 1, n)) = IF 1 <= n THEN n - 1 + 1 ELSE 0
          /\ \A i \in 1 .. n - 1 + 1 : SubSeq(u, 1, n)[i] = u[1 + i - 1]
      BY <2>1, <3>1, SubSeqProperties
    <3> QED
      BY <1>3, <3>2
  <2>3. /\ SubSeq(w, 1, n) \in Seq(Line) /\ Len(SubSeq(w, 1, n)) = n
        /\ \A i \in 1 .. n : SubSeq(w, 1, n)[i] = w[i]
    <3>1. 1 \in Int /\ n \in Int
      BY <1>3
    <3>2. /\ SubSeq(w, 1, n) \in Seq(Line)
          /\ Len(SubSeq(w, 1, n)) = IF 1 <= n THEN n - 1 + 1 ELSE 0
          /\ \A i \in 1 .. n - 1 + 1 : SubSeq(w, 1, n)[i] = w[1 + i - 1]
      BY <2>1, <3>1, SubSeqProperties
    <3> QED
      BY <1>3, <3>2
  <2>4. \A i \in 1 .. n : SubSeq(u, 1, n)[i] = SubSeq(w, 1, n)[i]
    <3>1. \A i \in 1 .. n : w[i] = u[i]
      <4> SUFFICES ASSUME NEW i \in 1 .. n PROVE w[i] = u[i]
        OBVIOUS
      <4>1. i \in 1 .. n + Len(y)
        BY <1>3
      <4> QED
        BY <1>4, <1>5, <4>1
    <3> QED
      BY <2>2, <2>3, <3>1
  <2> QED
    BY <2>2, <2>3, <2>4, SeqEqual
<1>8. IsPrefix(u, w)
  BY <1>6, <1>7 DEF IsPrefix, n
<1>9. k \in 0 .. Len(p)
  BY <1>3
<1> QED
  BY <1>8, <1>9 DEF w

\* Each of its messages is there as it was polled.
LEMMA MessageOccurs ==
  \A ms \in Seq(Topic) : \A m \in ToSet(ms) : Occurs(Payload(m), Payload(FlattenSeq(ms)))
<1> DEFINE S == {ms \in Seq(Topic) :
                   \A m \in ToSet(ms) : Occurs(Payload(m), Payload(FlattenSeq(ms)))}
<1>1. <<>> \in S
  BY EmptySeq DEF ToSet
<1>2. ASSUME NEW ms \in Seq(Topic), NEW m \in Topic, ms \in S PROVE Append(ms, m) \in S
  <2>1. ms \in Seq(Seq(Actions)) /\ FlattenSeq(ms) \in Seq(Actions) /\ m \in Seq(Actions)
    BY FlattenMessages, BuffersAssumption DEF BuffersAssumption
  <2>2. Payload(FlattenSeq(Append(ms, m))) = Payload(FlattenSeq(ms)) \o Payload(m)
    <3>1. FlattenSeq(Append(ms, m)) = FlattenSeq(ms) \o m
      BY <2>1, FlattenAppend
    <3> QED
      BY <2>1, <3>1, PayloadConcat
  <2>3. Append(ms, m) \in Seq(Topic) /\ ToSet(Append(ms, m)) = ToSet(ms) \cup {m}
    BY ToSetAppend, AppendProperties
  <2>4. \A n \in Topic : Payload(n) \in Seq(Line)
    BY PayloadType, BuffersAssumption DEF BuffersAssumption
  <2>5. Payload(FlattenSeq(ms)) \in Seq(Line)
    BY <2>1, PayloadType
  <2>6. ASSUME NEW n \in ToSet(ms)
        PROVE  Occurs(Payload(n), Payload(FlattenSeq(ms)) \o Payload(m))
    <3>1. n \in Topic
      BY DEF ToSet
    <3>2. Occurs(Payload(n), Payload(FlattenSeq(ms)))
      BY <1>2
    <3> QED
      BY <2>4, <2>5, <3>1, <3>2, OccursMore
  <2>7. Occurs(Payload(m), Payload(FlattenSeq(ms)) \o Payload(m))
    BY <2>4, <2>5, OccursLast
  <2> QED
    BY <2>2, <2>3, <2>6, <2>7
<1> HIDE DEF S
<1>3. \A ms \in Seq(Topic) : ms \in S
  BY <1>1, <1>2, SeqInduction, Zenon
<1> QED
  BY <1>3 DEF S

\* A request for whole messages, none of them twice, as BatchesAreWhole wants it.
LEMMA WholeRequest ==
  ASSUME NEW ms \in Seq(Topic), IsInjective(ms), NEW p, p = Payload(FlattenSeq(ms))
  PROVE  /\ p = Payload(ActionsOf(p))
         /\ IsInjective(ActionsOf(p))
         /\ \A m \in Topic : ToSet(m) \cap ToSet(ActionsOf(p)) # {} =>
              \E k \in 0 .. Len(p) : IsPrefix(Payload(m), SubSeq(p, k + 1, Len(p)))
<1>1. FlattenSeq(ms) \in Seq(Actions) /\ ActionsOf(p) = FlattenSeq(ms)
  BY FlattenMessages, ActionsOfPayload
<1>2. ASSUME NEW m \in Topic, ToSet(m) \cap ToSet(FlattenSeq(ms)) # {}
      PROVE  \E k \in 0 .. Len(p) : IsPrefix(Payload(m), SubSeq(p, k + 1, Len(p)))
  <2>1. PICK e : e \in ToSet(m) /\ e \in ToSet(FlattenSeq(ms))
    BY <1>2
  <2>2. PICK n \in ToSet(ms) : e \in ToSet(n)
    BY <2>1, FlattenMembers
  <2>3. n \in Topic
    BY DEF ToSet
  <2>4. m = n
    BY <2>1, <2>2, <2>3, TopicAssumption DEF TopicAssumption
  <2>5. Occurs(Payload(m), p)
    BY <2>4, MessageOccurs
  <2>6. Payload(m) \in Seq(Line) /\ p \in Seq(Line)
    BY <1>1, PayloadType, BuffersAssumption DEF BuffersAssumption
  <2> QED
    BY <2>5, <2>6, OccursPrefix
<1>3. IsInjective(FlattenSeq(ms))
  BY FlattenInjective
<1> QED
  BY <1>1, <1>2, <1>3

-----------------------------------------------------------------------------
(* Ownership                                                               *)

\* The places hold buffers, and no two places the same one.
Owned(r) == r \in [Places -> SUBSET Buffer] /\ Exclusive(r)

USE DEF Owned, Exclusive

\* Assigning a buffer that nobody else holds keeps the references exclusive.
LEMMA GetToOwned ==
  ASSUME NEW r, Owned(r), NEW b \in Buffer, NEW p \in Hands,
         \A q \in Hands \ {p} : b \notin r[q]
  PROVE  Owned(GetTo(r, b, p))
<1> MsgPool \in Places /\ BulkPool \in Places /\ MsgPool # BulkPool
  BY DEF Places, MsgPool, BulkPool
<1> QED
  BY DEF GetTo, Hands

\* So does passing the buffer of one place on to another one.
LEMMA GiveToOwned ==
  ASSUME NEW r, Owned(r), NEW p \in Places, NEW q \in Places, p # q
  PROVE  Owned(GiveTo(r, p, q))
BY DEF GiveTo

\* And so does receiving one of the buffers of a channel.
LEMMA RecvToOwned ==
  ASSUME NEW r, Owned(r), NEW ch \in Places, NEW p \in Places, p # ch, NEW b \in r[ch]
  PROVE  Owned(RecvTo(r, ch, b, p))
BY DEF RecvTo

\* A buffer from a pool is in no variable and in no channel.
LEMMA GetIsFree ==
  ASSUME Owned(ref), NEW b \in Buffer, NEW pool \in {MsgPool, BulkPool}, Get(pool, b)
  PROVE  \A q \in Hands : b \notin ref[q]
<1> MsgPool \in Places /\ BulkPool \in Places
  BY DEF Places
<1> QED
  BY DEF Get, Hands

\* The places are told apart by their names.
LEMMA PlaceFacts ==
  /\ MsgPool \in Places /\ BulkPool \in Places
  /\ {Polled, ConsumerChan, ErrorChan, ProdMsg} \subseteq Hands
  /\ \A i \in Indexers : {Msg(i), Batch(i), Out(i)} \subseteq Hands
  /\ Hands \subseteq Places
  /\ Polled # ConsumerChan /\ ErrorChan # ProdMsg
  /\ \A i \in Indexers : Msg(i) # ConsumerChan /\ Out(i) # ErrorChan /\ Out(i) # Batch(i)
BY DEF Places, Hands, MsgPool, BulkPool, Polled, ConsumerChan, ErrorChan, ProdMsg,
       Msg, Batch, Out

\* newBulker takes a different buffer for each batch.
LEMMA OwnedInit == Init => Owned(ref)
<1> SUFFICES ASSUME Init PROVE Owned(ref)
  OBVIOUS
<1>1. PICK f \in [Indexers -> Buffer] :
         /\ \A i, j \in Indexers : i # j => f[i] # f[j]
         /\ ref = [p \in Places |-> IF p[1] = "buffer" THEN {f[p[2]]} ELSE {}]
  BY DEF Init
<1>2. \A p \in Places : p[1] = "buffer" => p[2] \in Indexers /\ p = <<"buffer", p[2]>>
  BY DEF Places, MsgPool, BulkPool, Polled, ConsumerChan, ErrorChan, ProdMsg, Msg, Batch, Out
<1>3. ref \in [Places -> SUBSET Buffer]
  BY <1>1, <1>2
<1>4. ASSUME NEW p \in Places, NEW q \in Places, p # q PROVE ref[p] \cap ref[q] = {}
  <2>1. CASE p[1] = "buffer" /\ q[1] = "buffer"
    <3>1. p[2] # q[2] /\ p[2] \in Indexers /\ q[2] \in Indexers
      BY <1>2, <1>4, <2>1
    <3> QED
      BY <1>1, <2>1, <3>1
  <2>2. CASE ~(p[1] = "buffer" /\ q[1] = "buffer")
    BY <1>1, <2>2
  <2> QED
    BY <2>1, <2>2
<1> QED
  BY <1>3, <1>4

\* Every step passes a buffer on, or takes a free one.
LEMMA OwnedStep == Owned(ref) /\ [Next]_vars => Owned(ref')
<1> SUFFICES ASSUME Owned(ref), [Next]_vars PROVE Owned(ref')
  OBVIOUS
<1> USE PlaceFacts
<1> HIDE DEF Owned, Exclusive
<1>1. CASE ConsumerCopy
  <2>1. PICK b \in Buffer : /\ Get(MsgPool, b)
                            /\ \/ ref' = GetTo(ref, b, Polled)
                               \/ ref' = GiveTo(GetTo(ref, b, Polled), Polled, MsgPool)
    BY <1>1 DEF ConsumerCopy
  <2>2. Owned(GetTo(ref, b, Polled))
    BY <2>1, GetIsFree, GetToOwned
  <2>3. Polled # MsgPool /\ Polled \in Places
    BY DEF Hands
  <2> QED
    BY <2>1, <2>2, <2>3, GiveToOwned
<1>2. CASE ConsumerSend
  BY <1>2, GiveToOwned DEF ConsumerSend
<1>3. CASE ConsumerTrace
  BY <1>3 DEF ConsumerTrace
<1>4. ASSUME NEW i \in Indexers, Indexer(i) PROVE Owned(ref')
  <2> Batch(i) \in Places /\ Msg(i) \in Places /\ Out(i) \in Places
    OBVIOUS
  <2> Batch(i) # BulkPool /\ Msg(i) # MsgPool /\ Out(i) # MsgPool
    BY DEF Hands
  <2>1. CASE IndexerRecv(i)
    <3>1. PICK b \in ref[ConsumerChan] : ref' = RecvTo(ref, ConsumerChan, b, Msg(i))
      BY <2>1 DEF IndexerRecv
    <3> QED
      BY <3>1, RecvToOwned
  <2>2. CASE BulkWrite(i)
    BY <2>2, GiveToOwned DEF BulkWrite
  <2>7. CASE IndexerFails(i)
    BY <2>7 DEF IndexerFails, Owned, Exclusive
  <2>3. CASE SendToES(i)
    BY <2>3 DEF SendToES
  <2>4. CASE NoErrorsFound(i)
    BY <2>4, GiveToOwned DEF NoErrorsFound
  <2>5. CASE ParseESErrors(i)
    <3>1. CASE ref' = GiveTo(ref, Batch(i), BulkPool)
      BY <3>1, GiveToOwned
    <3>2. CASE \E b \in Buffer : /\ Get(MsgPool, b)
                                 /\ ref' = GiveTo(GetTo(ref, b, Out(i)), Batch(i), BulkPool)
      <4>1. PICK b \in Buffer : /\ Get(MsgPool, b)
                                /\ ref' = GiveTo(GetTo(ref, b, Out(i)), Batch(i), BulkPool)
        BY <3>2
      <4>2. Owned(GetTo(ref, b, Out(i)))
        BY <4>1, GetIsFree, GetToOwned
      <4> QED
        BY <4>1, <4>2, GiveToOwned
    <3> QED
      BY <2>5, <3>1, <3>2 DEF ParseESErrors
  <2>6. CASE SendErrors(i)
    <3>1. PICK b \in Buffer :
            /\ Get(BulkPool, b)
            /\ \/ ref' = GetTo(ref, b, Batch(i))
               \/ ref' = GetTo(GiveTo(ref, Out(i), MsgPool), b, Batch(i))
               \/ ref' = GetTo(GiveTo(ref, Out(i), ErrorChan), b, Batch(i))
      BY <2>6 DEF SendErrors, PutOut
    <3>2. \A q \in Hands : b \notin ref[q]
      BY <3>1, GetIsFree
    <3>3. ASSUME NEW p \in {MsgPool, ErrorChan}
          PROVE  Owned(GetTo(GiveTo(ref, Out(i), p), b, Batch(i)))
      <4>1. Owned(GiveTo(ref, Out(i), p))
        BY GiveToOwned
      <4>2. \A q \in Hands \ {Batch(i)} : b \notin GiveTo(ref, Out(i), p)[q]
        BY <3>2 DEF GiveTo, Owned, Hands
      <4> QED
        BY <4>1, <4>2, GetToOwned
    <3>4. Owned(GetTo(ref, b, Batch(i)))
      BY <3>2, GetToOwned
    <3> QED
      BY <3>1, <3>3, <3>4
  <2> QED
    BY <1>4, <2>1, <2>2, <2>3, <2>4, <2>5, <2>6, <2>7 DEF Indexer
<1>5. CASE ProducerRecv
  <2>1. PICK b \in ref[ErrorChan] : ref' = RecvTo(ref, ErrorChan, b, ProdMsg)
    BY <1>5 DEF ProducerRecv
  <2> QED
    BY <2>1, RecvToOwned
<1>6. CASE Produce
  <2>1. ProdMsg # MsgPool /\ ProdMsg \in Places
    BY DEF Hands
  <2> QED
    BY <1>6, <2>1, GiveToOwned DEF Produce
<1>7. CASE UNCHANGED vars
  BY <1>7 DEF vars
<1> QED
  BY <1>1, <1>2, <1>3, <1>4, <1>5, <1>6, <1>7 DEF Next

HIDE DEF Owned, Exclusive

\* The places of a message on its way to a batch, the batches, and the places of what
\* parseESErrors returned.
Pools == {MsgPool, BulkPool}
Passing == {Polled, ConsumerChan} \cup {Msg(i) : i \in Indexers}
Batches == {Batch(i) : i \in Indexers}
Errors == {ErrorChan, ProdMsg} \cup {Out(i) : i \in Indexers}

\* The places by their kinds.
LEMMA KindFacts ==
  /\ Places = Pools \cup Hands /\ Pools \cap Hands = {}
  /\ Hands = Passing \cup Batches \cup Errors
  /\ Passing \cap Batches = {} /\ Passing \cap Errors = {} /\ Batches \cap Errors = {}
  /\ MsgPool \in Pools /\ BulkPool \in Pools /\ MsgPool # BulkPool
  /\ Polled \in Passing /\ ConsumerChan \in Passing /\ Polled # ConsumerChan
  /\ ErrorChan \in Errors /\ ProdMsg \in Errors /\ ErrorChan # ProdMsg
  /\ \A i \in Indexers : /\ Msg(i) \in Passing /\ Msg(i) # Polled /\ Msg(i) # ConsumerChan
                         /\ Batch(i) \in Batches
                         /\ Out(i) \in Errors /\ Out(i) # ErrorChan /\ Out(i) # ProdMsg
<1> USE DEF Places, Hands, Pools, Passing, Batches, Errors, MsgPool, BulkPool, Polled,
       ConsumerChan, ErrorChan, ProdMsg, Msg, Batch, Out
<1>1. Places = Pools \cup Hands /\ Pools \cap Hands = {}
  OBVIOUS
<1>2. Hands = Passing \cup Batches \cup Errors
  OBVIOUS
<1>3. Passing \cap Batches = {} /\ Passing \cap Errors = {} /\ Batches \cap Errors = {}
  OBVIOUS
<1>4. /\ MsgPool \in Pools /\ BulkPool \in Pools /\ MsgPool # BulkPool
      /\ Polled \in Passing /\ ConsumerChan \in Passing /\ Polled # ConsumerChan
      /\ ErrorChan \in Errors /\ ProdMsg \in Errors /\ ErrorChan # ProdMsg
  OBVIOUS
<1>5. \A i \in Indexers : /\ Msg(i) \in Passing /\ Msg(i) # Polled /\ Msg(i) # ConsumerChan
                          /\ Batch(i) \in Batches
                          /\ Out(i) \in Errors /\ Out(i) # ErrorChan /\ Out(i) # ProdMsg
  OBVIOUS
<1> QED
  BY <1>1, <1>2, <1>3, <1>4, <1>5

\* An indexer's places are its own.
LEMMA OwnPlaces ==
  \A i, j \in Indexers : i # j => Msg(i) # Msg(j) /\ Batch(i) # Batch(j) /\ Out(i) # Out(j)
  BY DEF Msg, Batch, Out

-----------------------------------------------------------------------------
(* The inductive invariant                                                 *)

\* A variable refers to one buffer at most, a channel to as many as it has room for.
SingleAt(p) == \A b, c \in ref[p] : b = c
BoundedAt(ch) == IsFiniteSet(ref[ch]) /\ Cardinality(ref[ch]) <= ChanCap

Counts ==
    /\ \A p \in Hands \ {ConsumerChan, ErrorChan} : SingleAt(p)
    /\ BoundedAt(ConsumerChan) /\ BoundedAt(ErrorChan)

\* The types of what is not a reference.
DataOK ==
    /\ content \in [Buffer -> Seq(Line \cup {EmptyLine})]
    /\ topic \subseteq Topic
    /\ cPc \in {"poll", "send", "trace"}
    /\ msgBuf \in [buf : SUBSET Buffer, msg : Topic \cup {<<>>}]
    /\ iPc \in [Indexers -> {"select", "write", "bulk", "report", "panic", "failed"}]
    /\ cause \in [Buffer -> [request : Seq(Line), failed : SUBSET Actions]]

\* Which variables refer to a buffer, by where the goroutines are.
HoldsBuffer ==
    /\ cPc = "send" => ref[Polled] # {} /\ msgBuf.buf = ref[Polled]
    /\ cPc # "send" => ref[Polled] = {}
    /\ cPc = "poll" => msgBuf.buf = {}
    /\ \A i \in Indexers : /\ iPc[i] \in {"select", "write", "bulk"} => ref[Batch(i)] # {}
                           /\ iPc[i] = "write" => ref[Msg(i)] # {}

\* What is in a pool is empty.
PoolsClean == \A p \in Pools : \A b \in ref[p] : content[b] = <<>>

\* The buffers of messages and of batches hold whole messages, each in one buffer only
\* and none of them still to be polled.
Holds(held) ==
    /\ held \in [Buffer -> Seq(Topic)]
    /\ \A b \in Buffer : IsInjective(held[b]) /\ ToSet(held[b]) \cap topic = {}
    /\ \A b, c \in Buffer : b # c => ToSet(held[b]) \cap ToSet(held[c]) = {}
    /\ \A p \in Passing \cup Batches : \A b \in ref[p] : content[b] = Payload(FlattenSeq(held[b]))
WholeMessages == \E held : Holds(held)

\* What parseESErrors has written for a request of two-line actions, wherever it is.
Exact(b) == (\A l \in ToSet(cause[b].request) : l[1] \notin OneLine) =>
               content[b] = LinesToRepublish(cause[b])
ErrorsExact == \A p \in Errors : \A b \in ref[p] : Exact(b)

\* The consumer's last message is in its buffer until that is Put.
SentIntact == \A p \in Passing : \A b \in msgBuf.buf \cap ref[p] : content[b] = Payload(msgBuf.msg)

IInv ==
    /\ Owned(ref) /\ Counts /\ DataOK /\ HoldsBuffer
    /\ PoolsClean /\ WholeMessages /\ ErrorsExact /\ SentIntact

-----------------------------------------------------------------------------
(* What the invariant implies, and the initial states                      *)

\* A set without two elements has at most one.
LEMMA SingleCard ==
  ASSUME NEW S, \A b, c \in S : b = c
  PROVE  IsFiniteSet(S) /\ Cardinality(S) <= 1
<1>1. CASE S = {}
  BY <1>1, FS_EmptySet
<1>2. CASE S # {}
  <2>1. PICK b : b \in S
    BY <1>2
  <2>2. S = {b}
    BY <2>1
  <2>3. IsFiniteSet({b}) /\ Cardinality({b}) = 1
    BY FS_Singleton
  <2> QED
    BY <2>2, <2>3
<1> QED
  BY <1>1, <1>2

\* What the invariant says in the terms of the properties that the runs check.
LEMMA Consequences ==
  IInv => TypeOK /\ BatchesAreWhole /\ FailedLinesExact /\ TraceSeesMessageUntilPut
<1> SUFFICES ASSUME IInv PROVE TypeOK /\ BatchesAreWhole /\ FailedLinesExact /\ TraceSeesMessageUntilPut
  OBVIOUS
<1> USE KindFacts
<1>1. TypeOK
  <2>1. ref \in [Places -> SUBSET Buffer]
    BY DEF IInv, Owned
  <2>2. \A p \in Hands \ {ConsumerChan, ErrorChan} : Cardinality(ref[p]) <= 1
    BY SingleCard DEF IInv, Counts, SingleAt
  <2> QED
    BY <2>1, <2>2 DEF IInv, Counts, BoundedAt, DataOK, TypeOK
<1>2. BatchesAreWhole
  <2>1. PICK held : Holds(held)
    BY DEF IInv, WholeMessages
  <2> SUFFICES ASSUME NEW i \in Indexers, NEW b \in Buffer, b \in ref[Batch(i)]
               PROVE  LET p == content[b] IN
                      /\ p = Payload(ActionsOf(p))
                      /\ IsInjective(ActionsOf(p))
                      /\ \A m \in Topic : ToSet(m) \cap ToSet(ActionsOf(p)) # {} =>
                           \E k \in 0 .. Len(p) : IsPrefix(Payload(m), SubSeq(p, k + 1, Len(p)))
    BY DEF BatchesAreWhole
  <2>2. held[b] \in Seq(Topic) /\ IsInjective(held[b]) /\ content[b] = Payload(FlattenSeq(held[b]))
    BY <2>1 DEF Holds
  <2> QED
    BY <2>2, WholeRequest
<1>3. FailedLinesExact
  BY DEF IInv, ErrorsExact, Exact, FailedLinesExact
<1>4. TraceSeesMessageUntilPut
  BY DEF IInv, SentIntact, TraceSeesMessageUntilPut
<1> QED
  BY <1>1, <1>2, <1>3, <1>4

\* Only the batches have a buffer, and it is empty.
LEMMA IInvInit == Init => IInv
<1> SUFFICES ASSUME Init PROVE IInv
  OBVIOUS
<1> USE KindFacts, BuffersAssumption DEF BuffersAssumption
<1>1. Owned(ref)
  BY OwnedInit
<1>2. PICK f \in [Indexers -> Buffer] :
         ref = [p \in Places |-> IF p[1] = "buffer" THEN {f[p[2]]} ELSE {}]
  BY DEF Init
<1>3. /\ \A i \in Indexers : ref[Batch(i)] = {f[i]}
      /\ \A p \in Passing \cup Errors \cup Pools : ref[p] = {}
  <2>1. \A p \in Passing \cup Errors \cup Pools : p[1] # "buffer"
    BY DEF Passing, Errors, Pools, MsgPool, BulkPool, Polled, ConsumerChan, ErrorChan, ProdMsg,
           Msg, Out
  <2>2. \A i \in Indexers : Batch(i)[1] = "buffer" /\ Batch(i)[2] = i
    BY DEF Batch
  <2> QED
    BY <1>2, <2>1, <2>2
<1>4. Counts
  <2>1. \A p \in Hands : SingleAt(p)
    BY <1>3 DEF SingleAt, Batches
  <2>2. IsFiniteSet({}) /\ Cardinality({}) = 0
    BY FS_EmptySet
  <2>3. ref[ConsumerChan] = {} /\ ref[ErrorChan] = {}
    BY <1>3
  <2>4. 0 <= ChanCap
    OBVIOUS
  <2>5. BoundedAt(ConsumerChan) /\ BoundedAt(ErrorChan)
    BY <2>2, <2>3, <2>4, Zenon DEF BoundedAt
  <2> QED
    BY <2>1, <2>5 DEF Counts
<1>5. DataOK
  BY DEF Init, DataOK, NoMsgBuf, NoCause
<1>6. HoldsBuffer
  <2>1. cPc = "poll" /\ msgBuf.buf = {}
    BY DEF Init, NoMsgBuf
  <2>2. ref[Polled] = {} /\ \A i \in Indexers : ref[Batch(i)] # {} /\ iPc[i] = "select"
    <3>1. ref[Polled] = {} /\ \A i \in Indexers : ref[Batch(i)] # {}
      BY <1>3
    <3>2. \A i \in Indexers : iPc[i] = "select"
      BY DEF Init
    <3> QED
      BY <3>1, <3>2
  <2> QED
    BY <2>1, <2>2 DEF HoldsBuffer
<1>7. PoolsClean /\ ErrorsExact /\ SentIntact
  BY <1>3 DEF PoolsClean, ErrorsExact, SentIntact
<1>8. WholeMessages
  <2> DEFINE none == [b \in Buffer |-> <<>>]
  <2>1. none \in [Buffer -> Seq(Topic)] /\ IsInjective(<<>>) /\ ToSet(<<>>) = {}
    BY EmptySeq DEF IsInjective, ToSet
  <2>2. Payload(FlattenSeq(<<>>)) = <<>>
    BY PayloadEmpty, FlattenEmpty
  <2>3. \A p \in Places : ref[p] \subseteq Buffer
    BY <1>1 DEF Owned
  <2>4. Holds(none)
    BY <2>1, <2>2, <2>3 DEF Holds, Init
  <2> QED
    BY <2>4 DEF WholeMessages
<1> QED
  BY <1>1, <1>4, <1>5, <1>6, <1>7, <1>8 DEF IInv

\* Steps that only move the buffers of messages, of batches or of errors.
PassingKept == \A p \in Passing : \A b \in ref'[p] :
                 content'[b] = content[b] /\ \E q \in Passing : b \in ref[q]
BatchesKept == \A p \in Batches : \A b \in ref'[p] : content'[b] = content[b] /\ b \in ref[p]
ErrorsKept == \A p \in Errors : \A b \in ref'[p] :
                /\ content'[b] = content[b] /\ cause'[b] = cause[b]
                /\ \E q \in Errors : b \in ref[q]

\* Buffers of messages that are only moved still hold whole messages.
LEMMA KeptWhole ==
  ASSUME WholeMessages, PassingKept, BatchesKept, topic' \subseteq topic
  PROVE  WholeMessages'
<1>1. PICK held : Holds(held)
  BY DEF WholeMessages
<1>2. Holds(held)'
  <2>1. \A b \in Buffer : ToSet(held[b]) \cap topic' = {}
    BY <1>1 DEF Holds
  <2>2. \A p \in Passing \cup Batches : \A b \in ref'[p] : content'[b] = Payload(FlattenSeq(held[b]))
    BY <1>1 DEF Holds, PassingKept, BatchesKept
  <2> QED
    BY <1>1, <2>1, <2>2 DEF Holds
<1> QED
  BY <1>2 DEF WholeMessages

\* Error messages that are only moved are still exact.
LEMMA KeptErrors ==
  ASSUME ErrorsExact, ErrorsKept
  PROVE  ErrorsExact'
  BY DEF ErrorsExact, ErrorsKept, Exact

\* A message that is only moved is still the one that was sent.
LEMMA KeptSent ==
  ASSUME SentIntact, PassingKept, msgBuf' = msgBuf \/ msgBuf'.buf = {}
  PROVE  SentIntact'
  BY DEF SentIntact, PassingKept

\* Ownership, as the steps below use it.
LEMMA RefFacts ==
  ASSUME Owned(ref)
  PROVE  /\ ref \in [Places -> SUBSET Buffer]
         /\ \A p, q \in Places : p # q => ref[p] \cap ref[q] = {}
         /\ \A p, q \in Places : \A b : b \in ref[p] /\ b \in ref[q] => p = q
  BY DEF Owned, Exclusive

\* A channel with room for one more has room for what a variable refers to.
LEMMA AddOne ==
  ASSUME NEW S, IsFiniteSet(S), Cardinality(S) < ChanCap, NEW T, \A b, c \in T : b = c
  PROVE  IsFiniteSet(S \cup T) /\ Cardinality(S \cup T) <= ChanCap
<1>0. Cardinality(S) \in Nat /\ ChanCap \in Nat
  BY FS_CardinalityType, BuffersAssumption DEF BuffersAssumption
<1>1. CASE T = {}
  <2>1. S \cup T = S
    BY <1>1
  <2> QED
    BY <1>0, <2>1
<1>2. CASE T # {}
  <2>1. PICK b : b \in T
    BY <1>2
  <2>2. T = {b}
    BY <2>1
  <2>3. /\ IsFiniteSet(S \cup {b})
        /\ Cardinality(S \cup {b}) = IF b \in S THEN Cardinality(S) ELSE Cardinality(S) + 1
    BY FS_AddElement
  <2> QED
    BY <1>0, <2>2, <2>3
<1> QED
  BY <1>1, <1>2

\* A channel from which something was received is within its bound.
LEMMA RemoveOne ==
  ASSUME NEW S, IsFiniteSet(S), Cardinality(S) <= ChanCap, NEW b
  PROVE  IsFiniteSet(S \ {b}) /\ Cardinality(S \ {b}) <= ChanCap
<1>0. Cardinality(S) \in Nat /\ ChanCap \in Nat
  BY FS_CardinalityType, BuffersAssumption DEF BuffersAssumption
<1>1. /\ IsFiniteSet(S \ {b})
      /\ Cardinality(S \ {b}) = IF b \in S THEN Cardinality(S) - 1 ELSE Cardinality(S)
  BY FS_RemoveElement
<1> QED
  BY <1>0, <1>1

\* A buffer from a pool has no text.
LEMMA GetIsEmpty ==
  ASSUME PoolsClean, NEW pool \in Pools, NEW b
  PROVE  TextOf(pool, b) = <<>>
  BY DEF PoolsClean, TextOf

\* The text of the buffer that a variable refers to.
LEMMA TextAtIs ==
  ASSUME NEW p, SingleAt(p), NEW b \in ref[p]
  PROVE  TextAt(p) = content[b] /\ ref[p] = {b}
<1>1. ref[p] = {b}
  BY DEF SingleAt
<1> QED
  BY <1>1 DEF TextAt

-----------------------------------------------------------------------------
(* The steps                                                               *)

\* The message moves from the consumer to the channel.
LEMMA ConsumerSendStep == IInv /\ ConsumerSend => IInv'
<1> SUFFICES ASSUME IInv, ConsumerSend PROVE IInv'
  OBVIOUS
<1> USE KindFacts
<1>1. Owned(ref)'
  BY OwnedStep DEF IInv, Next
<1>2. ref \in [Places -> SUBSET Buffer]
  BY RefFacts DEF IInv
<1>3. \A x \in Places : ref'[x] = IF x = Polled THEN {}
                                  ELSE IF x = ConsumerChan THEN ref[ConsumerChan] \cup ref[Polled]
                                  ELSE ref[x]
  <2>1. Polled \in Places /\ ConsumerChan \in Places /\ Polled # ConsumerChan
    OBVIOUS
  <2> QED
    BY <1>2, <2>1 DEF GiveTo, ConsumerSend
<1>4. Counts'
  <2>1. \A p \in Hands \ {ConsumerChan, ErrorChan} : SingleAt(p)'
    BY <1>3 DEF SingleAt, IInv, Counts
  <2>2. BoundedAt(ConsumerChan)'
    <3>1. IsFiniteSet(ref[ConsumerChan]) /\ Cardinality(ref[ConsumerChan]) < ChanCap
      BY DEF ConsumerSend, CanSend, IInv, Counts, BoundedAt
    <3>2. \A b, c \in ref[Polled] : b = c
      BY DEF IInv, Counts, SingleAt
    <3>3. ref'[ConsumerChan] = ref[ConsumerChan] \cup ref[Polled]
      BY <1>3
    <3> QED
      BY <3>1, <3>2, <3>3, AddOne, SMTT(30) DEF BoundedAt
  <2>3. BoundedAt(ErrorChan)'
    BY <1>3 DEF BoundedAt, IInv, Counts
  <2> QED
    BY <2>1, <2>2, <2>3 DEF Counts
<1>5. DataOK'
  BY BuffersAssumption DEF BuffersAssumption, ConsumerSend, IInv, DataOK, NoMsgBuf
<1>6. HoldsBuffer'
  <2>1. cPc' # "send" /\ (cPc' = "poll" => msgBuf'.buf = {})
    BY DEF ConsumerSend, NoMsgBuf
  <2>2. \A i \in Indexers : ref'[Batch(i)] = ref[Batch(i)] /\ ref'[Msg(i)] = ref[Msg(i)]
    BY <1>3
  <2>3. iPc' = iPc
    BY DEF ConsumerSend
  <2>4. ref'[Polled] = {}
    BY <1>3
  <2> QED
    BY <2>1, <2>2, <2>3, <2>4 DEF IInv, HoldsBuffer
<1>7. PassingKept /\ BatchesKept /\ ErrorsKept
  BY <1>3 DEF ConsumerSend, PassingKept, BatchesKept, ErrorsKept
<1>8. PoolsClean'
  BY <1>3 DEF ConsumerSend, PoolsClean, IInv
<1>9. topic' \subseteq topic /\ (msgBuf' = msgBuf \/ msgBuf'.buf = {})
  BY DEF ConsumerSend, NoMsgBuf
<1> QED
  BY <1>1, <1>4, <1>5, <1>6, <1>7, <1>8, <1>9, KeptWhole, KeptErrors, KeptSent DEF IInv

\* Nothing moves.
LEMMA ConsumerTraceStep == IInv /\ ConsumerTrace => IInv'
<1> SUFFICES ASSUME IInv, ConsumerTrace PROVE IInv'
  OBVIOUS
<1>1. Owned(ref)' /\ Counts' /\ PoolsClean' /\ WholeMessages' /\ ErrorsExact'
  <2> USE DEF IInv, ConsumerTrace
  <2>1. Owned(ref)' /\ PoolsClean'
    BY DEF PoolsClean
  <2>2. Counts'
    BY DEF Counts, SingleAt, BoundedAt
  <2>3. WholeMessages' /\ ErrorsExact'
    BY DEF WholeMessages, Holds, ErrorsExact, Exact
  <2> QED
    BY <2>1, <2>2, <2>3
<1>2. DataOK'
  BY DEF IInv, ConsumerTrace, DataOK, NoMsgBuf
<1>3. msgBuf'.buf = {}
  BY DEF ConsumerTrace, NoMsgBuf
<1>4. HoldsBuffer' /\ SentIntact'
  BY <1>3 DEF IInv, ConsumerTrace, HoldsBuffer, SentIntact
<1> QED
  BY <1>1, <1>2, <1>4 DEF IInv

\* The message moves from the channel to an indexer.
LEMMA IndexerRecvStep == ASSUME IInv, NEW i \in Indexers, IndexerRecv(i) PROVE IInv'
<1> USE KindFacts
<1>1. Owned(ref)'
  BY OwnedStep DEF IInv, Next, Indexer
<1>2. ref \in [Places -> SUBSET Buffer]
  BY RefFacts DEF IInv
<1>3. PICK b \in ref[ConsumerChan] : ref' = RecvTo(ref, ConsumerChan, b, Msg(i))
  BY DEF IndexerRecv
<1>4. \A x \in Places : ref'[x] = IF x = Msg(i) THEN {b}
                                  ELSE IF x = ConsumerChan THEN ref[ConsumerChan] \ {b}
                                  ELSE ref[x]
  <2>1. Msg(i) \in Places /\ ConsumerChan \in Places /\ Msg(i) # ConsumerChan
    OBVIOUS
  <2> QED
    BY <1>2, <1>3, <2>1 DEF RecvTo
<1>5. Counts'
  <2>1. \A p \in Hands \ {ConsumerChan, ErrorChan} : SingleAt(p)'
    BY <1>4 DEF SingleAt, IInv, Counts
  <2>2. BoundedAt(ConsumerChan)'
    <3>1. IsFiniteSet(ref[ConsumerChan]) /\ Cardinality(ref[ConsumerChan]) <= ChanCap
      BY DEF IInv, Counts, BoundedAt
    <3>2. IsFiniteSet(ref[ConsumerChan] \ {b}) /\ Cardinality(ref[ConsumerChan] \ {b}) <= ChanCap
      BY <3>1, RemoveOne
    <3>3. ref'[ConsumerChan] = ref[ConsumerChan] \ {b}
      BY <1>4
    <3> QED
      BY <3>2, <3>3, Zenon DEF BoundedAt
  <2>3. BoundedAt(ErrorChan)'
    BY <1>4 DEF BoundedAt, IInv, Counts
  <2> QED
    BY <2>1, <2>2, <2>3 DEF Counts
<1>6. DataOK'
  BY DEF IndexerRecv, Goto, IInv, DataOK
<1>7. HoldsBuffer'
  <2>1. ref'[Polled] = ref[Polled] /\ ref'[Msg(i)] = {b}
    BY <1>4
  <2>2. \A j \in Indexers : /\ ref'[Batch(j)] = ref[Batch(j)]
                            /\ j # i => ref'[Msg(j)] = ref[Msg(j)] /\ iPc'[j] = iPc[j]
    BY <1>4, OwnPlaces DEF IndexerRecv, Goto, IInv, DataOK
  <2>3. iPc[i] = "select" /\ msgBuf' = msgBuf /\ cPc' = cPc
    BY DEF IndexerRecv
  <2> QED
    BY <2>1, <2>2, <2>3 DEF IInv, HoldsBuffer
<1>8. PassingKept /\ BatchesKept /\ ErrorsKept
  BY <1>4 DEF IndexerRecv, PassingKept, BatchesKept, ErrorsKept
<1>9. PoolsClean'
  BY <1>4 DEF IndexerRecv, PoolsClean, IInv
<1>10. topic' \subseteq topic /\ msgBuf' = msgBuf
  BY DEF IndexerRecv
<1> QED
  BY <1>1, <1>5, <1>6, <1>7, <1>8, <1>9, <1>10, KeptWhole, KeptErrors, KeptSent DEF IInv

\* Nothing moves.
LEMMA SendToESStep == ASSUME IInv, NEW i \in Indexers, SendToES(i) PROVE IInv'
<1>1. Owned(ref)' /\ PoolsClean' /\ Counts'
  BY DEF IInv, SendToES, PoolsClean, Counts, SingleAt, BoundedAt
<1>2. WholeMessages' /\ ErrorsExact' /\ SentIntact'
  BY DEF IInv, SendToES, WholeMessages, Holds, ErrorsExact, Exact, SentIntact
<1>3. DataOK'
  BY DEF IInv, SendToES, Goto, DataOK
<1>4. HoldsBuffer'
  BY DEF IInv, SendToES, Goto, HoldsBuffer, DataOK
<1> QED
  BY <1>1, <1>2, <1>3, <1>4 DEF IInv

\* The indexer's buffers are left to the garbage collector.
LEMMA IndexerFailsStep == ASSUME IInv, NEW i \in Indexers, IndexerFails(i) PROVE IInv'
<1> USE KindFacts
<1>1. Owned(ref)'
  BY OwnedStep DEF IInv, Next, Indexer
<1>2. ref \in [Places -> SUBSET Buffer]
  BY RefFacts DEF IInv
<1>3. \A x \in Places : ref'[x] = IF x \in {Msg(i), Batch(i)} THEN {} ELSE ref[x]
  BY <1>2 DEF IndexerFails
<1>4. content' = content /\ cause' = cause /\ cPc' = cPc /\ msgBuf' = msgBuf /\ topic' = topic
  BY DEF IndexerFails
<1>5. Counts'
  <2>1. \A p \in Hands \ {ConsumerChan, ErrorChan} : SingleAt(p)'
    BY <1>3 DEF SingleAt, IInv, Counts
  <2>2. BoundedAt(ErrorChan)' /\ BoundedAt(ConsumerChan)'
    BY <1>3 DEF BoundedAt, IInv, Counts
  <2> QED
    BY <2>1, <2>2 DEF Counts
<1>6. DataOK'
  BY DEF IndexerFails, Goto, IInv, DataOK
<1>7. HoldsBuffer'
  <2>1. ref'[Polled] = ref[Polled]
    BY <1>3
  <2>2. \A j \in Indexers : j # i => /\ ref'[Msg(j)] = ref[Msg(j)]
                                    /\ ref'[Batch(j)] = ref[Batch(j)] /\ iPc'[j] = iPc[j]
    BY <1>3, OwnPlaces DEF IndexerFails, Goto, IInv, DataOK
  <2>3. iPc'[i] = "failed"
    BY DEF IndexerFails, Goto, IInv, DataOK
  <2> QED
    BY <1>4, <2>1, <2>2, <2>3 DEF IInv, HoldsBuffer
<1>8. PassingKept /\ BatchesKept /\ ErrorsKept
  BY <1>3, <1>4 DEF PassingKept, BatchesKept, ErrorsKept
<1>9. PoolsClean'
  BY <1>3, <1>4 DEF PoolsClean, IInv
<1> QED
  BY <1>1, <1>4, <1>5, <1>6, <1>7, <1>8, <1>9, KeptWhole, KeptErrors, KeptSent DEF IInv

\* The batch is reset and returned to its pool.
LEMMA NoErrorsFoundStep == ASSUME IInv, NEW i \in Indexers, NoErrorsFound(i) PROVE IInv'
<1> USE KindFacts
<1>1. Owned(ref)'
  BY OwnedStep DEF IInv, Next, Indexer
<1>2. /\ ref \in [Places -> SUBSET Buffer]
      /\ \A p, q \in Places : \A b : b \in ref[p] /\ b \in ref[q] => p = q
  BY RefFacts DEF IInv
<1>3. \A x \in Places : ref'[x] = IF x = Batch(i) THEN {}
                                  ELSE IF x = BulkPool THEN ref[BulkPool] \cup ref[Batch(i)]
                                  ELSE ref[x]
  <2>1. Batch(i) \in Places /\ BulkPool \in Places /\ Batch(i) # BulkPool
    OBVIOUS
  <2> QED
    BY <1>2, <2>1 DEF GiveTo, NoErrorsFound
<1>4. \A b \in Buffer : content'[b] = IF b \in ref[Batch(i)] THEN <<>> ELSE content[b]
  BY DEF NoErrorsFound, Reset
<1>5. Counts'
  <2>1. \A p \in Hands \ {ConsumerChan, ErrorChan} : SingleAt(p)'
    BY <1>3 DEF SingleAt, IInv, Counts
  <2>2. BoundedAt(ErrorChan)' /\ BoundedAt(ConsumerChan)'
    BY <1>3 DEF BoundedAt, IInv, Counts
  <2> QED
    BY <2>1, <2>2 DEF Counts
<1>6. DataOK'
  BY EmptySeq DEF NoErrorsFound, Goto, Reset, IInv, DataOK
<1>7. HoldsBuffer'
  <2>1. ref'[Polled] = ref[Polled]
    BY <1>3
  <2>2. \A j \in Indexers : /\ ref'[Msg(j)] = ref[Msg(j)]
                            /\ j # i => ref'[Batch(j)] = ref[Batch(j)] /\ iPc'[j] = iPc[j]
    BY <1>3, OwnPlaces DEF NoErrorsFound, Goto, IInv, DataOK
  <2>3. iPc'[i] = "report" /\ msgBuf' = msgBuf /\ cPc' = cPc
    BY DEF NoErrorsFound, Goto, IInv, DataOK
  <2> QED
    BY <2>1, <2>2, <2>3 DEF IInv, HoldsBuffer
<1>8. PassingKept /\ BatchesKept /\ ErrorsKept
  BY <1>2, <1>3, <1>4 DEF NoErrorsFound, PassingKept, BatchesKept, ErrorsKept
<1>9. PoolsClean'
  BY <1>2, <1>3, <1>4 DEF PoolsClean, IInv
<1>10. topic' \subseteq topic /\ msgBuf' = msgBuf
  BY DEF NoErrorsFound
<1> QED
  BY <1>1, <1>5, <1>6, <1>7, <1>8, <1>9, <1>10, KeptWhole, KeptErrors, KeptSent DEF IInv

\* The error message moves from the channel to the producer.
LEMMA ProducerRecvStep == ASSUME IInv, ProducerRecv PROVE IInv'
<1> USE KindFacts
<1>1. Owned(ref)'
  BY OwnedStep DEF IInv, Next
<1>2. ref \in [Places -> SUBSET Buffer]
  BY RefFacts DEF IInv
<1>3. PICK b \in ref[ErrorChan] : ref' = RecvTo(ref, ErrorChan, b, ProdMsg)
  BY DEF ProducerRecv
<1>4. \A x \in Places : ref'[x] = IF x = ProdMsg THEN {b}
                                  ELSE IF x = ErrorChan THEN ref[ErrorChan] \ {b}
                                  ELSE ref[x]
  <2>1. ProdMsg \in Places /\ ErrorChan \in Places /\ ProdMsg # ErrorChan
    OBVIOUS
  <2> QED
    BY <1>2, <1>3, <2>1 DEF RecvTo
<1>5. Counts'
  <2>1. \A p \in Hands \ {ConsumerChan, ErrorChan} : SingleAt(p)'
    BY <1>4 DEF SingleAt, IInv, Counts
  <2>2. BoundedAt(ErrorChan)'
    <3>1. IsFiniteSet(ref[ErrorChan]) /\ Cardinality(ref[ErrorChan]) <= ChanCap
      BY DEF IInv, Counts, BoundedAt
    <3>2. IsFiniteSet(ref[ErrorChan] \ {b}) /\ Cardinality(ref[ErrorChan] \ {b}) <= ChanCap
      BY <3>1, RemoveOne
    <3>3. ref'[ErrorChan] = ref[ErrorChan] \ {b}
      BY <1>4
    <3> QED
      BY <3>2, <3>3, Zenon DEF BoundedAt
  <2>3. BoundedAt(ConsumerChan)'
    BY <1>4 DEF BoundedAt, IInv, Counts
  <2> QED
    BY <2>1, <2>2, <2>3 DEF Counts
<1>6. DataOK'
  BY DEF ProducerRecv, IInv, DataOK
<1>7. HoldsBuffer'
  <2>1. ref'[Polled] = ref[Polled]
    BY <1>4
  <2>2. \A j \in Indexers : ref'[Batch(j)] = ref[Batch(j)] /\ ref'[Msg(j)] = ref[Msg(j)]
    BY <1>4
  <2> QED
    BY <2>1, <2>2 DEF IInv, HoldsBuffer, ProducerRecv
<1>8. PassingKept /\ BatchesKept /\ ErrorsKept
  BY <1>4 DEF ProducerRecv, PassingKept, BatchesKept, ErrorsKept
<1>9. PoolsClean'
  BY <1>4 DEF ProducerRecv, PoolsClean, IInv
<1>10. topic' \subseteq topic /\ msgBuf' = msgBuf
  BY DEF ProducerRecv
<1> QED
  BY <1>1, <1>5, <1>6, <1>7, <1>8, <1>9, <1>10, KeptWhole, KeptErrors, KeptSent DEF IInv

\* The error message is reset and returned to its pool.
LEMMA ProduceStep == ASSUME IInv, Produce PROVE IInv'
<1> USE KindFacts
<1>1. Owned(ref)'
  BY OwnedStep DEF IInv, Next
<1>2. /\ ref \in [Places -> SUBSET Buffer]
      /\ \A p, q \in Places : \A b : b \in ref[p] /\ b \in ref[q] => p = q
  BY RefFacts DEF IInv
<1>3. \A x \in Places : ref'[x] = IF x = ProdMsg THEN {}
                                  ELSE IF x = MsgPool THEN ref[MsgPool] \cup ref[ProdMsg]
                                  ELSE ref[x]
  <2>1. ProdMsg \in Places /\ MsgPool \in Places /\ ProdMsg # MsgPool
    OBVIOUS
  <2> QED
    BY <1>2, <2>1 DEF GiveTo, Produce
<1>4. \A b \in Buffer : /\ content'[b] = IF b \in ref[ProdMsg] THEN <<>> ELSE content[b]
                        /\ cause'[b] = IF b \in ref[ProdMsg] THEN NoCause ELSE cause[b]
  BY DEF Produce, Reset, Forget
<1>5. Counts'
  <2>1. \A p \in Hands \ {ConsumerChan, ErrorChan} : SingleAt(p)'
    BY <1>3 DEF SingleAt, IInv, Counts
  <2>2. BoundedAt(ErrorChan)' /\ BoundedAt(ConsumerChan)'
    BY <1>3 DEF BoundedAt, IInv, Counts
  <2> QED
    BY <2>1, <2>2 DEF Counts
<1>6. DataOK'
  BY EmptySeq DEF Produce, Reset, Forget, NoCause, IInv, DataOK
<1>7. HoldsBuffer'
  <2>1. ref'[Polled] = ref[Polled]
    BY <1>3
  <2>2. \A j \in Indexers : ref'[Batch(j)] = ref[Batch(j)] /\ ref'[Msg(j)] = ref[Msg(j)]
    BY <1>3
  <2> QED
    BY <2>1, <2>2 DEF IInv, HoldsBuffer, Produce
<1>8. PassingKept /\ BatchesKept /\ ErrorsKept
  BY <1>2, <1>3, <1>4 DEF PassingKept, BatchesKept, ErrorsKept
<1>9. PoolsClean'
  BY <1>2, <1>3, <1>4 DEF PoolsClean, IInv
<1>10. topic' \subseteq topic /\ msgBuf' = msgBuf
  BY DEF Produce
<1> QED
  BY <1>1, <1>5, <1>6, <1>7, <1>8, <1>9, <1>10, KeptWhole, KeptErrors, KeptSent DEF IInv

\* A buffer with a single message.
LEMMA OneMessage ==
  ASSUME NEW m \in Topic
  PROVE  /\ <<m>> \in Seq(Topic) /\ IsInjective(<<m>>) /\ ToSet(<<m>>) = {m}
         /\ FlattenSeq(<<m>>) = m
<1>1. m \in Seq(Actions) /\ <<>> \in Seq(Seq(Actions)) /\ <<m>> = Append(<<>>, m)
  BY BuffersAssumption DEF BuffersAssumption
<1>2. FlattenSeq(<<m>>) = <<>> \o m
  BY <1>1, FlattenAppend, FlattenEmpty
<1>3. <<>> \o m = m
  BY <1>1, ConcatEmptySeq
<1>4. <<m>> \in Seq(Topic) /\ IsInjective(<<m>>) /\ ToSet(<<m>>) = {m}
  BY DEF IsInjective, ToSet
<1> QED
  BY <1>2, <1>3, <1>4

\* A free buffer, empty as all are in the pool, holds the polled message, or goes back.
LEMMA ConsumerCopyStep == ASSUME IInv, ConsumerCopy PROVE IInv'
<1> USE KindFacts
<1>1. Owned(ref)'
  BY OwnedStep DEF IInv, Next
<1>2. /\ ref \in [Places -> SUBSET Buffer]
      /\ \A p, q \in Places : \A b : b \in ref[p] /\ b \in ref[q] => p = q
  BY RefFacts DEF IInv
<1>3. PICK m \in topic, b \in Buffer :
        /\ Get(MsgPool, b)
        /\ topic' = topic \ {m}
        /\ \/ /\ ref' = GetTo(ref, b, Polled)
              /\ content' = [content EXCEPT ![b] = TextOf(MsgPool, b) \o Payload(m)]
              /\ msgBuf' = [buf |-> {b}, msg |-> m]
              /\ cPc' = "send"
           \/ /\ ref' = GiveTo(GetTo(ref, b, Polled), Polled, MsgPool)
              /\ content' = Reset({b})
              /\ UNCHANGED <<cPc, msgBuf>>
  BY DEF ConsumerCopy
<1>4. \A q \in Hands : b \notin ref[q]
  BY <1>3, GetIsFree DEF IInv
<1>5. m \in Topic /\ m \in Seq(Actions) /\ Payload(m) \in Seq(Line)
  BY PayloadType, BuffersAssumption DEF BuffersAssumption, IInv, DataOK
<1>6. cPc = "poll" /\ iPc' = iPc /\ cause' = cause /\ topic' \subseteq topic
  BY <1>3 DEF ConsumerCopy
<1>7. ref[Polled] = {} /\ msgBuf.buf = {}
  BY <1>6 DEF IInv, HoldsBuffer
<1>8. CASE /\ ref' = GetTo(ref, b, Polled)
           /\ content' = [content EXCEPT ![b] = TextOf(MsgPool, b) \o Payload(m)]
           /\ msgBuf' = [buf |-> {b}, msg |-> m]
           /\ cPc' = "send"
  <2>1. \A x \in Places : ref'[x] = IF x = Polled THEN {b}
                                    ELSE IF x \in Pools THEN ref[x] \ {b} ELSE ref[x]
    BY <1>2, <1>8 DEF GetTo, Pools
  <2>2. content' = [content EXCEPT ![b] = Payload(m)]
    <3>1. TextOf(MsgPool, b) = <<>>
      BY GetIsEmpty DEF IInv
    <3>2. <<>> \o Payload(m) = Payload(m)
      BY <1>5, ConcatEmptySeq
    <3> QED
      BY <1>8, <3>1, <3>2
  <2>3. \A c \in Buffer : content'[c] = IF c = b THEN Payload(m) ELSE content[c]
    BY <2>2 DEF IInv, DataOK
  <2>4. Counts'
    <3>1. \A p \in Hands \ {ConsumerChan, ErrorChan} : SingleAt(p)'
      BY <2>1 DEF SingleAt, IInv, Counts
    <3>2. BoundedAt(ErrorChan)' /\ BoundedAt(ConsumerChan)'
      BY <2>1 DEF BoundedAt, IInv, Counts
    <3> QED
      BY <3>1, <3>2 DEF Counts
  <2>5. DataOK'
    <3>1. Payload(m) \in Seq(Line \cup {EmptyLine})
      BY <1>5, SeqMonotonic
    <3>2. content' \in [Buffer -> Seq(Line \cup {EmptyLine})]
      BY <2>2, <3>1 DEF IInv, DataOK
    <3> QED
      BY <1>5, <1>6, <1>8, <3>2 DEF IInv, DataOK
  <2>6. HoldsBuffer'
    <3>1. msgBuf'.buf = {b} /\ ref'[Polled] = {b}
      BY <1>8, <2>1
    <3>2. \A j \in Indexers : ref'[Batch(j)] = ref[Batch(j)] /\ ref'[Msg(j)] = ref[Msg(j)]
      BY <2>1
    <3> QED
      BY <1>6, <1>8, <3>1, <3>2 DEF IInv, HoldsBuffer
  <2>7. PoolsClean'
    <3>1. \A p \in Pools : ref'[p] = ref[p] \ {b} /\ ref[p] \subseteq Buffer
      BY <1>2, <2>1
    <3> QED
      BY <2>3, <3>1 DEF PoolsClean, IInv
  <2>8. WholeMessages'
    <3>1. PICK held : Holds(held)
      BY DEF IInv, WholeMessages
    <3> DEFINE new == [held EXCEPT ![b] = <<m>>]
    <3>2. /\ new \in [Buffer -> Seq(Topic)]
          /\ \A c \in Buffer : new[c] = IF c = b THEN <<m>> ELSE held[c]
      BY <1>5, <3>1, OneMessage DEF Holds
    <3> HIDE DEF new
    <3>3. \A c \in Buffer : IsInjective(new[c]) /\ ToSet(new[c]) \cap topic' = {}
      BY <1>3, <1>5, <3>1, <3>2, OneMessage DEF Holds
    <3>4. \A c, d \in Buffer : c # d => ToSet(new[c]) \cap ToSet(new[d]) = {}
      <4>1. \A c \in Buffer : m \notin ToSet(held[c])
        BY <3>1 DEF Holds
      <4>2. ToSet(<<m>>) = {m}
        BY <1>5, OneMessage
      <4> QED
        BY <3>1, <3>2, <4>1, <4>2, SMTT(30) DEF Holds
    <3>5. ASSUME NEW p \in Passing \cup Batches, NEW c \in ref'[p]
          PROVE  content'[c] = Payload(FlattenSeq(new[c]))
      <4>1. CASE p = Polled
        <5>1. c = b /\ new[b] = <<m>> /\ FlattenSeq(<<m>>) = m
          <6>1. FlattenSeq(<<m>>) = m
            BY <1>5, OneMessage
          <6>2. c = b
            BY <2>1, <3>5, <4>1
          <6> QED
            BY <3>2, <6>1, <6>2
        <5> QED
          BY <2>3, <5>1
      <4>2. CASE p # Polled
        <5>1. c \in ref[p] /\ p \in Hands /\ c \in Buffer
          BY <1>2, <2>1, <4>2
        <5>2. c # b
          BY <1>4, <5>1
        <5> QED
          BY <2>3, <3>1, <3>2, <5>1, <5>2 DEF Holds
      <4> QED
        BY <4>1, <4>2
    <3>6. Holds(new)'
      <4>1. new' = new
        BY DEF new
      <4> QED
        BY <3>2, <3>3, <3>4, <3>5 DEF Holds
    <3> QED
      BY <3>6 DEF WholeMessages
  <2>9. ErrorsKept
    BY <1>2, <1>4, <1>6, <2>1, <2>3, ZenonT(40) DEF ErrorsKept
  <2>10. SentIntact'
    <3>1. msgBuf'.buf = {b} /\ msgBuf'.msg = m
      BY <1>8
    <3> QED
      BY <2>3, <3>1 DEF SentIntact
  <2> QED
    BY <1>1, <2>4, <2>5, <2>6, <2>7, <2>8, <2>9, <2>10, KeptErrors DEF IInv
<1>9. CASE /\ ref' = GiveTo(GetTo(ref, b, Polled), Polled, MsgPool)
           /\ content' = Reset({b})
           /\ UNCHANGED <<cPc, msgBuf>>
  <2>1. \A x \in Places : ref'[x] = IF x = MsgPool THEN ref[x] \cup {b}
                                    ELSE IF x = BulkPool THEN ref[x] \ {b} ELSE ref[x]
    <3> DEFINE r == GetTo(ref, b, Polled)
    <3>1. /\ r \in [Places -> SUBSET Buffer]
          /\ \A x \in Places : r[x] = IF x = Polled THEN {b}
                                      ELSE IF x \in Pools THEN ref[x] \ {b} ELSE ref[x]
      BY <1>2 DEF GetTo, Pools
    <3> HIDE DEF r
    <3>2. \A x \in Places : ref'[x] = IF x = Polled THEN {}
                                      ELSE IF x = MsgPool THEN r[MsgPool] \cup r[Polled] ELSE r[x]
      <4>1. Polled \in Places /\ MsgPool \in Places /\ Polled # MsgPool
        OBVIOUS
      <4> QED
        BY <1>9, <3>1, <4>1 DEF GiveTo, r
    <3> QED
      BY <1>7, <3>1, <3>2 DEF Pools
  <2>2. \A c \in Buffer : content'[c] = IF c = b THEN <<>> ELSE content[c]
    BY <1>9 DEF Reset
  <2>3. Counts'
    <3>1. \A p \in Hands \ {ConsumerChan, ErrorChan} : SingleAt(p)'
      <4>1. \A p \in Hands : ref'[p] = ref[p]
        BY <2>1
      <4> QED
        BY <4>1 DEF SingleAt, IInv, Counts
    <3>2. BoundedAt(ErrorChan)' /\ BoundedAt(ConsumerChan)'
      BY <2>1 DEF BoundedAt, IInv, Counts
    <3> QED
      BY <3>1, <3>2 DEF Counts
  <2>4. DataOK'
    BY <1>3, <1>6, <1>9, EmptySeq DEF IInv, DataOK, Reset
  <2>5. HoldsBuffer'
    <3>1. ref'[Polled] = ref[Polled]
      BY <2>1
    <3>2. \A j \in Indexers : ref'[Batch(j)] = ref[Batch(j)] /\ ref'[Msg(j)] = ref[Msg(j)]
      BY <2>1
    <3> QED
      BY <1>6, <1>9, <3>1, <3>2 DEF IInv, HoldsBuffer
  <2>6. PoolsClean'
    <3>1. \A p \in Pools : ref'[p] \subseteq ref[p] \cup {b} /\ ref[p] \subseteq Buffer
      BY <1>2, <2>1
    <3> QED
      BY <2>2, <3>1 DEF PoolsClean, IInv
  <2>7. PassingKept /\ BatchesKept /\ ErrorsKept
    BY <1>2, <1>4, <1>6, <2>1, <2>2, ZenonT(40) DEF PassingKept, BatchesKept, ErrorsKept
  <2> QED
    BY <1>1, <1>6, <1>9, <2>3, <2>4, <2>5, <2>6, <2>7, KeptWhole, KeptErrors, KeptSent DEF IInv
<1> QED
  BY <1>3, <1>8, <1>9

\* The batch now holds the message too, and the message's buffer, reset, nothing.
LEMMA BulkWriteStep == ASSUME IInv, NEW i \in Indexers, BulkWrite(i) PROVE IInv'
<1> USE KindFacts
<1>1. Owned(ref)'
  BY OwnedStep DEF IInv, Next, Indexer
<1>2. /\ ref \in [Places -> SUBSET Buffer]
      /\ \A p, q \in Places : \A b : b \in ref[p] /\ b \in ref[q] => p = q
  BY RefFacts DEF IInv
<1>3. \A x \in Places : ref'[x] = IF x = Msg(i) THEN {}
                                  ELSE IF x = MsgPool THEN ref[MsgPool] \cup ref[Msg(i)]
                                  ELSE ref[x]
  <2>1. Msg(i) \in Places /\ MsgPool \in Places /\ Msg(i) # MsgPool
    OBVIOUS
  <2> QED
    BY <1>2, <2>1 DEF GiveTo, BulkWrite
<1>4. PICK c \in ref[Msg(i)], d \in ref[Batch(i)] : TRUE
  BY DEF IInv, HoldsBuffer, BulkWrite
<1>5. /\ ref[Msg(i)] = {c} /\ ref[Batch(i)] = {d} /\ TextAt(Msg(i)) = content[c]
      /\ c \in Buffer /\ d \in Buffer /\ c # d
  <2>1. SingleAt(Msg(i)) /\ SingleAt(Batch(i))
    BY DEF IInv, Counts
  <2>2. ref[Msg(i)] = {c} /\ ref[Batch(i)] = {d} /\ TextAt(Msg(i)) = content[c]
    BY <1>4, <2>1, TextAtIs
  <2>3. Msg(i) \in Places /\ Batch(i) \in Places /\ Msg(i) # Batch(i)
    OBVIOUS
  <2> QED
    BY <1>2, <1>4, <2>2, <2>3
<1>6. \A b \in Buffer : content'[b] = IF b = c THEN <<>>
                                      ELSE IF b = d THEN content[d] \o content[c] ELSE content[b]
  BY <1>5 DEF BulkWrite
<1>7. iPc[i] = "write" /\ cPc' = cPc /\ msgBuf' = msgBuf /\ topic' = topic /\ cause' = cause
  BY DEF BulkWrite
<1>8. Counts'
  <2>1. \A p \in Hands \ {ConsumerChan, ErrorChan} : SingleAt(p)'
    BY <1>3 DEF SingleAt, IInv, Counts
  <2>2. BoundedAt(ErrorChan)' /\ BoundedAt(ConsumerChan)'
    BY <1>3 DEF BoundedAt, IInv, Counts
  <2> QED
    BY <2>1, <2>2 DEF Counts
<1>9. DataOK'
  <2>1. content' \in [Buffer -> Seq(Line \cup {EmptyLine})]
    <3> DEFINE T == Seq(Line \cup {EmptyLine})
    <3>1. content[c] \in T /\ content[d] \in T /\ <<>> \in T
      BY <1>5 DEF IInv, DataOK
    <3>2. content[d] \o content[c] \in T
      BY <3>1, ConcatProperties
    <3>3. \A b \in Buffer : content'[b] \in T
      BY <1>6, <3>1, <3>2 DEF IInv, DataOK
    <3>4. content' = [b \in Buffer |-> content'[b]]
      BY DEF BulkWrite
    <3> QED
      BY <3>3, <3>4
  <2>2. iPc' \in [Indexers -> {"select", "write", "bulk", "report", "panic", "failed"}]
    BY DEF BulkWrite, Goto, IInv, DataOK
  <2> QED
    BY <1>7, <2>1, <2>2 DEF IInv, DataOK
<1>10. HoldsBuffer'
  <2>1. ref'[Polled] = ref[Polled]
    BY <1>3
  <2>2. \A j \in Indexers : /\ ref'[Batch(j)] = ref[Batch(j)]
                            /\ j # i => ref'[Msg(j)] = ref[Msg(j)] /\ iPc'[j] = iPc[j]
    <3>1. \A j \in Indexers : j # i => iPc'[j] = iPc[j]
      BY DEF BulkWrite, Goto, IInv, DataOK
    <3> QED
      BY <1>3, <3>1, OwnPlaces
  <2>3. iPc'[i] = "select"
    BY DEF BulkWrite, Goto, IInv, DataOK
  <2> QED
    BY <1>7, <2>1, <2>2, <2>3 DEF IInv, HoldsBuffer
<1>11. PassingKept /\ ErrorsKept
  <2>1. ASSUME NEW p \in Passing, NEW b \in ref'[p] PROVE content'[b] = content[b] /\ b \in ref[p]
    <3>1. p # Msg(i) /\ b \in ref[p] /\ b \in Buffer
      BY <1>2, <1>3, <2>1
    <3>2. b # c /\ b # d
      <4>1. p \in Places /\ Msg(i) \in Places /\ Batch(i) \in Places /\ p # Batch(i)
        OBVIOUS
      <4> QED
        BY <1>2, <1>4, <3>1, <4>1
    <3> QED
      BY <1>6, <3>1, <3>2
  <2>2. ASSUME NEW p \in Errors, NEW b \in ref'[p] PROVE content'[b] = content[b] /\ b \in ref[p]
    <3>1. b \in ref[p] /\ b \in Buffer
      BY <1>2, <1>3, <2>2
    <3>2. b # c /\ b # d
      <4>1. /\ p \in Places /\ Msg(i) \in Places /\ Batch(i) \in Places
            /\ p # Batch(i) /\ p # Msg(i)
        OBVIOUS
      <4> QED
        BY <1>2, <1>4, <3>1, <4>1
    <3> QED
      BY <1>6, <3>1, <3>2
  <2> QED
    BY <1>7, <2>1, <2>2 DEF PassingKept, ErrorsKept
<1>12. PoolsClean'
  <2> SUFFICES ASSUME NEW p \in Pools, NEW b \in ref'[p] PROVE content'[b] = <<>>
    BY DEF PoolsClean
  <2>1. CASE b = c
    BY <1>5, <1>6, <2>1
  <2>2. CASE b # c
    <3>1. b \in ref[p] /\ b \in Buffer
      BY <1>2, <1>3, <1>5, <2>2
    <3>2. b # d
      <4>1. p \in Places /\ Batch(i) \in Places /\ p # Batch(i)
        OBVIOUS
      <4> QED
        BY <1>2, <1>4, <3>1, <4>1
    <3> QED
      BY <1>6, <2>2, <3>1, <3>2 DEF IInv, PoolsClean
  <2> QED
    BY <2>1, <2>2
<1>13. WholeMessages'
  <2>1. PICK held : Holds(held)
    BY DEF IInv, WholeMessages
  <2> DEFINE both == held[d] \o held[c]
             new == [held EXCEPT ![d] = both, ![c] = <<>>]
  <2>2. /\ held \in [Buffer -> Seq(Topic)] /\ held[c] \in Seq(Topic) /\ held[d] \in Seq(Topic)
        /\ content[c] = Payload(FlattenSeq(held[c]))
        /\ content[d] = Payload(FlattenSeq(held[d]))
    BY <1>4, <1>5, <2>1 DEF Holds
  <2>3. both \in Seq(Topic) /\ ToSet(both) = ToSet(held[d]) \cup ToSet(held[c])
    BY <2>2, ConcatProperties, ToSetConcat
  <2>4. IsInjective(both)
    <3>1. /\ IsInjective(held[d]) /\ IsInjective(held[c])
          /\ ToSet(held[d]) \cap ToSet(held[c]) = {}
      BY <1>5, <2>1 DEF Holds
    <3> QED
      BY <2>2, <3>1, InjectiveConcat
  <2>5. Payload(FlattenSeq(both)) = content[d] \o content[c]
    <3> DEFINE u == held[d]
               v == held[c]
    <3>1. /\ u \in Seq(Seq(Actions)) /\ FlattenSeq(u) \in Seq(Actions)
          /\ v \in Seq(Seq(Actions)) /\ FlattenSeq(v) \in Seq(Actions)
      BY <2>2, FlattenMessages
    <3> HIDE DEF u, v
    <3>2. FlattenSeq(u \o v) = FlattenSeq(u) \o FlattenSeq(v)
      BY <3>1, FlattenConcat
    <3>3. Payload(FlattenSeq(u) \o FlattenSeq(v)) = Payload(FlattenSeq(u)) \o Payload(FlattenSeq(v))
      BY <3>1, PayloadConcat
    <3> QED
      BY <2>2, <3>2, <3>3 DEF u, v
  <2> HIDE DEF both
  <2>6. /\ <<>> \in Seq(Topic) /\ IsInjective(<<>>) /\ ToSet(<<>>) = {}
        /\ Payload(FlattenSeq(<<>>)) = <<>>
    BY EmptySeq, PayloadEmpty, FlattenEmpty DEF IsInjective, ToSet
  <2>7. /\ new \in [Buffer -> Seq(Topic)]
        /\ \A b \in Buffer : new[b] = IF b = c THEN <<>> ELSE IF b = d THEN both ELSE held[b]
    BY <1>5, <2>2, <2>3, <2>6
  <2> HIDE DEF new
  <2>8. \A b \in Buffer : IsInjective(new[b]) /\ ToSet(new[b]) \cap topic' = {}
    <3>1. ToSet(both) \cap topic = {}
      BY <1>5, <2>1, <2>3 DEF Holds
    <3> QED
      BY <1>7, <2>1, <2>4, <2>6, <2>7, <3>1 DEF Holds
  <2>9. \A b, e \in Buffer : b # e => ToSet(new[b]) \cap ToSet(new[e]) = {}
    <3>1. \A b, e \in Buffer : b # e => ToSet(held[b]) \cap ToSet(held[e]) = {}
      BY <2>1 DEF Holds
    <3>2. \A b \in Buffer : b # c /\ b # d => ToSet(both) \cap ToSet(held[b]) = {}
      BY <1>5, <2>3, <3>1
    <3> QED
      BY <1>5, <2>6, <2>7, <3>1, <3>2
  <2>10. ASSUME NEW p \in Passing \cup Batches, NEW b \in ref'[p]
         PROVE  content'[b] = Payload(FlattenSeq(new[b]))
    <3>1. p # Msg(i) /\ b \in ref[p] /\ p \in Places /\ b \in Buffer
      BY <1>2, <1>3, <2>10
    <3>2. b # c
      <4>1. Msg(i) \in Places
        OBVIOUS
      <4> QED
        BY <1>2, <1>4, <3>1, <4>1
    <3>3. content[b] = Payload(FlattenSeq(held[b]))
      BY <2>1, <3>1 DEF Holds
    <3> QED
      BY <1>6, <2>5, <2>7, <3>1, <3>2, <3>3
  <2>11. Holds(new)'
    BY <2>7, <2>8, <2>9, <2>10 DEF Holds
  <2> QED
    BY <2>11 DEF WholeMessages
<1> QED
  BY <1>1, <1>7, <1>8, <1>9, <1>10, <1>11, <1>12, <1>13, KeptErrors, KeptSent DEF IInv

\* The first line of each action of a request says whether it has a second one.
LEMMA RequestActions ==
  ASSUME NEW a \in Seq(Actions), \A l \in ToSet(Payload(a)) : l[1] \notin OneLine
  PROVE  ToSet(a) \cap OneLine = {}
  BY FirstLines

\* parseESErrors, for the request in the buffer of a batch.
LEMMA RequestFacts ==
  ASSUME IInv, NEW i \in Indexers, NEW d \in ref[Batch(i)]
  PROVE  /\ ref[Batch(i)] = {d} /\ TextAt(Batch(i)) = content[d]
         /\ \E a \in Seq(Actions) : content[d] = Payload(a) /\ ActionsOf(content[d]) = a
<1>1. SingleAt(Batch(i)) /\ Batch(i) \in Batches
  BY KindFacts DEF IInv, Counts
<1>2. ref[Batch(i)] = {d} /\ TextAt(Batch(i)) = content[d]
  BY <1>1, TextAtIs
<1>3. PICK held : Holds(held)
  BY DEF IInv, WholeMessages
<1>4. d \in Buffer
  BY <1>1, KindFacts, RefFacts DEF IInv
<1>5. held[d] \in Seq(Topic) /\ content[d] = Payload(FlattenSeq(held[d]))
  BY <1>1, <1>3, <1>4 DEF Holds
<1>6. FlattenSeq(held[d]) \in Seq(Actions)
  BY <1>5, FlattenMessages
<1> QED
  BY <1>2, <1>5, <1>6, ActionsOfPayload

\* parseESErrors indexes out of range: the batch is Put and the indexer panics.
LEMMA PanicStep ==
  ASSUME IInv, NEW i \in Indexers, ParseESErrors(i),
         ref' = GiveTo(ref, Batch(i), BulkPool), content' = Reset(ref[Batch(i)]),
         Goto(i, "panic"), cause' = cause
  PROVE  IInv'
<1> USE KindFacts
<1>1. Owned(ref)'
  BY OwnedStep DEF IInv, Next, Indexer
<1>2. /\ ref \in [Places -> SUBSET Buffer]
      /\ \A p, q \in Places : \A b : b \in ref[p] /\ b \in ref[q] => p = q
  BY RefFacts DEF IInv
<1>3. \A x \in Places : ref'[x] = IF x = Batch(i) THEN {}
                                  ELSE IF x = BulkPool THEN ref[BulkPool] \cup ref[Batch(i)]
                                  ELSE ref[x]
  <2>1. Batch(i) \in Places /\ BulkPool \in Places /\ Batch(i) # BulkPool
    OBVIOUS
  <2> QED
    BY <1>2, <2>1 DEF GiveTo
<1>4. \A b \in Buffer : content'[b] = IF b \in ref[Batch(i)] THEN <<>> ELSE content[b]
  BY DEF Reset
<1>5. topic' = topic /\ msgBuf' = msgBuf /\ cPc' = cPc
  BY DEF ParseESErrors
<1>6. Counts'
  <2>1. \A p \in Hands \ {ConsumerChan, ErrorChan} : SingleAt(p)'
    BY <1>3 DEF SingleAt, IInv, Counts
  <2>2. BoundedAt(ErrorChan)' /\ BoundedAt(ConsumerChan)'
    BY <1>3 DEF BoundedAt, IInv, Counts
  <2> QED
    BY <2>1, <2>2 DEF Counts
<1>7. DataOK'
  BY <1>5, EmptySeq DEF Goto, Reset, IInv, DataOK
<1>8. HoldsBuffer'
  <2>1. ref'[Polled] = ref[Polled]
    BY <1>3
  <2>2. \A j \in Indexers : /\ ref'[Msg(j)] = ref[Msg(j)]
                            /\ j # i => ref'[Batch(j)] = ref[Batch(j)]
    BY <1>3, OwnPlaces
  <2>3. iPc'[i] = "panic" /\ \A j \in Indexers : j # i => iPc'[j] = iPc[j]
    BY DEF Goto, IInv, DataOK
  <2> QED
    BY <1>5, <2>1, <2>2, <2>3 DEF IInv, HoldsBuffer
<1>9. PassingKept /\ BatchesKept /\ ErrorsKept
  BY <1>2, <1>3, <1>4 DEF PassingKept, BatchesKept, ErrorsKept
<1>10. PoolsClean'
  BY <1>2, <1>3, <1>4 DEF PoolsClean, IInv
<1> QED
  BY <1>1, <1>5, <1>6, <1>7, <1>8, <1>9, <1>10, KeptWhole, KeptErrors, KeptSent DEF IInv

\* parseESErrors returns what it has written.
LEMMA ReportStep ==
  ASSUME IInv, NEW i \in Indexers, ParseESErrors(i), NEW failed, NEW ended \in BOOLEAN,
         failed \subseteq ToSet(ActionsOf(TextAt(Batch(i)))),
         ~OutOfRange(TextAt(Batch(i)), failed, ended), NEW b \in Buffer, Get(MsgPool, b),
         ref' = GiveTo(GetTo(ref, b, Out(i)), Batch(i), BulkPool),
         content' = [Reset(ref[Batch(i)]) EXCEPT ![b] =
                       TextOf(MsgPool, b) \o ErrorLines(TextAt(Batch(i)), failed, ended)],
         cause' = [cause EXCEPT ![b] = [request |-> TextAt(Batch(i)), failed |-> failed]],
         Goto(i, "report")
  PROVE  IInv'
<1> USE KindFacts
<1>1. Owned(ref)'
  BY OwnedStep DEF IInv, Next, Indexer
<1>2. /\ ref \in [Places -> SUBSET Buffer]
      /\ \A p, q \in Places : \A c : c \in ref[p] /\ c \in ref[q] => p = q
  BY RefFacts DEF IInv
<1>3. topic' = topic /\ msgBuf' = msgBuf /\ cPc' = cPc /\ iPc[i] = "bulk"
  BY DEF ParseESErrors
<1>4. \A q \in Hands : b \notin ref[q]
  BY GetIsFree DEF IInv
<1>5. PICK d \in ref[Batch(i)] : TRUE
  BY <1>3 DEF IInv, HoldsBuffer
<1>6. ref[Batch(i)] = {d} /\ TextAt(Batch(i)) = content[d]
  BY RequestFacts
<1>7. PICK a \in Seq(Actions) : content[d] = Payload(a) /\ ActionsOf(content[d]) = a
  BY RequestFacts
<1>8. d \in Buffer /\ b # d
  BY <1>2, <1>4, <1>5
<1> DEFINE e == ErrorLines(content[d], failed, ended)
<1>9. e \in Seq(Line \cup {EmptyLine}) /\ content[d] \in Seq(Line)
  BY <1>6, <1>7, PayloadType, ErrorLinesType
<1>10. \A c \in Buffer : /\ content'[c] = IF c = b THEN e ELSE IF c = d THEN <<>> ELSE content[c]
                         /\ cause'[c] = IF c = b THEN [request |-> content[d], failed |-> failed]
                                        ELSE cause[c]
  <2>1. TextOf(MsgPool, b) \o e = e
    BY <1>9, GetIsEmpty, ConcatEmptySeq DEF IInv
  <2> HIDE DEF e
  <2>2. content' = [Reset({d}) EXCEPT ![b] = e]
    BY <1>6, <2>1 DEF e
  <2>3. cause' = [cause EXCEPT ![b] = [request |-> content[d], failed |-> failed]]
    BY <1>6
  <2> QED
    BY <2>2, <2>3 DEF Reset, IInv, DataOK
<1> HIDE DEF e
<1>11. \A x \in Places : ref'[x] = IF x = Batch(i) THEN {} ELSE IF x = Out(i) THEN {b}
                                   ELSE IF x = BulkPool THEN (ref[x] \ {b}) \cup {d}
                                   ELSE IF x = MsgPool THEN ref[x] \ {b} ELSE ref[x]
  <2> DEFINE r == GetTo(ref, b, Out(i))
  <2>1. /\ r \in [Places -> SUBSET Buffer]
        /\ \A x \in Places : r[x] = IF x = Out(i) THEN {b}
                                    ELSE IF x \in Pools THEN ref[x] \ {b} ELSE ref[x]
    <3>1. Out(i) \in Places /\ Out(i) \notin Pools
      OBVIOUS
    <3> QED
      BY <1>2, <3>1 DEF GetTo, Pools
  <2> HIDE DEF r
  <2>2. \A x \in Places : ref'[x] = IF x = Batch(i) THEN {}
                                    ELSE IF x = BulkPool THEN r[BulkPool] \cup r[Batch(i)] ELSE r[x]
    <3>1. Batch(i) \in Places /\ BulkPool \in Places /\ Batch(i) # BulkPool
      OBVIOUS
    <3> QED
      BY <2>1, <3>1 DEF GiveTo, r
  <2>3. r[Batch(i)] = {d} /\ r[BulkPool] = ref[BulkPool] \ {b} /\ Out(i) # BulkPool
    <3>1. /\ Batch(i) \in Places /\ Batch(i) # Out(i) /\ Batch(i) \notin Pools
          /\ BulkPool \in Places /\ BulkPool # Out(i)
      OBVIOUS
    <3> QED
      BY <1>6, <2>1, <3>1
  <2> QED
    BY <2>1, <2>2, <2>3 DEF Pools
<1>12. Counts'
  <2>1. \A p \in Hands \ {ConsumerChan, ErrorChan} : SingleAt(p)'
    <3>1. \A p \in Hands : ref'[p] = {} \/ ref'[p] = {b} \/ ref'[p] = ref[p]
      BY <1>11
    <3> QED
      BY <3>1 DEF SingleAt, IInv, Counts
  <2>2. ref'[ErrorChan] = ref[ErrorChan] /\ ref'[ConsumerChan] = ref[ConsumerChan]
    BY <1>11
  <2>3. BoundedAt(ErrorChan)' /\ BoundedAt(ConsumerChan)'
    BY <2>2 DEF BoundedAt, IInv, Counts
  <2> QED
    BY <2>1, <2>3 DEF Counts
<1>13. DataOK'
  <2>1. content' \in [Buffer -> Seq(Line \cup {EmptyLine})]
    <3>1. \A c \in Buffer : content'[c] \in Seq(Line \cup {EmptyLine})
      <4> DEFINE T == Seq(Line \cup {EmptyLine})
      <4>1. <<>> \in T /\ e \in T /\ \A c \in Buffer : content[c] \in T
        BY <1>9, EmptySeq DEF IInv, DataOK
      <4> HIDE DEF T
      <4>2. \A c \in Buffer : content'[c] \in T
        BY <1>10, <4>1
      <4> QED
        BY <4>2 DEF T
    <3>2. content' = [c \in Buffer |-> content'[c]]
      BY DEF Reset
    <3> QED
      BY <3>1, <3>2
  <2>2. failed \subseteq Actions
    BY <1>6, <1>7 DEF ToSet
  <2>3. cause' \in [Buffer -> [request : Seq(Line), failed : SUBSET Actions]]
    BY <1>6, <1>9, <2>2 DEF IInv, DataOK
  <2>4. iPc' \in [Indexers -> {"select", "write", "bulk", "report", "panic", "failed"}]
    BY DEF Goto, IInv, DataOK
  <2> QED
    BY <1>3, <2>1, <2>3, <2>4 DEF IInv, DataOK
<1>14. HoldsBuffer'
  <2>1. ref'[Polled] = ref[Polled]
    BY <1>11
  <2>2. \A j \in Indexers : /\ ref'[Msg(j)] = ref[Msg(j)]
                            /\ j # i => ref'[Batch(j)] = ref[Batch(j)]
    BY <1>11, OwnPlaces
  <2>3. iPc'[i] = "report" /\ \A j \in Indexers : j # i => iPc'[j] = iPc[j]
    BY DEF Goto, IInv, DataOK
  <2> QED
    BY <1>3, <2>1, <2>2, <2>3 DEF IInv, HoldsBuffer
<1>15. ASSUME NEW p \in Hands \ {Batch(i), Out(i)}, NEW c \in ref'[p]
       PROVE  c \in ref[p] /\ content'[c] = content[c] /\ cause'[c] = cause[c]
  <2>1. c \in ref[p] /\ p \in Places /\ c \in Buffer
    BY <1>2, <1>11, <1>15
  <2>2. c # b
    BY <1>4, <2>1
  <2>3. c # d
    <3>1. Batch(i) \in Places
      OBVIOUS
    <3> QED
      BY <1>2, <1>5, <2>1, <3>1
  <2> QED
    BY <1>10, <2>1, <2>2, <2>3
<1>16. PassingKept /\ BatchesKept
  <2>1. PassingKept
    BY <1>15 DEF PassingKept
  <2>2. ref'[Batch(i)] = {}
    BY <1>11
  <2> QED
    BY <1>15, <2>1, <2>2 DEF BatchesKept
<1>17. PoolsClean'
  <2> SUFFICES ASSUME NEW p \in Pools, NEW c \in ref'[p] PROVE content'[c] = <<>>
    BY DEF PoolsClean
  <2>1. c = d \/ (c # b /\ c \in ref[p])
    BY <1>11 DEF Pools
  <2>2. p \in Places /\ ref[p] \subseteq Buffer
    BY <1>2
  <2> QED
    BY <1>8, <1>10, <2>1, <2>2 DEF IInv, PoolsClean
<1>18. ErrorsExact'
  <2> SUFFICES ASSUME NEW p \in Errors, NEW c \in ref'[p] PROVE Exact(c)'
    BY DEF ErrorsExact
  <2>1. CASE p = Out(i)
    <3>1. c = b
      BY <1>11, <2>1
    <3> DEFINE k == [request |-> content[d], failed |-> failed]
    <3>2. content'[c] = e /\ cause'[c] = k /\ k.request = content[d]
      BY <1>10, <3>1
    <3> HIDE DEF k
    <3> SUFFICES ASSUME \A l \in ToSet(content[d]) : l[1] \notin OneLine
                 PROVE  e = LinesToRepublish(k)
      BY <3>2, Zenon DEF Exact
    <3>3. ToSet(a) \cap OneLine = {}
      BY <1>7, RequestActions
    <3> QED
      BY <1>7, <3>3, ErrorLinesExact DEF e, k
  <2>2. CASE p # Out(i)
    <3>1. p \in Hands \ {Batch(i), Out(i)}
      BY <2>2
    <3>2. c \in ref[p] /\ content'[c] = content[c] /\ cause'[c] = cause[c]
      BY <1>15, <3>1
    <3> QED
      BY <3>2 DEF IInv, ErrorsExact, Exact
  <2> QED
    BY <2>1, <2>2
<1> QED
  BY <1>1, <1>3, <1>12, <1>13, <1>14, <1>16, <1>17, <1>18, KeptWhole, KeptSent DEF IInv

\* The two outcomes of parseESErrors.
LEMMA ParseESErrorsStep == ASSUME IInv, NEW i \in Indexers, ParseESErrors(i) PROVE IInv'
<1>1. PICK failed \in SUBSET ToSet(ActionsOf(TextAt(Batch(i)))), ended \in BOOLEAN :
         \/ /\ OutOfRange(TextAt(Batch(i)), failed, ended)
            /\ ref' = GiveTo(ref, Batch(i), BulkPool) /\ content' = Reset(ref[Batch(i)])
            /\ Goto(i, "panic")
            /\ UNCHANGED cause
         \/ /\ ~OutOfRange(TextAt(Batch(i)), failed, ended)
            /\ \E b \in Buffer :
                 /\ Get(MsgPool, b)
                 /\ ref' = GiveTo(GetTo(ref, b, Out(i)), Batch(i), BulkPool)
                 /\ content' = [Reset(ref[Batch(i)]) EXCEPT ![b] =
                       TextOf(MsgPool, b) \o ErrorLines(TextAt(Batch(i)), failed, ended)]
                 /\ cause' = [cause EXCEPT ![b] = [request |-> TextAt(Batch(i)),
                                                   failed |-> failed]]
            /\ Goto(i, "report")
  BY DEF ParseESErrors
<1>2. CASE /\ ref' = GiveTo(ref, Batch(i), BulkPool) /\ content' = Reset(ref[Batch(i)])
           /\ Goto(i, "panic")
           /\ cause' = cause
  BY <1>2, PanicStep
<1>3. ASSUME ~OutOfRange(TextAt(Batch(i)), failed, ended), NEW b \in Buffer, Get(MsgPool, b),
             ref' = GiveTo(GetTo(ref, b, Out(i)), Batch(i), BulkPool),
             content' = [Reset(ref[Batch(i)]) EXCEPT ![b] =
                           TextOf(MsgPool, b) \o ErrorLines(TextAt(Batch(i)), failed, ended)],
             cause' = [cause EXCEPT ![b] = [request |-> TextAt(Batch(i)), failed |-> failed]],
             Goto(i, "report")
      PROVE  IInv'
  <2>1. failed \subseteq ToSet(ActionsOf(TextAt(Batch(i))))
    BY <1>1
  <2> QED
    BY <1>3, <2>1, ReportStep
<1> QED
  BY <1>1, <1>2, <1>3

\* sendErrors has Put what parseESErrors returned, or sent it to the producer (q), and
\* the indexer has taken a buffer for its next batch.
LEMMA NewBatchStep ==
  ASSUME IInv, NEW i \in Indexers, SendErrors(i), NEW b \in Buffer, Get(BulkPool, b),
         NEW q \in {MsgPool, ErrorChan}, q = ErrorChan => CanSend(ErrorChan),
         \A x \in Places : ref'[x] = IF x = Batch(i) THEN {b} ELSE IF x = Out(i) THEN {}
                                     ELSE IF x = q THEN (ref[x] \cup ref[Out(i)]) \ {b}
                                     ELSE ref[x] \ {b},
         \A c \in Buffer : content'[c] = IF c = b \/ (q = MsgPool /\ c \in ref[Out(i)])
                                         THEN <<>> ELSE content[c],
         \A c \in Buffer : q = ErrorChan \/ c \notin ref[Out(i)] => cause'[c] = cause[c],
         DataOK'
  PROVE  IInv'
<1> USE KindFacts
<1>1. Owned(ref)'
  BY OwnedStep DEF IInv, Next, Indexer
<1>2. /\ ref \in [Places -> SUBSET Buffer]
      /\ \A p, r \in Places : \A c : c \in ref[p] /\ c \in ref[r] => p = r
  BY RefFacts DEF IInv
<1>3. topic' = topic /\ msgBuf' = msgBuf /\ cPc' = cPc
  BY DEF SendErrors
<1>4. \A p \in Hands : b \notin ref[p]
  BY GetIsFree DEF IInv
<1>5. \A p \in Hands \ {Batch(i), Out(i), q} : ref'[p] = ref[p]
  <2> SUFFICES ASSUME NEW p \in Hands \ {Batch(i), Out(i), q} PROVE ref'[p] = ref[p]
    OBVIOUS
  <2>1. ref'[p] = ref[p] \ {b}
    <3>1. p \in Places /\ p # Batch(i) /\ p # Out(i) /\ p # q
      OBVIOUS
    <3> HIDE KindFacts
    <3> QED
      BY <3>1
  <2> QED
    BY <1>4, <2>1
<1>6. Counts'
  <2>0. Batch(i) \in Places /\ Out(i) \in Places /\ Batch(i) # Out(i)
    OBVIOUS
  <2>1. \A p \in Hands \ {ConsumerChan, ErrorChan} :
          ref'[p] = {} \/ ref'[p] = {b} \/ ref'[p] = ref[p]
    <3>1. ref'[Batch(i)] = {b} /\ ref'[Out(i)] = {}
      BY <2>0
    <3>2. q \notin Hands \ {ConsumerChan, ErrorChan}
      OBVIOUS
    <3> QED
      BY <1>5, <3>1, <3>2
  <2>2. \A p \in Hands \ {ConsumerChan, ErrorChan} : SingleAt(p)'
    BY <2>1 DEF SingleAt, IInv, Counts
  <2>3. BoundedAt(ConsumerChan)'
    <3>1. ref'[ConsumerChan] = ref[ConsumerChan]
      BY <1>5
    <3> QED
      BY <3>1 DEF BoundedAt, IInv, Counts
  <2>4. BoundedAt(ErrorChan)'
    <3>1. CASE q = MsgPool
      <4>1. ref'[ErrorChan] = ref[ErrorChan]
        BY <1>5, <3>1
      <4> QED
        BY <4>1 DEF BoundedAt, IInv, Counts
    <3>2. CASE q = ErrorChan
      <4>1. ref'[ErrorChan] = ref[ErrorChan] \cup ref[Out(i)]
        <5>1. b \notin ref[ErrorChan] /\ b \notin ref[Out(i)]
          BY <1>4
        <5>2. ErrorChan \in Places /\ ErrorChan # Batch(i) /\ ErrorChan # Out(i)
          OBVIOUS
        <5> QED
          BY <3>2, <5>1, <5>2
      <4>2. IsFiniteSet(ref[ErrorChan]) /\ Cardinality(ref[ErrorChan]) < ChanCap
        BY <3>2 DEF CanSend, IInv, Counts, BoundedAt
      <4>3. \A c, d \in ref[Out(i)] : c = d
        BY DEF IInv, Counts, SingleAt
      <4>4. /\ IsFiniteSet(ref[ErrorChan] \cup ref[Out(i)])
            /\ Cardinality(ref[ErrorChan] \cup ref[Out(i)]) <= ChanCap
        BY <4>2, <4>3, AddOne
      <4> QED
        BY <4>1, <4>4, Zenon DEF BoundedAt
    <3> QED
      BY <3>1, <3>2
  <2> QED
    BY <2>2, <2>3, <2>4 DEF Counts
<1>7. HoldsBuffer'
  <2>1. ref'[Polled] = ref[Polled] /\ \A j \in Indexers : ref'[Msg(j)] = ref[Msg(j)]
    BY <1>5
  <2>2. \A j \in Indexers : j # i => ref'[Batch(j)] = ref[Batch(j)]
    BY <1>5, OwnPlaces
  <2>3. ref'[Batch(i)] # {}
    OBVIOUS
  <2>4. iPc'[i] = "write" => ref'[Msg(i)] # {}
    <3>1. iPc'[i] = IF ref[Msg(i)] = {} THEN "select" ELSE "write"
      BY DEF SendErrors, Goto, IInv, DataOK
    <3> QED
      BY <2>1, <3>1
  <2>5. \A j \in Indexers : j # i => iPc'[j] = iPc[j]
    BY DEF SendErrors, Goto, IInv, DataOK
  <2> QED
    BY <1>3, <2>1, <2>2, <2>3, <2>4, <2>5 DEF IInv, HoldsBuffer
<1>8. ASSUME NEW p \in Hands \ {Batch(i), Out(i), q}, NEW c \in ref'[p]
      PROVE  c \in ref[p] /\ content'[c] = content[c] /\ cause'[c] = cause[c]
  <2>1. c \in ref[p] /\ p \in Places /\ c \in Buffer
    BY <1>2, <1>5, <1>8
  <2>2. c # b
    BY <1>4, <2>1
  <2>3. c \notin ref[Out(i)]
    <3>1. Out(i) \in Places /\ p # Out(i)
      OBVIOUS
    <3> QED
      BY <1>2, <2>1, <3>1
  <2> QED
    BY <2>1, <2>2, <2>3
<1>9. PassingKept
  BY <1>8 DEF PassingKept
<1>10. PoolsClean'
  <2> SUFFICES ASSUME NEW p \in Pools, NEW c \in ref'[p] PROVE content'[c] = <<>>
    BY DEF PoolsClean
  <2>1. p \in Places /\ ref[p] \subseteq Buffer /\ p # Batch(i) /\ p # Out(i) /\ p # ErrorChan
    BY <1>2
  <2>2. CASE c \in ref[p]
    BY <2>1, <2>2 DEF IInv, PoolsClean
  <2>3. CASE c \notin ref[p]
    <3>1. p = q /\ q = MsgPool /\ c \in ref[Out(i)]
      BY <2>1, <2>3
    <3>2. c \in Buffer
      BY <1>2, <3>1
    <3> QED
      BY <3>1, <3>2
  <2> QED
    BY <2>2, <2>3
<1>11. ErrorsKept
  <2> SUFFICES ASSUME NEW p \in Errors, NEW c \in ref'[p]
               PROVE  /\ content'[c] = content[c] /\ cause'[c] = cause[c]
                      /\ \E r \in Errors : c \in ref[r]
    BY DEF ErrorsKept
  <2>0. p \in Places /\ p # Batch(i) /\ p # MsgPool /\ p # Out(i)
    OBVIOUS
  <2>1. CASE p = q
    <3>1. q = ErrorChan /\ q # MsgPool /\ c # b
      BY <2>0, <2>1
    <3>2. c \in ref[ErrorChan] \/ c \in ref[Out(i)]
      BY <2>0, <2>1, <3>1
    <3>3. c \in Buffer
      BY <1>2, <3>2
    <3> QED
      BY <3>1, <3>2, <3>3
  <2>2. CASE p # q
    BY <1>8, <2>0, <2>2
  <2> QED
    BY <2>1, <2>2
<1>12. WholeMessages'
  <2>1. PICK held : Holds(held)
    BY DEF IInv, WholeMessages
  <2> DEFINE new == [held EXCEPT ![b] = <<>>]
  <2>2. /\ <<>> \in Seq(Topic) /\ IsInjective(<<>>) /\ ToSet(<<>>) = {}
        /\ Payload(FlattenSeq(<<>>)) = <<>>
    BY EmptySeq, PayloadEmpty, FlattenEmpty DEF IsInjective, ToSet
  <2>3. /\ new \in [Buffer -> Seq(Topic)]
        /\ \A c \in Buffer : new[c] = IF c = b THEN <<>> ELSE held[c]
    BY <2>1, <2>2 DEF Holds
  <2> HIDE DEF new
  <2>4. \A c \in Buffer : IsInjective(new[c]) /\ ToSet(new[c]) \cap topic' = {}
    BY <1>3, <2>1, <2>2, <2>3 DEF Holds
  <2>5. \A c, d \in Buffer : c # d => ToSet(new[c]) \cap ToSet(new[d]) = {}
    BY <2>1, <2>2, <2>3 DEF Holds
  <2>6. ASSUME NEW p \in Passing \cup Batches, NEW c \in ref'[p]
        PROVE  content'[c] = Payload(FlattenSeq(new[c]))
    <3>1. CASE p = Batch(i)
      <4>1. c = b
        <5>1. Batch(i) \in Places
          OBVIOUS
        <5>2. ref'[Batch(i)] = {b}
          BY <5>1
        <5> QED
          BY <2>6, <3>1, <5>2
      <4> QED
        BY <2>2, <2>3, <4>1
    <3>2. CASE p # Batch(i)
      <4>1. p \in Hands \ {Batch(i), Out(i), q}
        BY <3>2
      <4>2. c \in ref[p] /\ content'[c] = content[c]
        BY <1>8, <4>1
      <4>3. c \in Buffer /\ c # b
        BY <1>2, <1>4, <4>1, <4>2
      <4> QED
        BY <2>1, <2>3, <4>2, <4>3 DEF Holds
    <3> QED
      BY <3>1, <3>2
  <2>7. Holds(new)'
    BY <2>3, <2>4, <2>5, <2>6 DEF Holds
  <2> QED
    BY <2>7 DEF WholeMessages
<1> QED
  BY <1>1, <1>3, <1>6, <1>7, <1>9, <1>10, <1>11, <1>12, KeptErrors, KeptSent DEF IInv

\* The three outcomes of sendErrors.
LEMMA SendErrorsStep == ASSUME IInv, NEW i \in Indexers, SendErrors(i) PROVE IInv'
<1> USE KindFacts
<1>1. ref \in [Places -> SUBSET Buffer]
  BY RefFacts DEF IInv
<1>2. PICK b \in Buffer :
         /\ Get(BulkPool, b)
         /\ \/ /\ ref[Out(i)] = {}
               /\ ref' = GetTo(ref, b, Batch(i))
               /\ content' = [content EXCEPT ![b] = TextOf(BulkPool, b)]
               /\ UNCHANGED cause
            \/ /\ ref' = GetTo(PutOut(i, ref), b, Batch(i))
               /\ content' = [Reset(ref[Out(i)]) EXCEPT ![b] = TextOf(BulkPool, b)]
               /\ cause' = Forget(ref[Out(i)])
            \/ /\ CanSend(ErrorChan)
               /\ ref' = GetTo(GiveTo(ref, Out(i), ErrorChan), b, Batch(i))
               /\ content' = [content EXCEPT ![b] = TextOf(BulkPool, b)]
               /\ UNCHANGED cause
  BY DEF SendErrors
<1>3. \A p \in Hands : b \notin ref[p]
  BY <1>2, GetIsFree DEF IInv
<1>4. TextOf(BulkPool, b) = <<>>
  BY GetIsEmpty DEF IInv
<1>5. /\ UNCHANGED <<topic, cPc, msgBuf>>
      /\ iPc' \in [Indexers -> {"select", "write", "bulk", "report", "panic", "failed"}]
  BY DEF SendErrors, Goto, IInv, DataOK
<1>6. ASSUME NEW q \in {MsgPool, ErrorChan}, NEW r, ref' = GetTo(r, b, Batch(i)),
             r = GiveTo(ref, Out(i), q) \/ (r = ref /\ ref[Out(i)] = {})
      PROVE  \A x \in Places : ref'[x] = IF x = Batch(i) THEN {b} ELSE IF x = Out(i) THEN {}
                                         ELSE IF x = q THEN (ref[x] \cup ref[Out(i)]) \ {b}
                                         ELSE ref[x] \ {b}
  <2>1. /\ Batch(i) \in Hands /\ Out(i) \in Hands /\ Batch(i) # Out(i)
        /\ Batch(i) # q /\ Out(i) # q /\ q \in Places
    OBVIOUS
  <2>2. /\ r \in [Places -> SUBSET Buffer]
        /\ \A x \in Places : r[x] = IF x = Out(i) THEN {}
                                    ELSE IF x = q THEN ref[x] \cup ref[Out(i)] ELSE ref[x]
    <3>1. CASE r = GiveTo(ref, Out(i), q)
      <4>1. Out(i) \in Places /\ q \in Places /\ Out(i) # q
        BY <2>1
      <4> HIDE KindFacts
      <4> QED
        BY <1>1, <3>1, <4>1 DEF GiveTo
    <3>2. CASE r = ref /\ ref[Out(i)] = {}
      BY <1>1, <3>2
    <3> QED
      BY <1>6, <3>1, <3>2
  <2>3. \A x \in Places : ref'[x] = IF x = Batch(i) THEN {b}
                                    ELSE IF x \in Pools THEN r[x] \ {b} ELSE r[x]
    BY <1>6, <2>1, <2>2 DEF GetTo, Pools
  <2>4. \A x \in Hands : b \notin r[x]
    BY <1>3, <2>1, <2>2
  <2>5. \A x \in Places : x \notin Pools => r[x] = r[x] \ {b}
    BY <2>4
  <2> QED
    BY <2>1, <2>2, <2>3, <2>5
<1>7. ASSUME content' = [content EXCEPT ![b] = TextOf(BulkPool, b)], cause' = cause
      PROVE  DataOK' /\ \A c \in Buffer : content'[c] = IF c = b THEN <<>> ELSE content[c]
  <2>1. \A c \in Buffer : content'[c] = IF c = b THEN <<>> ELSE content[c]
    BY <1>4, <1>7 DEF IInv, DataOK
  <2>2. DataOK'
    BY <1>4, <1>5, <1>7, EmptySeq DEF IInv, DataOK
  <2> QED
    BY <2>1, <2>2
<1>8. CASE /\ ref[Out(i)] = {}
           /\ ref' = GetTo(ref, b, Batch(i))
           /\ content' = [content EXCEPT ![b] = TextOf(BulkPool, b)]
           /\ UNCHANGED cause
  <2>1. \A x \in Places : ref'[x] = IF x = Batch(i) THEN {b} ELSE IF x = Out(i) THEN {}
                                    ELSE IF x = MsgPool THEN (ref[x] \cup ref[Out(i)]) \ {b}
                                    ELSE ref[x] \ {b}
    BY <1>6, <1>8
  <2>2. \A c \in Buffer : content'[c] = IF c = b \/ (MsgPool = MsgPool /\ c \in ref[Out(i)])
                                        THEN <<>> ELSE content[c]
    BY <1>7, <1>8
  <2>3. MsgPool \in {MsgPool, ErrorChan} /\ (MsgPool = ErrorChan => CanSend(ErrorChan))
    OBVIOUS
  <2>4. \A c \in Buffer : MsgPool = ErrorChan \/ c \notin ref[Out(i)] => cause'[c] = cause[c]
    BY <1>8
  <2>5. Get(BulkPool, b) /\ DataOK'
    BY <1>2, <1>7, <1>8
  <2> HIDE KindFacts
  <2> QED
    BY <2>1, <2>2, <2>3, <2>4, <2>5, NewBatchStep, Zenon
<1>9. CASE /\ ref' = GetTo(PutOut(i, ref), b, Batch(i))
           /\ content' = [Reset(ref[Out(i)]) EXCEPT ![b] = TextOf(BulkPool, b)]
           /\ cause' = Forget(ref[Out(i)])
  <2>1. \A x \in Places : ref'[x] = IF x = Batch(i) THEN {b} ELSE IF x = Out(i) THEN {}
                                    ELSE IF x = MsgPool THEN (ref[x] \cup ref[Out(i)]) \ {b}
                                    ELSE ref[x] \ {b}
    BY <1>6, <1>9 DEF PutOut
  <2>2. \A c \in Buffer : content'[c] = IF c = b \/ (MsgPool = MsgPool /\ c \in ref[Out(i)])
                                        THEN <<>> ELSE content[c]
    BY <1>4, <1>9 DEF Reset
  <2>3. DataOK'
    <3>1. content' \in [Buffer -> Seq(Line \cup {EmptyLine})]
      <4> DEFINE T == Seq(Line \cup {EmptyLine})
      <4>1. <<>> \in T /\ content \in [Buffer -> T]
        BY EmptySeq DEF IInv, DataOK
      <4> HIDE DEF T
      <4>2. Reset(ref[Out(i)]) \in [Buffer -> T]
        BY <4>1 DEF Reset
      <4>3. content' \in [Buffer -> T]
        BY <1>4, <1>9, <4>1, <4>2
      <4> QED
        BY <4>3 DEF T
    <3>2. cause' \in [Buffer -> [request : Seq(Line), failed : SUBSET Actions]]
      BY <1>9, EmptySeq DEF Forget, NoCause, IInv, DataOK
    <3> QED
      BY <1>5, <3>1, <3>2 DEF IInv, DataOK
  <2>4. MsgPool \in {MsgPool, ErrorChan} /\ (MsgPool = ErrorChan => CanSend(ErrorChan))
    OBVIOUS
  <2>5. \A c \in Buffer : MsgPool = ErrorChan \/ c \notin ref[Out(i)] => cause'[c] = cause[c]
    <3>1. MsgPool # ErrorChan
      OBVIOUS
    <3> HIDE KindFacts
    <3> QED
      BY <1>9, <3>1 DEF Forget
  <2>6. Get(BulkPool, b)
    BY <1>2
  <2> HIDE KindFacts
  <2> QED
    BY <2>1, <2>2, <2>3, <2>4, <2>5, <2>6, NewBatchStep, Zenon
<1>10. CASE /\ CanSend(ErrorChan)
            /\ ref' = GetTo(GiveTo(ref, Out(i), ErrorChan), b, Batch(i))
            /\ content' = [content EXCEPT ![b] = TextOf(BulkPool, b)]
            /\ UNCHANGED cause
  <2>1. \A x \in Places : ref'[x] = IF x = Batch(i) THEN {b} ELSE IF x = Out(i) THEN {}
                                    ELSE IF x = ErrorChan THEN (ref[x] \cup ref[Out(i)]) \ {b}
                                    ELSE ref[x] \ {b}
    BY <1>6, <1>10
  <2>2. ErrorChan # MsgPool /\ ErrorChan \in {MsgPool, ErrorChan} /\ DataOK'
    BY <1>7, <1>10
  <2>3. \A c \in Buffer : content'[c] = IF c = b \/ (ErrorChan = MsgPool /\ c \in ref[Out(i)])
                                        THEN <<>> ELSE content[c]
    BY <1>7, <1>10, <2>2
  <2>4. ErrorChan = ErrorChan => CanSend(ErrorChan)
    BY <1>10
  <2>5. \A c \in Buffer : ErrorChan = ErrorChan \/ c \notin ref[Out(i)] => cause'[c] = cause[c]
    BY <1>10
  <2>6. Get(BulkPool, b)
    BY <1>2
  <2> HIDE KindFacts
  <2> QED
    BY <2>1, <2>2, <2>3, <2>4, <2>5, <2>6, NewBatchStep, Zenon
<1> QED
  BY <1>2, <1>8, <1>9, <1>10

\* One lemma for each action above.
LEMMA IInvStep == IInv /\ [Next]_vars => IInv'
<1> SUFFICES ASSUME IInv, [Next]_vars PROVE IInv'
  OBVIOUS
<1>1. CASE UNCHANGED vars
  <2> USE DEF IInv, vars
  <2>1. Owned(ref)' /\ Counts' /\ DataOK'
    BY <1>1 DEF Counts, SingleAt, BoundedAt, DataOK
  <2>2. HoldsBuffer' /\ PoolsClean' /\ SentIntact'
    BY <1>1 DEF HoldsBuffer, PoolsClean, SentIntact
  <2>3. WholeMessages' /\ ErrorsExact'
    BY <1>1 DEF WholeMessages, Holds, ErrorsExact, Exact
  <2> QED
    BY <2>1, <2>2, <2>3
<1>2. ASSUME NEW i \in Indexers, Indexer(i) PROVE IInv'
  BY <1>2, IndexerRecvStep, BulkWriteStep, IndexerFailsStep, SendToESStep, NoErrorsFoundStep, ParseESErrorsStep,
     SendErrorsStep DEF Indexer
<1> QED
  BY <1>1, <1>2, ConsumerCopyStep, ConsumerSendStep, ConsumerTraceStep, ProducerRecvStep,
     ProduceStep DEF Next

\* The inductive invariant holds in every state.
LEMMA IInvAlways == Spec => []IInv
  BY IInvInit, IInvStep, PTL DEF Spec

\* Types, and bounds: a variable refers to one buffer, a channel to ChanCap of them.
THEOREM TypeCorrect == Spec => []TypeOK
  BY IInvAlways, Consequences, PTL

\* Requests: whatever order buffers are reused in, a batch consists of whole messages,
\* each as it was polled and none of them twice.
THEOREM BatchesAreWholeTheorem == Spec => []BatchesAreWhole
  BY IInvAlways, Consequences, PTL

\* Republishing: what parseESErrors wrote reaches the producer unchanged and is, line for
\* line, what failed, if every action of the request has a source line.
THEOREM FailedLinesExactTheorem == Spec => []FailedLinesExact
  BY IInvAlways, Consequences, PTL

\* The consumer's late read at trace level sees its message until an indexer has Put it.
THEOREM TraceTheorem == Spec => []TraceSeesMessageUntilPut
  BY IInvAlways, Consequences, PTL

\* parseESErrors never indexes out of range for a request of two-line actions.
THEOREM PanicTheorem == Spec => PanicsOnlyOnOneLine
<1>1. ASSUME IInv, [Next]_vars
      PROVE  [\A i \in Indexers : iPc[i] # "panic" /\ iPc'[i] = "panic" =>
                \E l \in ToSet(TextAt(Batch(i))) : l[1] \in OneLine]_vars
  <2> SUFFICES ASSUME Next, NEW i \in Indexers, iPc[i] # "panic", iPc'[i] = "panic"
               PROVE  \E l \in ToSet(TextAt(Batch(i))) : l[1] \in OneLine
    BY <1>1
  <2>0. iPc \in [Indexers -> {"select", "write", "bulk", "report", "panic", "failed"}]
    BY <1>1 DEF IInv, DataOK
  <2>1. PICK j \in Indexers : Indexer(j)
    BY DEF Next, ConsumerCopy, ConsumerSend, ConsumerTrace, ProducerRecv, Produce
  <2>2. j = i /\ ParseESErrors(i)
    <3>1. \E pc : Goto(j, pc) /\ (pc = "panic" => ParseESErrors(j))
      <4>1. CASE ParseESErrors(j)
        BY <4>1 DEF ParseESErrors
      <4>2. CASE ~ParseESErrors(j)
        BY <2>1, <4>2
        DEF Indexer, IndexerRecv, BulkWrite, IndexerFails, SendToES, NoErrorsFound, SendErrors
      <4> QED
        BY <4>1, <4>2
    <3> QED
      BY <2>0, <3>1 DEF Goto
  <2>3. PICK ended \in BOOLEAN : \E failed : OutOfRange(TextAt(Batch(i)), failed, ended)
    BY <2>0, <2>2 DEF ParseESErrors, Goto
  <2>4. PICK d \in ref[Batch(i)] : TRUE
    BY <1>1, <2>2 DEF ParseESErrors, IInv, HoldsBuffer
  <2>5. PICK a \in Seq(Actions) : TextAt(Batch(i)) = Payload(a)
    BY <1>1, <2>4, RequestFacts
  <2>6. ToSet(a) \cap OneLine # {}
    BY <2>3, <2>5, ErrorLinesExact
  <2>7. PICK x \in ToSet(a) : x \in OneLine
    BY <2>6
  <2>8. <<x, 1>> \in ToSet(Payload(a))
    BY <2>7, FirstLines
  <2> QED
    BY <2>5, <2>7, <2>8
<1> QED
  BY <1>1, IInvAlways, PTL DEF Spec, PanicsOnlyOnOneLine

\* Ownership: no buffer is ever at two places, and the consumer's variable refers to no buffer
\* that is elsewhere, except while it logs at trace level the message that it has sent.
THEOREM NoSharingTheorem == Spec => []NoSharing
<1>1. IInv => NoSharing
  <2> SUFFICES ASSUME IInv PROVE NoSharing
    OBVIOUS
  <2>1. Exclusive(ref)
    BY DEF IInv, Owned
  <2>2. ASSUME cPc # "trace", NEW p \in Places \ {Polled} PROVE msgBuf.buf \cap ref[p] = {}
    <3>1. CASE cPc = "send"
      BY <2>1, <3>1, KindFacts DEF Exclusive, IInv, HoldsBuffer
    <3>2. CASE cPc = "poll"
      BY <3>2 DEF IInv, HoldsBuffer
    <3> QED
      BY <2>2, <3>1, <3>2 DEF IInv, DataOK
  <2> QED
    BY <2>1, <2>2 DEF NoSharing
<1> QED
  BY <1>1, IInvAlways, PTL
=============================================================================
