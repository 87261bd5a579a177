--------------------------- MODULE SequenceLemmas ---------------------------
(***************************************************************************)
(* What the proofs about the stream need of sequences and the library does *)
(* not prove: FlattenSeq, mapping and flattening, cutting in two, and the  *)
(* first occurrence of a mark.  Where a proof would go by induction on the *)
(* length, it takes the least length at which the claim fails.             *)
(*                                                                         *)
(* A hypothesis or a conclusion has a name of its own where the provers    *)
(* would otherwise lose their way among the concatenations.                *)
(***************************************************************************)
EXTENDS Integers, Sequences, SequencesExt, SequenceTheorems, WellFoundedInduction, TLAPS

(* A set of numbers has a least one.                                       *)
LEMMA LeastNumber ==
  ASSUME NEW T, T \subseteq Nat, T # {}
  PROVE  \E n \in T : \A m \in T : n <= m
<1> DEFINE Less == {ss \in Nat \X Nat : ss[1] < ss[2]}
<1>1. IsWellFoundedOn(Less, Nat)
  BY NatLessThanWellFounded DEF OpToRel
<1> HIDE DEF Less
<1>2. PICK n \in T : \A m \in T : ~ (<<m, n>> \in Less)
  BY <1>1, WFMin
<1>3. n \in Nat
  OBVIOUS
<1>4. ASSUME NEW m \in T PROVE n <= m
  <2>1. m \in Nat /\ ~ (m < n)
    BY <1>2, <1>3 DEF Less
  <2> QED
    BY <1>3, <2>1
<1> QED
  BY <1>4

-----------------------------------------------------------------------------
(* Concatenation is associative, with a name for the equation.             *)
Moves(s, t, u) == (s \o t) \o u = s \o (t \o u)

LEMMA MovesSeq ==
  ASSUME NEW S, NEW s \in Seq(S), NEW t \in Seq(S), NEW u \in Seq(S)
  PROVE  Moves(s, t, u)
BY ConcatAssociative DEF Moves

IsJoined(w, s, t) ==
    /\ w = s \o t
    /\ Len(w) = Len(s) + Len(t)
    /\ \A i \in 1..Len(s) + Len(t) : w[i] = IF i <= Len(s) THEN s[i] ELSE t[i - Len(s)]

(* What a concatenation is, element by element.                            *)
LEMMA JoinedSeq ==
  ASSUME NEW S, NEW s \in Seq(S), NEW t \in Seq(S)
  PROVE  \E w \in Seq(S) : IsJoined(w, s, t)
<1>1. s \o t \in Seq(S) /\ IsJoined(s \o t, s, t)
  BY ConcatProperties DEF IsJoined
<1> QED
  BY <1>1

-----------------------------------------------------------------------------
(* FlattenSeq, which is defined by recursion on the length.                  *)
Agree(n, q, r) == \A i \in 1..n : q[i] = r[i]
SumsTo(n, q, f) == \A i \in 1..n : f[i] = IF i = 1 THEN q[i] ELSE f[i - 1] \o q[i]
Sums(S, q, f) == f \in [1..Len(q) -> Seq(S)] /\ SumsTo(Len(q), q, f)

(* A sequence of sequences has sums: the nth joins the first n of them.    *)
LEMMA SumsExist ==
  ASSUME NEW S, NEW q \in Seq(Seq(S)), q # <<>>
  PROVE  \E f : Sums(S, q, f)
<1> DEFINE Partial(n, f) == f \in [1..n -> Seq(S)] /\ SumsTo(n, q, f)
<1> DEFINE Bad == {n \in 1..Len(q) : ~ \E f : Partial(n, f)}
<1>q. /\ Len(q) \in Nat \ {0}
      /\ \A i \in 1..Len(q) : q[i] \in Seq(S)
  BY EmptySeq, ElementOfSeq
<1>1. ASSUME Bad # {} PROVE FALSE
  <2>1. PICK n \in Bad : \A m \in Bad : n <= m
    <3>1. Bad \subseteq Nat
      BY <1>q
    <3> HIDE DEF Bad
    <3> QED
      BY <1>1, <3>1, LeastNumber
  <2>2. n \in 1..Len(q) /\ n \in Nat
    BY <1>q
  <2>3. CASE n = 1
    <3> DEFINE f == [i \in 1..1 |-> q[1]]
    <3>1. Partial(1, f)
      BY <1>q DEF SumsTo
    <3> HIDE DEF f
    <3> QED
      BY <2>3, <3>1
  <2>4. CASE n # 1
    <3>1. n - 1 \in 1..Len(q) /\ ~ (n <= n - 1)
      BY <1>q, <2>2, <2>4
    <3>2. n - 1 \notin Bad
      BY <2>1, <3>1
    <3>3. PICK f : Partial(n - 1, f)
      BY <3>1, <3>2
    <3> DEFINE g == [i \in 1..n |-> IF i = n THEN f[n - 1] \o q[n] ELSE f[i]]
    <3>4. f[n - 1] \in Seq(S)
      BY <3>1, <3>3
    <3>5. f[n - 1] \o q[n] \in Seq(S)
      BY <1>q, <2>2, <3>4, ConcatProperties
    <3>6. g \in [1..n -> Seq(S)]
      BY <2>2, <3>3, <3>5
    <3>7. ASSUME NEW i \in 1..n PROVE g[i] = IF i = 1 THEN q[i] ELSE g[i - 1] \o q[i]
      <4>1. CASE i = n
        <5>1. n \in 1..n /\ n - 1 \in 1..n /\ n - 1 # n
          BY <2>2, <2>4
        <5>2. g[n - 1] = f[n - 1]
          BY <5>1
        <5>3. g[n] = f[n - 1] \o q[n]
          BY <5>1
        <5> QED
          BY <2>4, <4>1, <5>2, <5>3
      <4>2. CASE i # n
        <5>1. i \in 1..n - 1
          BY <2>2, <4>2
        <5>2. f[i] = IF i = 1 THEN q[i] ELSE f[i - 1] \o q[i]
          BY <3>3, <5>1 DEF SumsTo
        <5>3. g[i] = f[i] /\ (i # 1 => g[i - 1] = f[i - 1])
          BY <2>2, <5>1
        <5> QED
          BY <5>2, <5>3
      <4> QED
        BY <4>1, <4>2
    <3>8. Partial(n, g)
      BY <3>6, <3>7 DEF SumsTo
    <3> HIDE DEF g
    <3> QED
      BY <2>1, <3>8
  <2> QED
    BY <2>3, <2>4
<1>2. Len(q) \in 1..Len(q)
  BY <1>q
<1> QED
  BY <1>1, <1>2 DEF Sums

(* Sums depend on no more than the elements summed.                        *)
LEMMA SumsAgree ==
  ASSUME NEW q, NEW r, NEW f, NEW g, NEW n \in Nat,
         Agree(n, q, r), SumsTo(n, q, f), SumsTo(n, r, g)
  PROVE  Agree(n, f, g)
<1> DEFINE Bad == {i \in 1..n : f[i] # g[i]}
<1>1. ASSUME Bad # {} PROVE FALSE
  <2>1. PICK i \in Bad : \A j \in Bad : i <= j
    <3>1. Bad \subseteq Nat
      OBVIOUS
    <3> HIDE DEF Bad
    <3> QED
      BY <1>1, <3>1, LeastNumber
  <2>2. i \in 1..n /\ i \in Nat
    OBVIOUS
  <2>3. i # 1
    BY <2>1, <2>2 DEF SumsTo, Agree
  <2>4. i - 1 \in 1..n /\ ~ (i <= i - 1)
    BY <2>2, <2>3
  <2>5. f[i - 1] = g[i - 1]
    BY <2>1, <2>4
  <2>6. f[i] = f[i - 1] \o q[i] /\ g[i] = g[i - 1] \o r[i] /\ q[i] = r[i]
    BY <2>2, <2>3 DEF SumsTo, Agree
  <2> QED
    BY <2>1, <2>5, <2>6
<1> QED
  BY <1>1 DEF Agree

(* FlattenSeq is the last of the sums.                                     *)
LEMMA FlattenIsSum ==
  ASSUME NEW S, NEW q \in Seq(Seq(S)), q # <<>>
  PROVE  \E f : Sums(S, q, f) /\ FlattenSeq(q) = f[Len(q)]
<1> DEFINE Eq(f) == f = [i \in 1..Len(q) |-> IF i = 1 THEN q[i] ELSE f[i - 1] \o q[i]]
<1>1. PICK f : Sums(S, q, f)
  BY SumsExist
<1>2. Eq(f)
  BY <1>1 DEF Sums, SumsTo
<1> DEFINE flatten == CHOOSE g : Eq(g)
<1>3. Eq(flatten)
  <2> HIDE DEF Eq
  <2> QED
    BY <1>2, Zenon
<1>4. Len(q) \in Nat \ {0}
  BY EmptySeq
<1>5. FlattenSeq(q) = flatten[Len(q)]
  BY <1>4 DEF FlattenSeq
<1> HIDE DEF flatten
<1>6. Agree(Len(q), f, flatten)
  <2>1. SumsTo(Len(q), q, flatten)
    BY <1>3 DEF SumsTo
  <2>2. SumsTo(Len(q), q, f)
    BY <1>1 DEF Sums
  <2> QED
    BY <1>4, <2>1, <2>2, SumsAgree DEF Agree
<1>7. f[Len(q)] = flatten[Len(q)]
  BY <1>4, <1>6 DEF Agree
<1> QED
  BY <1>1, <1>5, <1>7

LEMMA FlattenEmpty == FlattenSeq(<<>>) = <<>>
BY DEF FlattenSeq

(* Flattening sequences over S gives a sequence over S.                    *)
LEMMA FlattenType ==
  ASSUME NEW S, NEW q \in Seq(Seq(S))
  PROVE  FlattenSeq(q) \in Seq(S)
<1>1. CASE q = <<>>
  BY <1>1, FlattenEmpty, EmptySeq
<1>2. CASE q # <<>>
  <2>1. PICK f : Sums(S, q, f) /\ FlattenSeq(q) = f[Len(q)]
    BY <1>2, FlattenIsSum
  <2>2. Len(q) \in 1..Len(q)
    BY <1>2, EmptySeq
  <2> QED
    BY <2>1, <2>2 DEF Sums
<1> QED
  BY <1>1, <1>2

(* Flattening one more sequence at the end joins it at the end.            *)
LEMMA FlattenAppend ==
  ASSUME NEW S, NEW q \in Seq(Seq(S)), NEW e \in Seq(S)
  PROVE  FlattenSeq(Append(q, e)) = FlattenSeq(q) \o e
<1> DEFINE r == Append(q, e)
<1>1. /\ r \in Seq(Seq(S)) /\ r # <<>>
      /\ Len(r) = Len(q) + 1
      /\ \A i \in 1..Len(q) : r[i] = q[i]
      /\ r[Len(q) + 1] = e
  BY AppendProperties
<1>2. Len(q) \in Nat
  BY LenProperties
<1> HIDE DEF r
<1>3. PICK g : Sums(S, r, g) /\ FlattenSeq(r) = g[Len(r)]
  BY <1>1, FlattenIsSum
<1>4. CASE q = <<>>
  <2>1. Len(q) = 0
    BY <1>4
  <2>2. g[1] = r[1]
    BY <1>1, <1>3, <2>1 DEF Sums, SumsTo
  <2>3. FlattenSeq(r) = e
    BY <1>1, <1>3, <2>1, <2>2
  <2> QED
    BY <1>4, <2>3, FlattenEmpty, ConcatEmptySeq DEF r
<1>5. CASE q # <<>>
  <2>1. PICK f : Sums(S, q, f) /\ FlattenSeq(q) = f[Len(q)]
    BY <1>5, FlattenIsSum
  <2>2. Len(q) \in 1..Len(q)
    BY <1>5, EmptySeq
  <2>3. \A i \in 1..Len(q) : g[i] = f[i]
    <3>1. SumsTo(Len(r), r, g)
      BY <1>3 DEF Sums
    <3>2. SumsTo(Len(q), r, g)
      BY <1>1, <1>2, <3>1 DEF SumsTo
    <3>3. SumsTo(Len(q), q, f)
      BY <2>1 DEF Sums
    <3>4. Agree(Len(q), q, r)
      BY <1>1 DEF Agree
    <3>5. Agree(Len(q), f, g)
      BY <1>2, <3>2, <3>3, <3>4, SumsAgree
    <3> QED
      BY <3>5 DEF Agree
  <2>4. g[Len(q) + 1] = g[Len(q)] \o r[Len(q) + 1]
    <3>1. /\ Len(q) + 1 \in 1..Len(r) /\ Len(q) + 1 # 1
          /\ Len(q) + 1 - 1 = Len(q)
      BY <1>1, <1>2, <2>2
    <3>2. SumsTo(Len(r), r, g)
      BY <1>3 DEF Sums
    <3>3. ASSUME NEW i \in 1..Len(r), i # 1 PROVE g[i] = g[i - 1] \o r[i]
      BY <3>2, <3>3 DEF SumsTo
    <3>4. g[Len(q) + 1] = g[(Len(q) + 1) - 1] \o r[Len(q) + 1]
      BY <3>1, <3>3
    <3> QED
      <4> DEFINE k == (Len(q) + 1) - 1
      <4>1. k = Len(q)
        BY <3>1
      <4>2. g[Len(q) + 1] = g[k] \o r[Len(q) + 1]
        BY <3>4
      <4> HIDE DEF k
      <4> QED
        BY <4>1, <4>2
  <2>5. g[Len(q)] = f[Len(q)]
    BY <2>2, <2>3
  <2> QED
    BY <1>1, <1>3, <2>1, <2>4, <2>5 DEF r
<1> QED
  BY <1>4, <1>5

(* Flattening one more sequence at the front joins it at the front.        *)
LEMMA FlattenCons ==
  ASSUME NEW S, NEW e \in Seq(S), NEW r \in Seq(Seq(S))
  PROVE  FlattenSeq(<<e>> \o r) = e \o FlattenSeq(r)
<1> DEFINE Wrong(q) == FlattenSeq(<<e>> \o q) # e \o FlattenSeq(q)
<1> DEFINE Bad == {n \in Nat : \E q \in Seq(Seq(S)) : Len(q) = n /\ Wrong(q)}
<1>e. <<e>> \in Seq(Seq(S))
  OBVIOUS
<1>1. ASSUME Bad # {} PROVE FALSE
  <2>1. PICK n \in Bad : \A m \in Bad : n <= m
    <3>1. Bad \subseteq Nat
      OBVIOUS
    <3> HIDE DEF Bad
    <3> QED
      BY <1>1, <3>1, LeastNumber
  <2>2. n \in Nat
    OBVIOUS
  <2>3. PICK q \in Seq(Seq(S)) : Len(q) = n /\ Wrong(q)
    OBVIOUS
  <2>4. CASE q = <<>>
    <3>1. <<e>> \o q = <<e>> /\ <<e>> = Append(q, e)
      BY <1>e, <2>4, ConcatEmptySeq
    <3>2. FlattenSeq(<<e>>) = FlattenSeq(q) \o e
      BY <3>1, FlattenAppend
    <3>3. FlattenSeq(q) \o e = e /\ e \o FlattenSeq(q) = e
      BY <2>4, FlattenEmpty, ConcatEmptySeq
    <3> QED
      BY <2>3, <3>1, <3>2, <3>3
  <2>5. CASE q # <<>>
    <3>1. PICK p \in Seq(Seq(S)), x \in Seq(S) : q = Append(p, x)
      BY <2>5, SequenceEmptyOrAppend
    <3>2. Len(p) \in Nat /\ Len(q) = Len(p) + 1
      BY <3>1, AppendProperties, LenProperties
    <3>3. Len(p) \notin Bad
      <4> HIDE DEF Bad
      <4>1. ~ (n <= Len(p))
        BY <2>2, <2>3, <3>2
      <4> QED
        BY <2>1, <4>1
    <3>4. FlattenSeq(<<e>> \o p) = e \o FlattenSeq(p)
      BY <3>2, <3>3
    <3>5. /\ <<e>> \o q = Append(<<e>> \o p, x)
          /\ <<e>> \o p \in Seq(Seq(S))
      <4>1. <<e>> \o p \in Seq(Seq(S))
        BY <1>e, ConcatProperties
      <4>2. <<x>> \in Seq(Seq(S)) /\ q = p \o <<x>>
        BY <3>1, AppendIsConcat
      <4>3. Append(<<e>> \o p, x) = (<<e>> \o p) \o <<x>>
        BY <4>1, AppendIsConcat
      <4>4. Moves(<<e>>, p, <<x>>)
        BY <1>e, <4>2, MovesSeq
      <4> QED
        BY <4>1, <4>2, <4>3, <4>4 DEF Moves
    <3>6. FlattenSeq(<<e>> \o q) = (e \o FlattenSeq(p)) \o x
      BY <3>4, <3>5, FlattenAppend
    <3>7. FlattenSeq(p) \in Seq(S) /\ FlattenSeq(q) = FlattenSeq(p) \o x
      BY <3>1, FlattenType, FlattenAppend
    <3>8. (e \o FlattenSeq(p)) \o x = e \o (FlattenSeq(p) \o x)
      <4>1. Moves(e, FlattenSeq(p), x)
        BY <3>7, MovesSeq
      <4> QED
        BY <4>1 DEF Moves
    <3> QED
      BY <2>3, <3>6, <3>7, <3>8
  <2> QED
    BY <2>4, <2>5
<1>2. Len(r) \in Nat
  BY LenProperties
<1> QED
  BY <1>1, <1>2

-----------------------------------------------------------------------------
(* What F makes of the elements, one after the other, and put together.      *)
Mapped(F, q) == [i \in DOMAIN q |-> F[q[i]]]
FlatMap(F, q) == FlattenSeq(Mapped(F, q))

(* A function on 1..n is a sequence.                                       *)
LEMMA FunctionIsSeq ==
  ASSUME NEW T, NEW n \in Nat, NEW f \in [1..n -> T]
  PROVE  f \in Seq(T)
BY SeqDef

IsMapped(p, F, q) ==
    /\ p = Mapped(F, q)
    /\ Len(p) = Len(q)
    /\ \A i \in 1..Len(q) : p[i] = F[q[i]]

(* What a mapped sequence is, element by element.                          *)
LEMMA MappedSeq ==
  ASSUME NEW A, NEW S, NEW F \in [A -> Seq(S)], NEW q \in Seq(A)
  PROVE  \E p \in Seq(Seq(S)) : IsMapped(p, F, q)
<1>1. DOMAIN q = 1..Len(q) /\ Len(q) \in Nat /\ \A i \in 1..Len(q) : q[i] \in A
  BY LenProperties, ElementOfSeq
<1>2. Mapped(F, q) \in [1..Len(q) -> Seq(S)] /\ \A i \in 1..Len(q) : Mapped(F, q)[i] = F[q[i]]
  BY <1>1 DEF Mapped
<1>3. Mapped(F, q) \in Seq(Seq(S)) /\ Len(Mapped(F, q)) = Len(q)
  <2> DEFINE p == Mapped(F, q)
  <2> HIDE DEF p
  <2>1. PICK n \in Nat : n = Len(q) /\ p \in [1..n -> Seq(S)]
    BY <1>1, <1>2 DEF p
  <2>2. p \in Seq(Seq(S))
    BY <2>1, FunctionIsSeq
  <2>3. Len(p) = n
    BY <2>1
  <2> QED
    BY <2>1, <2>2, <2>3 DEF p
<1> QED
  BY <1>2, <1>3 DEF IsMapped

(* Mapping to sequences over S and flattening gives one over S.            *)
LEMMA FlatMapType ==
  ASSUME NEW A, NEW S, NEW F \in [A -> Seq(S)], NEW q \in Seq(A)
  PROVE  FlatMap(F, q) \in Seq(S)
<1>1. PICK p \in Seq(Seq(S)) : IsMapped(p, F, q)
  BY MappedSeq
<1> QED
  BY <1>1, FlattenType DEF FlatMap, IsMapped

(* Nothing maps to nothing.                                                *)
LEMMA FlatMapEmpty == \A F : FlatMap(F, <<>>) = <<>>
<1> TAKE F
<1>1. Mapped(F, <<>>) = <<>>
  BY DEF Mapped
<1> QED
  BY <1>1, FlattenEmpty DEF FlatMap

(* One more element at the end is mapped at the end.                       *)
MapsAppend(F, q, a) == FlatMap(F, Append(q, a)) = FlatMap(F, q) \o F[a]
LEMMA FlatMapAppend ==
  ASSUME NEW A, NEW S, NEW F \in [A -> Seq(S)], NEW q \in Seq(A), NEW a \in A
  PROVE  MapsAppend(F, q, a)
<1>1. PICK r \in Seq(A), e \in Seq(S) :
        /\ r = Append(q, a) /\ e = F[a] /\ Len(r) = Len(q) + 1
        /\ (\A i \in 1..Len(q) : r[i] = q[i]) /\ r[Len(q) + 1] = a
  <2>1. /\ Append(q, a) \in Seq(A) /\ Len(Append(q, a)) = Len(q) + 1
        /\ \A i \in 1..Len(q) : Append(q, a)[i] = q[i]
        /\ Append(q, a)[Len(q) + 1] = a
    BY AppendProperties
  <2> QED
    BY <2>1
<1>2. PICK p \in Seq(Seq(S)) :
        /\ p = Mapped(F, q) /\ Len(p) = Len(q)
        /\ \A i \in 1..Len(q) : p[i] = F[q[i]]
  <2>1. PICK p \in Seq(Seq(S)) : IsMapped(p, F, q)
    BY MappedSeq
  <2> QED
    BY <2>1 DEF IsMapped
<1>3. PICK t \in Seq(Seq(S)) :
        /\ t = Mapped(F, r) /\ Len(t) = Len(r)
        /\ \A i \in 1..Len(r) : t[i] = F[r[i]]
  <2>1. PICK t \in Seq(Seq(S)) : IsMapped(t, F, r)
    BY MappedSeq
  <2> QED
    BY <2>1 DEF IsMapped
<1>4. PICK u \in Seq(Seq(S)) : /\ u = Append(p, e) /\ Len(u) = Len(p) + 1
                               /\ (\A i \in 1..Len(p) : u[i] = p[i]) /\ u[Len(p) + 1] = e
  <2>1. /\ Append(p, e) \in Seq(Seq(S)) /\ Len(Append(p, e)) = Len(p) + 1
        /\ \A i \in 1..Len(p) : Append(p, e)[i] = p[i]
        /\ Append(p, e)[Len(p) + 1] = e
    BY AppendProperties
  <2> QED
    BY <2>1
<1>5. t = u
  <2>1. Len(q) \in Nat
    BY LenProperties
  <2>2. Len(t) = Len(u)
    BY <1>1, <1>2, <1>3, <1>4
  <2>3. ASSUME NEW i \in 1..Len(t) PROVE t[i] = u[i]
    <3>1. t[i] = F[r[i]] /\ i \in 1..Len(q) + 1
      BY <1>1, <1>3
    <3>2. CASE i = Len(q) + 1
      BY <1>1, <1>2, <1>4, <3>1, <3>2
    <3>3. CASE i \in 1..Len(q)
      BY <1>1, <1>2, <1>4, <3>1, <3>3
    <3>4. i = Len(q) + 1 \/ i \in 1..Len(q)
      <4>1. \A j \in 1..Len(q) + 1 : j = Len(q) + 1 \/ j \in 1..Len(q)
        BY <2>1
      <4> QED
        BY <3>1, <4>1
    <3> QED
      BY <3>2, <3>3, <3>4
  <2> QED
    BY <2>2, <2>3, SeqEqual
<1>6. FlattenSeq(u) = FlattenSeq(p) \o e
  BY <1>4, FlattenAppend
<1> QED
  BY <1>1, <1>2, <1>3, <1>5, <1>6 DEF FlatMap, MapsAppend

(* One more element at the front is mapped at the front.                   *)
MapsCons(F, a, q) == FlatMap(F, <<a>> \o q) = F[a] \o FlatMap(F, q)
LEMMA FlatMapCons ==
  ASSUME NEW A, NEW S, NEW F \in [A -> Seq(S)], NEW q \in Seq(A), NEW a \in A
  PROVE  MapsCons(F, a, q)
<1>1. /\ Len(q) \in Nat /\ F[a] \in Seq(S)
      /\ <<a>> \in Seq(A) /\ Len(<<a>>) = 1 /\ <<a>>[1] = a
  BY LenProperties
<1>2. PICK e \in Seq(S) : e = F[a]
  BY <1>1
<1>3. /\ <<e>> \in Seq(Seq(S)) /\ Len(<<e>>) = 1 /\ <<e>>[1] = e
  OBVIOUS
<1>4. PICK r \in Seq(A) :
        /\ r = <<a>> \o q /\ Len(r) = Len(q) + 1
        /\ \A i \in 1..Len(q) + 1 : r[i] = IF i = 1 THEN a ELSE q[i - 1]
  <2>1. /\ <<a>> \o q \in Seq(A) /\ Len(<<a>> \o q) = 1 + Len(q)
        /\ \A i \in 1..1 + Len(q) : (<<a>> \o q)[i] = IF i <= 1 THEN <<a>>[i] ELSE q[i - 1]
    BY <1>1, ConcatProperties
  <2>2. PICK r \in Seq(A) : r = <<a>> \o q
    BY <2>1
  <2>3. Len(r) = Len(q) + 1 /\ \A i \in 1..Len(q) + 1 : r[i] = IF i = 1 THEN a ELSE q[i - 1]
    BY <1>1, <2>1, <2>2
  <2> QED
    BY <2>2, <2>3
<1>5. PICK p \in Seq(Seq(S)) :
        /\ p = Mapped(F, q) /\ Len(p) = Len(q)
        /\ \A i \in 1..Len(q) : p[i] = F[q[i]]
  <2>1. PICK p \in Seq(Seq(S)) : IsMapped(p, F, q)
    BY MappedSeq
  <2> QED
    BY <2>1 DEF IsMapped
<1>6. PICK t \in Seq(Seq(S)) :
        /\ t = Mapped(F, r) /\ Len(t) = Len(r)
        /\ \A i \in 1..Len(r) : t[i] = F[r[i]]
  <2>1. PICK t \in Seq(Seq(S)) : IsMapped(t, F, r)
    BY MappedSeq
  <2> QED
    BY <2>1 DEF IsMapped
<1>7. PICK u \in Seq(Seq(S)) :
        /\ u = <<e>> \o p /\ Len(u) = Len(p) + 1
        /\ \A i \in 1..Len(p) + 1 : u[i] = IF i = 1 THEN e ELSE p[i - 1]
  <2>1. /\ <<e>> \o p \in Seq(Seq(S)) /\ Len(<<e>> \o p) = 1 + Len(p)
        /\ \A i \in 1..1 + Len(p) : (<<e>> \o p)[i] = IF i <= 1 THEN <<e>>[i] ELSE p[i - 1]
    BY <1>3, ConcatProperties
  <2>2. PICK u \in Seq(Seq(S)) : u = <<e>> \o p
    BY <2>1
  <2>3. Len(p) \in Nat
    BY LenProperties
  <2>4. Len(u) = Len(p) + 1 /\ \A i \in 1..Len(p) + 1 : u[i] = IF i = 1 THEN e ELSE p[i - 1]
    BY <1>3, <2>1, <2>2, <2>3
  <2> QED
    BY <2>2, <2>4
<1>8. t = u
  <2>1. Len(t) = Len(u)
    BY <1>4, <1>5, <1>6, <1>7
  <2>2. ASSUME NEW i \in 1..Len(t) PROVE t[i] = u[i]
    <3>1. i \in 1..Len(q) + 1 /\ t[i] = F[r[i]]
      BY <1>4, <1>6
    <3>2. r[i] = (IF i = 1 THEN a ELSE q[i - 1]) /\ u[i] = (IF i = 1 THEN e ELSE p[i - 1])
      BY <1>4, <1>5, <1>7, <3>1
    <3>3. CASE i = 1
      BY <1>2, <3>1, <3>2, <3>3
    <3>4. CASE i # 1
      <4>1. i - 1 \in 1..Len(q)
        BY <1>1, <3>1, <3>4
      <4>2. p[i - 1] = F[q[i - 1]]
        BY <1>5, <4>1
      <4> QED
        BY <3>1, <3>2, <3>4, <4>2
    <3> QED
      BY <3>3, <3>4
  <2> QED
    BY <2>1, <2>2, SeqEqual
<1>9. FlattenSeq(u) = e \o FlattenSeq(p)
  BY <1>7, FlattenCons
<1> QED
  BY <1>2, <1>4, <1>5, <1>6, <1>8, <1>9 DEF FlatMap, MapsCons

-----------------------------------------------------------------------------
(* Cutting a sequence in two, and telling where it was cut.                  *)
(* The two parts of a sequence cut after its nth element.                  *)
LEMMA CutProperties ==
  ASSUME NEW S, NEW s \in Seq(S), NEW n \in 0..Len(s)
  PROVE  /\ SubSeq(s, 1, n) \in Seq(S) /\ Len(SubSeq(s, 1, n)) = n
         /\ SubSeq(s, n + 1, Len(s)) \in Seq(S)
         /\ Len(SubSeq(s, n + 1, Len(s))) = Len(s) - n
         /\ SubSeq(s, 1, n) \o SubSeq(s, n + 1, Len(s)) = s
         /\ \A i \in 1..n : SubSeq(s, 1, n)[i] = s[i]
         /\ \A i \in 1..Len(s) - n : SubSeq(s, n + 1, Len(s))[i] = s[n + i]
<1>1. /\ Len(s) \in Nat /\ n \in Nat /\ n <= Len(s)
      /\ \A i \in 1..Len(s) : s[i] \in S
  BY LenProperties, ElementOfSeq
<1>2. /\ SubSeq(s, 1, n) \in Seq(S) /\ Len(SubSeq(s, 1, n)) = n
      /\ \A i \in 1..n : SubSeq(s, 1, n)[i] = s[i]
  <2>1. \A i \in 1..n : s[i] \in S
    BY <1>1
  <2> QED
    BY <1>1, <2>1, SubSeqProperties
<1>3. /\ SubSeq(s, n + 1, Len(s)) \in Seq(S)
      /\ Len(SubSeq(s, n + 1, Len(s))) = Len(s) - n
      /\ \A i \in 1..Len(s) - n : SubSeq(s, n + 1, Len(s))[i] = s[n + i]
  <2>1. \A i \in n + 1..Len(s) : s[i] \in S
    BY <1>1
  <2> QED
    BY <1>1, <2>1, SubSeqProperties
<1>4. SubSeq(s, 1, n) \o SubSeq(s, n + 1, Len(s)) = SubSeq(s, 1, Len(s))
  <2>1. /\ 1 \in 1..Len(s) + 1 /\ n \in 1 - 1..Len(s)
        /\ Len(s) \in n..Len(s)
    BY <1>1
  <2> QED
    BY <2>1, ConcatAdjacentSubSeq
<1> QED
  BY <1>2, <1>3, <1>4, SubSeqFull

(* Two ways to cut one sequence at one place are the same.                 *)
SameJoin(s, t, u, v) == s \o t = u \o v
LEMMA SameCut ==
  ASSUME NEW S, NEW s \in Seq(S), NEW t \in Seq(S), NEW u \in Seq(S), NEW v \in Seq(S)
  PROVE  SameJoin(s, t, u, v) /\ Len(s) = Len(u) => s = u /\ t = v
<1>h. SUFFICES ASSUME SameJoin(s, t, u, v), Len(s) = Len(u) PROVE s = u /\ t = v
  OBVIOUS
<1>1. PICK w \in Seq(S) :
        /\ w = s \o t /\ Len(w) = Len(s) + Len(t)
        /\ \A i \in 1..Len(s) + Len(t) : w[i] = IF i <= Len(s) THEN s[i] ELSE t[i - Len(s)]
  <2>1. PICK w \in Seq(S) : IsJoined(w, s, t)
    BY JoinedSeq
  <2> QED
    BY <2>1 DEF IsJoined
<1>2. PICK x \in Seq(S) :
        /\ x = u \o v /\ Len(x) = Len(u) + Len(v)
        /\ \A i \in 1..Len(u) + Len(v) : x[i] = IF i <= Len(u) THEN u[i] ELSE v[i - Len(u)]
  <2>1. PICK x \in Seq(S) : IsJoined(x, u, v)
    BY JoinedSeq
  <2> QED
    BY <2>1 DEF IsJoined
<1>3. /\ Len(s) \in Nat /\ Len(t) \in Nat /\ Len(v) \in Nat
      /\ w = x /\ Len(s) = Len(u) /\ Len(t) = Len(v)
  <2>1. Len(s) \in Nat /\ Len(t) \in Nat /\ Len(v) \in Nat
    BY LenProperties
  <2> QED
    BY <1>h, <1>1, <1>2, <2>1 DEF SameJoin
<1>4. s = u
  <2>1. \A i \in 1..Len(s) : i \in 1..Len(s) + Len(t) /\ i <= Len(s)
    BY <1>3
  <2>2. \A i \in 1..Len(s) : s[i] = u[i]
    BY <1>1, <1>2, <1>3, <2>1
  <2> QED
    BY <1>3, <2>2, SeqEqual
<1>5. t = v
  <2>1. ASSUME NEW i \in 1..Len(t) PROVE t[i] = v[i]
    <3>1. PICK j \in 1..Len(s) + Len(t) : j = Len(s) + i
      <4>1. Len(s) + i \in 1..Len(s) + Len(t)
        BY <1>3
      <4> QED
        BY <4>1
    <3>2. ~ (j <= Len(s)) /\ j - Len(s) = i
      BY <1>3, <3>1
    <3> QED
      BY <1>1, <1>2, <1>3, <3>2
  <2> QED
    BY <1>3, <2>1, SeqEqual
<1> QED
  BY <1>4, <1>5

(* What has no mark, and what begins with all up to the first mark.        *)
Free(z, s) == \A i \in 1..Len(s) : s[i] # z
Marked(z, s, t) == (s \o <<z>>) \o t

IsMarked(w, x, m, z, s, t) ==
    /\ m = s \o <<z>> /\ x = <<z>> \o t /\ w = Marked(z, s, t) /\ w = s \o x
    /\ Len(m) = Len(s) + 1 /\ Len(w) = (Len(s) + 1) + Len(t)
    /\ w[Len(s) + 1] = z /\ \A i \in 1..Len(s) : w[i] = s[i]

(* Where the mark between two sequences is.                                *)
LEMMA MarkedSeq ==
  ASSUME NEW S, NEW z \in S, NEW s \in Seq(S), NEW t \in Seq(S)
  PROVE  \E w, x, m \in Seq(S) : IsMarked(w, x, m, z, s, t)
<1>1. /\ <<z>> \in Seq(S) /\ Len(<<z>>) = 1 /\ <<z>>[1] = z
      /\ Len(s) \in Nat /\ Len(t) \in Nat
  BY LenProperties
<1> DEFINE m == s \o <<z>>
<1>m. m \in Seq(S) /\ Len(m) = Len(s) + 1
  BY <1>1, ConcatProperties
<1>2. \A i \in 1..Len(s) + 1 : m[i] = IF i <= Len(s) THEN s[i] ELSE <<z>>[i - Len(s)]
  BY <1>1, ConcatProperties
<1> HIDE DEF m
<1>3. m[Len(s) + 1] = z /\ \A i \in 1..Len(s) : m[i] = s[i]
  BY <1>1, <1>2
<1> DEFINE w == m \o t
<1>4. /\ w \in Seq(S) /\ Len(w) = Len(m) + Len(t)
      /\ \A i \in 1..Len(m) + Len(t) : w[i] = IF i <= Len(m) THEN m[i] ELSE t[i - Len(m)]
  BY <1>m, ConcatProperties
<1> HIDE DEF w
<1>5. w[Len(s) + 1] = z /\ \A i \in 1..Len(s) : w[i] = s[i]
  BY <1>1, <1>m, <1>3, <1>4
<1>6. Marked(z, s, t) = w
  BY DEF Marked, m, w
<1>7. <<z>> \o t \in Seq(S)
  BY <1>1, ConcatProperties
<1>8. Moves(s, <<z>>, t)
  BY <1>1, MovesSeq
<1>9. w = s \o (<<z>> \o t)
  BY <1>8 DEF Moves, m, w
<1>10. PICK x \in Seq(S) : x = <<z>> \o t
  BY <1>7
<1>11. IsMarked(w, x, m, z, s, t)
  <2>1. m = s \o <<z>>
    BY DEF m
  <2> QED
    BY <1>m, <1>4, <1>5, <1>6, <1>9, <1>10, <2>1 DEF IsMarked
<1> QED
  BY <1>m, <1>4, <1>11

(* What opens a marked sequence and has no mark begins what is marked.     *)
IsStart(s, u) == Len(s) <= Len(u) /\ \A i \in 1..Len(s) : s[i] = u[i]
Opens(z, s, t, u, v) == s \o t = Marked(z, u, v)

LEMMA BeforeMark ==
  ASSUME NEW S, NEW z \in S,
         NEW s \in Seq(S), NEW t \in Seq(S), NEW u \in Seq(S), NEW v \in Seq(S)
  PROVE  Opens(z, s, t, u, v) /\ Free(z, s) => IsStart(s, u)
<1>h. SUFFICES ASSUME Opens(z, s, t, u, v), Free(z, s) PROVE IsStart(s, u)
  OBVIOUS
<1>1. PICK w \in Seq(S) :
        /\ w = s \o t /\ Len(w) = Len(s) + Len(t)
        /\ \A i \in 1..Len(s) + Len(t) : w[i] = IF i <= Len(s) THEN s[i] ELSE t[i - Len(s)]
  <2>1. PICK w \in Seq(S) : IsJoined(w, s, t)
    BY JoinedSeq
  <2> QED
    BY <2>1 DEF IsJoined
<1>2. PICK x \in Seq(S) :
        /\ x = Marked(z, u, v) /\ Len(x) = (Len(u) + 1) + Len(v)
        /\ x[Len(u) + 1] = z /\ \A i \in 1..Len(u) : x[i] = u[i]
  <2>1. PICK x, y, m \in Seq(S) : IsMarked(x, y, m, z, u, v)
    BY MarkedSeq
  <2> QED
    BY <2>1 DEF IsMarked
<1>3. w = x
  BY <1>h, <1>1, <1>2 DEF Opens
<1>4. Len(s) \in Nat /\ Len(t) \in Nat /\ Len(u) \in Nat /\ Len(v) \in Nat
  BY LenProperties
<1>5. \A i \in 1..Len(s) : w[i] = s[i] /\ s[i] # z
  BY <1>h, <1>1, <1>4 DEF Free
<1>6. Len(s) <= Len(u)
  <2>1. CASE Len(u) + 1 <= Len(s)
    <3>1. Len(u) + 1 \in 1..Len(s)
      BY <1>4, <2>1
    <3> QED
      BY <1>2, <1>3, <1>5, <3>1
  <2> QED
    BY <1>4, <2>1
<1>7. \A i \in 1..Len(s) : i \in 1..Len(u)
  BY <1>4, <1>6
<1> QED
  BY <1>2, <1>3, <1>5, <1>6, <1>7 DEF IsStart

(* A sequence has one first mark.                                          *)
SameMarked(z, s, t, u, v) == Marked(z, s, t) = Marked(z, u, v)
LEMMA FirstMark ==
  ASSUME NEW S, NEW z \in S,
         NEW s \in Seq(S), NEW t \in Seq(S), NEW u \in Seq(S), NEW v \in Seq(S)
  PROVE  SameMarked(z, s, t, u, v) /\ Free(z, s) /\ Free(z, u) => s = u /\ t = v
<1>h. SUFFICES ASSUME SameMarked(z, s, t, u, v), Free(z, s), Free(z, u) PROVE s = u /\ t = v
  OBVIOUS
<1>1. IsStart(s, u)
  <2>1. PICK w, x, m \in Seq(S) : IsMarked(w, x, m, z, s, t)
    BY MarkedSeq
  <2>2. Opens(z, s, x, u, v)
    BY <1>h, <2>1 DEF Opens, SameMarked, IsMarked
  <2> QED
    BY <1>h, <2>2, BeforeMark
<1>2. IsStart(u, s)
  <2>1. PICK w, x, m \in Seq(S) : IsMarked(w, x, m, z, u, v)
    BY MarkedSeq
  <2>2. Opens(z, u, x, s, t)
    BY <1>h, <2>1 DEF Opens, SameMarked, IsMarked
  <2> QED
    BY <1>h, <2>2, BeforeMark
<1>3. Len(s) = Len(u) /\ \A i \in 1..Len(s) : s[i] = u[i]
  <2>1. Len(s) \in Nat /\ Len(u) \in Nat
    BY LenProperties
  <2> QED
    BY <1>1, <1>2, <2>1 DEF IsStart
<1>4. s = u
  BY <1>3, SeqEqual
<1>5. t = v
  <2>1. PICK m \in Seq(S) : m = s \o <<z>>
    <3>1. PICK w, x, m \in Seq(S) : IsMarked(w, x, m, z, s, t)
      BY MarkedSeq
    <3> QED
      BY <3>1 DEF IsMarked
  <2>2. SameJoin(m, t, m, v)
    BY <1>h, <1>4, <2>1 DEF SameMarked, Marked, SameJoin
  <2> QED
    BY <2>2, SameCut
<1> QED
  BY <1>4, <1>5

-----------------------------------------------------------------------------
(* Prefixes and suffixes, element by element.                                *)
(* A prefix, element by element.                                           *)
LEMMA PrefixPointwise ==
  ASSUME NEW S, NEW s \in Seq(S), NEW t \in Seq(S)
  PROVE  IsPrefix(s, t) <=> Len(s) <= Len(t) /\ \A i \in 1..Len(s) : s[i] = t[i]
<1> SUFFICES ASSUME Len(s) <= Len(t)
             PROVE  s = SubSeq(t, 1, Len(s)) <=> \A i \in 1..Len(s) : s[i] = t[i]
  BY SubSeqFull DEF IsPrefix
<1>1. Len(s) \in 0..Len(t)
  BY LenProperties
<1> DEFINE u == SubSeq(t, 1, Len(s))
<1>2. u \in Seq(S) /\ Len(u) = Len(s) /\ \A i \in 1..Len(s) : u[i] = t[i]
  BY <1>1, CutProperties
<1> HIDE DEF u
<1>3. (\A i \in 1..Len(s) : s[i] = t[i]) => s = u
  BY <1>2, SeqEqual
<1>4. s = u => \A i \in 1..Len(s) : s[i] = t[i]
  BY <1>2
<1> QED
  BY <1>3, <1>4 DEF u

(* A suffix, element by element.                                           *)
LEMMA SuffixPointwise ==
  ASSUME NEW S, NEW s \in Seq(S), NEW t \in Seq(S)
  PROVE  IsSuffix(s, t) <=>
           /\ Len(s) <= Len(t)
           /\ \A i \in 1..Len(s) : s[i] = t[(Len(t) - Len(s)) + i]
<1>1. ASSUME NEW q \in Seq(S)
      PROVE  /\ Reverse(q) \in Seq(S) /\ Len(Reverse(q)) = Len(q)
             /\ \A i \in 1..Len(q) : Reverse(q)[i] = q[(Len(q) - i) + 1]
  <2>1. Len(q) \in Nat /\ \A i \in 1..Len(q) : q[i] \in S
    BY LenProperties, ElementOfSeq
  <2>2. \A i \in 1..Len(q) : (Len(q) - i) + 1 \in 1..Len(q)
    BY <2>1
  <2>3. Reverse(q) \in [1..Len(q) -> S]
    BY <2>1, <2>2 DEF Reverse
  <2>4. Reverse(q) \in Seq(S) /\ Len(Reverse(q)) = Len(q)
    BY <2>1, <2>3, SeqDef
  <2> QED
    BY <2>1, <2>4 DEF Reverse
<1> DEFINE a == Reverse(s)
<1> DEFINE b == Reverse(t)
<1>2. /\ a \in Seq(S) /\ Len(a) = Len(s)
      /\ \A i \in 1..Len(s) : a[i] = s[(Len(s) - i) + 1]
  BY <1>1
<1>3. /\ b \in Seq(S) /\ Len(b) = Len(t)
      /\ \A i \in 1..Len(t) : b[i] = t[(Len(t) - i) + 1]
  BY <1>1
<1>4. IsSuffix(s, t) <=> Len(s) <= Len(t) /\ \A i \in 1..Len(s) : a[i] = b[i]
  <2>1. IsSuffix(s, t) <=> IsPrefix(a, b)
    BY DEF IsSuffix
  <2> HIDE DEF a, b
  <2>2. IsPrefix(a, b) <=> Len(a) <= Len(b) /\ \A i \in 1..Len(a) : a[i] = b[i]
    BY <1>2, <1>3, PrefixPointwise
  <2> QED
    BY <1>2, <1>3, <2>1, <2>2
<1> HIDE DEF a, b
<1> DEFINE At(i) == (Len(s) - i) + 1
<1>5. Len(s) \in Nat /\ Len(t) \in Nat
  BY LenProperties
<1>6. ASSUME Len(s) <= Len(t), NEW i \in 1..Len(s)
      PROVE  /\ At(i) \in 1..Len(s) /\ i \in 1..Len(t) /\ At(i) \in 1..Len(t)
             /\ a[i] = s[At(i)] /\ b[i] = t[(Len(t) - Len(s)) + At(i)]
             /\ a[At(i)] = s[i] /\ b[At(i)] = t[(Len(t) - Len(s)) + i]
  <2>1. /\ At(i) \in 1..Len(s) /\ i \in 1..Len(t) /\ At(i) \in 1..Len(t)
        /\ (Len(s) - At(i)) + 1 = i
        /\ (Len(t) - i) + 1 = (Len(t) - Len(s)) + At(i)
        /\ (Len(t) - At(i)) + 1 = (Len(t) - Len(s)) + i
    BY <1>5, <1>6
  <2> HIDE DEF At
  <2>2. a[i] = s[At(i)] /\ a[At(i)] = s[i]
    BY <1>2, <2>1 DEF At
  <2>3. b[i] = t[(Len(t) - Len(s)) + At(i)]
    BY <1>3, <2>1
  <2>4. b[At(i)] = t[(Len(t) - Len(s)) + i]
    BY <1>3, <2>1
  <2> QED
    BY <2>1, <2>2, <2>3, <2>4
<1>7. Len(s) <= Len(t) =>
        ((\A i \in 1..Len(s) : a[i] = b[i])
          <=> \A i \in 1..Len(s) : s[i] = t[(Len(t) - Len(s)) + i])
  <2> HIDE DEF At
  <2>1. ASSUME Len(s) <= Len(t), \A i \in 1..Len(s) : a[i] = b[i], NEW i \in 1..Len(s)
        PROVE  s[i] = t[(Len(t) - Len(s)) + i]
    <3>1. At(i) \in 1..Len(s) /\ a[At(i)] = s[i] /\ b[At(i)] = t[(Len(t) - Len(s)) + i]
      BY <1>6, <2>1
    <3> QED
      BY <2>1, <3>1
  <2>2. ASSUME Len(s) <= Len(t), NEW i \in 1..Len(s),
               \A j \in 1..Len(s) : s[j] = t[(Len(t) - Len(s)) + j]
        PROVE  a[i] = b[i]
    <3>1. /\ At(i) \in 1..Len(s) /\ a[i] = s[At(i)]
          /\ b[i] = t[(Len(t) - Len(s)) + At(i)]
      BY <1>6, <2>2
    <3> QED
      BY <2>2, <3>1
  <2> QED
    BY <2>1, <2>2
<1> QED
  BY <1>4, <1>7

(* What a cut leaves of a suffix is a suffix.                              *)
LEMMA SuffixCut ==
  ASSUME NEW S, NEW s \in Seq(S), NEW t \in Seq(S), IsSuffix(s, t), NEW n \in 0..Len(s)
  PROVE  IsSuffix(SubSeq(s, n + 1, Len(s)), t)
<1> DEFINE u == SubSeq(s, n + 1, Len(s))
<1>1. /\ u \in Seq(S) /\ Len(u) = Len(s) - n
      /\ \A i \in 1..Len(s) - n : u[i] = s[n + i]
  BY CutProperties
<1>2. /\ Len(s) \in Nat /\ Len(t) \in Nat /\ n \in Nat /\ n <= Len(s)
  BY LenProperties
<1>3. Len(s) <= Len(t) /\ \A i \in 1..Len(s) : s[i] = t[(Len(t) - Len(s)) + i]
  BY SuffixPointwise
<1> HIDE DEF u
<1>4. ASSUME NEW i \in 1..Len(u) PROVE u[i] = t[(Len(t) - Len(u)) + i]
  <2>1. /\ n + i \in 1..Len(s) /\ i \in 1..Len(s) - n
        /\ (Len(t) - Len(s)) + (n + i) = (Len(t) - Len(u)) + i
    BY <1>1, <1>2
  <2>2. u[i] = s[n + i]
    BY <1>1, <2>1
  <2>3. s[n + i] = t[(Len(t) - Len(s)) + (n + i)]
    BY <1>3, <2>1
  <2> QED
    BY <2>1, <2>2, <2>3
<1>5. Len(u) <= Len(t)
  BY <1>1, <1>2, <1>3
<1>6. IsSuffix(u, t)
  BY <1>1, <1>4, <1>5, SuffixPointwise
<1> QED
  BY <1>6 DEF u
=============================================================================
