--------------------------- MODULE RepoToolsProofs ---------------------------
(***************************************************************************)
(* Whatever paths the agent gives and however they are spelled, the hook   *)
(* judges the place they name, and no tool changes a file outside the      *)
(* clone.  What the fold of Normal computes is compared with the reference *)
(* Named, one segment at a time.                                           *)
(***************************************************************************)
EXTENDS RepoTools, SequenceLemmas, FiniteSetTheorems

Path == Seq(STRING)

IsAppended(r, q, x) ==
    /\ r = Append(q, x) /\ Len(r) = Len(q) + 1
    /\ (\A i \in 1..Len(q) : r[i] = q[i]) /\ r[Len(q) + 1] = x

LEMMA AppendSeq ==
  ASSUME NEW S, NEW q \in Seq(S), NEW x \in S
  PROVE  Len(q) \in Nat /\ \E r \in Seq(S) : IsAppended(r, q, x)
<1>1. Append(q, x) \in Seq(S) /\ IsAppended(Append(q, x), q, x)
  BY AppendProperties DEF IsAppended
<1> QED
  BY <1>1, LenProperties

LEMMA OneElement ==
  ASSUME NEW S, NEW x \in S
  PROVE  <<x>> \in Seq(S) /\ Len(<<x>>) = 1 /\ <<x>>[1] = x
OBVIOUS

(* The first n elements.                                                   *)
IsCut(u, t, n) == u = SubSeq(t, 1, n) /\ Len(u) = n /\ Agree(n, u, t)

LEMMA CutSeq ==
  ASSUME NEW S, NEW t \in Seq(S), NEW n \in 0..Len(t)
  PROVE  \E u \in Seq(S) : IsCut(u, t, n)
<1>1. SubSeq(t, 1, n) \in Seq(S) /\ IsCut(SubSeq(t, 1, n), t, n)
  BY CutProperties DEF IsCut, Agree
<1> QED
  BY <1>1

-----------------------------------------------------------------------------
(* The greatest number of a set.                                           *)
LEMMA MaxOf ==
  ASSUME NEW n \in Nat, NEW T \in SUBSET (1..n), T # {}
  PROVE  Max(T) \in T /\ \A i \in T : i <= Max(T)
<1> DEFINE D == {n - i : i \in T}
<1>1. D # {} /\ D \subseteq Nat
  <2>1. PICK t : t \in T
    OBVIOUS
  <2>2. n - t \in D
    BY <2>1
  <2>3. \A i \in T : n - i \in Nat
    OBVIOUS
  <2>4. D \subseteq Nat
    BY <2>3
  <2> HIDE DEF D
  <2> QED
    BY <2>2, <2>4
<1>2. PICK d \in D : \A e \in D : d <= e
  <2> HIDE DEF D
  <2> QED
    BY <1>1, LeastNumber
<1>3. PICK m \in T : d = n - m
  OBVIOUS
<1>4. ASSUME NEW i \in T PROVE m >= i
  <2>1. n - i \in D
    OBVIOUS
  <2>2. d <= n - i
    BY <1>2, <2>1
  <2> QED
    BY <1>3, <2>2
<1>5. \E x \in T : \A y \in T : x >= y
  BY <1>4
<1>6. Max(T) \in T /\ \A y \in T : Max(T) >= y
  <2> DEFINE Top(x) == x \in T /\ \A y \in T : x >= y
  <2>1. \E x : Top(x)
    BY <1>5
  <2>2. Top(CHOOSE x : Top(x))
    <3> HIDE DEF Top
    <3> QED
      BY <2>1, Zenon
  <2> QED
    BY <2>2, <1>5 DEF Max
<1> QED
  BY <1>6

LEMMA MaxUpto ==
  ASSUME NEW n \in Nat \ {0}
  PROVE  Max(1..n) = n /\ (1..n) \ {Max(1..n)} = 1..n - 1
<1>1. PICK T \in SUBSET (1..n) : T = 1..n
  OBVIOUS
<1>2. n \in Nat /\ T # {} /\ n \in T
  BY <1>1
<1>3. Max(T) \in T /\ \A i \in T : i <= Max(T)
  BY <1>2, MaxOf
<1>4. Max(T) = n
  BY <1>1, <1>2, <1>3
<1>5. (1..n) \ {n} = 1..n - 1
  OBVIOUS
<1> QED
  BY <1>1, <1>4, <1>5

-----------------------------------------------------------------------------
(* The fold.  Folded says what the function is that FoldLeft recurs on, for *)
(* the first k segments.                                                    *)
Folded(k, q, g) ==
    g = [T \in SUBSET (1..k) |->
            IF T = {} THEN <<>> ELSE Step(g[T \ {Max(T)}], q[Max(T)])]

LEMMA WithoutMax ==
  ASSUME NEW n \in Nat, NEW T \in SUBSET (1..n), T # {}
  PROVE  n # 0 /\ T \ {Max(T)} \in SUBSET (1..n - 1)
<1>1. PICK m : m = Max(T) /\ m \in T /\ \A i \in T : i <= m
  BY MaxOf
<1>2. m \in 1..n /\ n # 0
  BY <1>1
<1>3. ASSUME NEW i \in T, i # m PROVE i \in 1..n - 1
  <2>1. i \in 1..n /\ i <= m
    BY <1>1, <1>3
  <2> QED
    BY <1>2, <1>3, <2>1
<1> QED
  BY <1>1, <1>2, <1>3

LEMMA FoldExists ==
  ASSUME NEW q, NEW k \in Nat
  PROVE  \E g : Folded(k, q, g)
<1> DEFINE Bad == {n \in Nat : ~ \E g : Folded(n, q, g)}
<1>1. ASSUME Bad # {} PROVE FALSE
  <2>1. PICK n \in Bad : \A m \in Bad : n <= m
    <3>1. Bad \subseteq Nat
      OBVIOUS
    <3> HIDE DEF Bad
    <3> QED
      BY <1>1, <3>1, LeastNumber
  <2>2. CASE n = 0
    <3> DEFINE f == [T \in SUBSET (1..0) |-> <<>>]
    <3>1. \A T \in SUBSET (1..0) : T = {}
      OBVIOUS
    <3>2. f = [T \in SUBSET (1..0) |->
                 IF T = {} THEN <<>> ELSE Step(f[T \ {Max(T)}], q[Max(T)])]
      BY <3>1
    <3>3. Folded(0, q, f)
      BY <3>2 DEF Folded
    <3> HIDE DEF f
    <3> QED
      BY <2>2, <3>3
  <2>3. CASE n # 0
    <3>1. n \in Nat /\ n - 1 \in Nat /\ ~ (n <= n - 1)
      BY <2>3
    <3>2. PICK h : Folded(n - 1, q, h)
      BY <2>1, <3>1
    <3> DEFINE Val(T, e) == IF T = {} THEN <<>> ELSE Step(e, q[Max(T)])
    <3> DEFINE g == [T \in SUBSET (1..n) |-> Val(T, h[T \ {Max(T)}])]
    <3>3. ASSUME NEW T \in SUBSET (1..n), T # {}
          PROVE  g[T \ {Max(T)}] = h[T \ {Max(T)}]
      <4>1. PICK R : R = T \ {Max(T)}
        OBVIOUS
      <4>2. R \in SUBSET (1..n - 1) /\ R \in SUBSET (1..n)
        BY <3>1, <3>3, <4>1, WithoutMax
      <4>3. h[R] = Val(R, h[R \ {Max(R)}])
        BY <3>2, <4>2 DEF Folded
      <4>4. g[R] = Val(R, h[R \ {Max(R)}])
        BY <4>2
      <4> QED
        BY <4>1, <4>3, <4>4
    <3>4. \A T \in SUBSET (1..n) : Val(T, h[T \ {Max(T)}]) = Val(T, g[T \ {Max(T)}])
      <4> HIDE DEF g
      <4> QED
        BY <3>3
    <3>5. g = [T \in SUBSET (1..n) |-> Val(T, g[T \ {Max(T)}])]
      <4>1. PICK f : f = g
        OBVIOUS
      <4>2. \A T \in SUBSET (1..n) : Val(T, h[T \ {Max(T)}]) = Val(T, f[T \ {Max(T)}])
        BY <3>4, <4>1
      <4>3. f = [T \in SUBSET (1..n) |-> Val(T, h[T \ {Max(T)}])]
        BY <4>1
      <4>4. f = [T \in SUBSET (1..n) |-> Val(T, f[T \ {Max(T)}])]
        <5> HIDE DEF Val, g
        <5> QED
          BY <4>2, <4>3
      <4> QED
        BY <4>1, <4>4
    <3>6. Folded(n, q, g)
      BY <3>5 DEF Folded
    <3> HIDE DEF g
    <3> QED
      BY <2>1, <3>6
  <2> QED
    BY <2>2, <2>3
<1> QED
  BY <1>1

LEMMA FoldStep ==
  ASSUME NEW q, NEW g, NEW m \in Nat, Folded(m, q, g), NEW i \in 1..m
  PROVE  g[{}] = <<>> /\ g[1..i] = Step(g[1..i - 1], q[i])
<1>1. {} \in SUBSET (1..m)
  OBVIOUS
<1>2. PICK T \in SUBSET (1..m) : T = 1..i
  OBVIOUS
<1>3. Max(T) = i /\ T \ {Max(T)} = 1..i - 1 /\ T # {}
  BY <1>2, MaxUpto
<1>4. g[T] = IF T = {} THEN <<>> ELSE Step(g[T \ {Max(T)}], q[Max(T)])
  BY <1>2 DEF Folded
<1>5. g[{}] = <<>>
  BY <1>1 DEF Folded
<1> QED
  BY <1>2, <1>3, <1>4, <1>5

LEMMA FoldsAgree ==
  ASSUME NEW q, NEW r, NEW g, NEW h, NEW k \in Nat, NEW m \in Nat, NEW n \in Nat,
         k <= m, k <= n, Agree(k, q, r), Folded(m, q, g), Folded(n, r, h)
  PROVE  g[1..k] = h[1..k]
<1> DEFINE Bad == {i \in 0..k : g[1..i] # h[1..i]}
<1>1. ASSUME Bad # {} PROVE FALSE
  <2>1. PICK i \in Bad : \A j \in Bad : i <= j
    <3>1. Bad \subseteq Nat
      OBVIOUS
    <3> HIDE DEF Bad
    <3> QED
      BY <1>1, <3>1, LeastNumber
  <2>2. CASE i = 0
    <3>1. 1..0 = {} /\ {} \in SUBSET (1..m) /\ {} \in SUBSET (1..n)
      OBVIOUS
    <3>2. g[{}] = <<>> /\ h[{}] = <<>>
      BY <3>1 DEF Folded
    <3> QED
      BY <2>1, <2>2, <3>1, <3>2
  <2>3. CASE i # 0
    <3>1. i \in 1..k /\ i \in 1..m /\ i \in 1..n /\ i - 1 \in 0..k /\ ~ (i <= i - 1)
      BY <2>3
    <3>2. g[1..i - 1] = h[1..i - 1]
      BY <2>1, <3>1
    <3>3. g[1..i] = Step(g[1..i - 1], q[i])
      BY <3>1, FoldStep
    <3>4. h[1..i] = Step(h[1..i - 1], r[i])
      BY <3>1, FoldStep
    <3>5. q[i] = r[i]
      BY <3>1 DEF Agree
    <3> QED
      BY <2>1, <3>2, <3>3, <3>4, <3>5
  <2> QED
    BY <2>2, <2>3
<1>2. k \in 0..k
  OBVIOUS
<1> QED
  BY <1>1, <1>2

LEMMA NormalIsFold ==
  ASSUME NEW q \in Path
  PROVE  \E g : Folded(Len(q), q, g) /\ Normal(q) = g[1..Len(q)]
<1>1. DOMAIN q = 1..Len(q) /\ Len(q) \in Nat
  BY LenProperties DEF Path
<1> DEFINE Is(g) == g = [T \in SUBSET DOMAIN q |->
                           IF T = {} THEN <<>> ELSE Step(g[T \ {Max(T)}], q[Max(T)])]
<1> DEFINE fold == CHOOSE g : Is(g)
<1>2. Normal(q) = fold[DOMAIN q]
  BY DEF Normal, FoldLeft, MapThenFoldSet
<1>3. \A g : Is(g) <=> Folded(Len(q), q, g)
  BY <1>1 DEF Folded
<1>4. \E g : Is(g)
  <2>1. PICK g : Folded(Len(q), q, g)
    BY <1>1, FoldExists
  <2> QED
    BY <1>3, <2>1
<1>5. Is(fold)
  <2> HIDE DEF Is
  <2> QED
    BY <1>4, Zenon
<1> HIDE DEF fold
<1> QED
  BY <1>1, <1>2, <1>3, <1>5

LEMMA NormalEmpty == Normal(<<>>) = <<>>
<1>0. <<>> \in Path
  BY DEF Path
<1>1. PICK q \in Path : q = <<>>
  BY <1>0
<1>2. Len(q) = 0 /\ 1..0 = {} /\ {} \in SUBSET (1..0)
  BY <1>1
<1>3. PICK g : Folded(Len(q), q, g) /\ Normal(q) = g[1..Len(q)]
  BY NormalIsFold
<1>4. g[{}] = <<>>
  BY <1>2, <1>3 DEF Folded
<1> QED
  BY <1>1, <1>2, <1>3, <1>4

(* One more segment is one more step.                                      *)
LEMMA NormalAppend ==
  ASSUME NEW q \in Path, NEW x \in STRING
  PROVE  Normal(Append(q, x)) = Step(Normal(q), x)
<1>0. Len(q) \in Nat /\ \E r \in Path : IsAppended(r, q, x)
  BY AppendSeq DEF Path
<1>1. PICK r \in Path, n \in Nat : n = Len(q) /\ IsAppended(r, q, x)
  BY <1>0
<1>a. /\ r = Append(q, x) /\ Len(r) = n + 1
      /\ (\A i \in 1..n : r[i] = q[i]) /\ r[n + 1] = x
  BY <1>1 DEF IsAppended
<1>2. PICK g : Folded(n, q, g) /\ Normal(q) = g[1..n]
  BY <1>1, NormalIsFold
<1>3. PICK h : Folded(n + 1, r, h) /\ Normal(r) = h[1..n + 1]
  BY <1>a, NormalIsFold
<1>4. h[1..n + 1] = Step(h[1..(n + 1) - 1], r[n + 1])
  <2>1. n + 1 \in Nat /\ n + 1 \in 1..n + 1
    OBVIOUS
  <2> QED
    BY <1>3, <2>1, FoldStep
<1>5. g[1..n] = h[1..n]
  <2>1. Agree(n, q, r)
    BY <1>a DEF Agree
  <2>2. n <= n /\ n <= n + 1 /\ n + 1 \in Nat
    OBVIOUS
  <2> QED
    BY <1>2, <1>3, <2>1, <2>2, FoldsAgree
<1>6. (n + 1) - 1 = n
  OBVIOUS
<1> QED
  BY <1>1, <1>a, <1>2, <1>3, <1>4, <1>5, <1>6

-----------------------------------------------------------------------------
(* Counting the climbs and the names between two places.                   *)
LEMMA SameCounts ==
  ASSUME NEW q, NEW r, NEW i \in Nat, NEW j \in Nat, \A k \in i..j : q[k] = r[k]
  PROVE  Ups(q, i, j) = Ups(r, i, j) /\ Downs(q, i, j) = Downs(r, i, j)
<1>1. {k \in i..j : q[k] = ".."} = {k \in i..j : r[k] = ".."}
  OBVIOUS
<1>2. {k \in i..j : q[k] \notin {".", ".."}} = {k \in i..j : r[k] \notin {".", ".."}}
  OBVIOUS
<1> QED
  BY <1>1, <1>2 DEF Ups, Downs

LEMMA NoCounts ==
  ASSUME NEW q, NEW n \in Nat
  PROVE  Ups(q, n + 1, n) = 0 /\ Downs(q, n + 1, n) = 0
<1>1. n + 1..n = {}
  OBVIOUS
<1>2. {k \in n + 1..n : q[k] = ".."} = {} /\ {k \in n + 1..n : q[k] \notin {".", ".."}} = {}
  BY <1>1
<1> QED
  BY <1>2, FS_EmptySet DEF Ups, Downs

(* A part of an interval, with one more number or without.                 *)
LEMMA PartOfInterval ==
  ASSUME NEW i \in Nat, NEW n \in Nat, NEW T \in SUBSET (i..n)
  PROVE  /\ IsFiniteSet(T) /\ Cardinality(T) \in Nat
         /\ Cardinality(T \cup {n + 1}) = Cardinality(T) + 1
         /\ (Cardinality(T) = 0 <=> T = {})
<1>1. IsFiniteSet(i..n)
  BY FS_Interval
<1>2. IsFiniteSet(T)
  BY <1>1, FS_Subset
<1>3. n + 1 \notin T
  OBVIOUS
<1>4. Cardinality(T) \in Nat
  BY <1>2, FS_CardinalityType
<1>5. Cardinality(T \cup {n + 1}) = Cardinality(T) + 1
  BY <1>2, <1>3, FS_AddElement
<1>6. Cardinality(T) = 0 <=> T = {}
  BY <1>2, FS_EmptySet
<1> QED
  BY <1>2, <1>4, <1>5, <1>6

LEMMA OneMore ==
  ASSUME NEW r, NEW n \in Nat, NEW i \in 1..n + 1
  PROVE  /\ Ups(r, i, n) \in Nat /\ Downs(r, i, n) \in Nat
         /\ Ups(r, i, n + 1) = IF r[n + 1] = ".." THEN Ups(r, i, n) + 1 ELSE Ups(r, i, n)
         /\ Downs(r, i, n + 1) =
              IF r[n + 1] \notin {".", ".."} THEN Downs(r, i, n) + 1 ELSE Downs(r, i, n)
<1> DEFINE U == {k \in i..n : r[k] = ".."}
           D == {k \in i..n : r[k] \notin {".", ".."}}
<1>1. U \in SUBSET (i..n) /\ D \in SUBSET (i..n) /\ i \in Nat
  OBVIOUS
<1>2. i..n + 1 = (i..n) \cup {n + 1}
  OBVIOUS
<1>3. {k \in i..n + 1 : r[k] = ".."} = IF r[n + 1] = ".." THEN U \cup {n + 1} ELSE U
  BY <1>2
<1>4. {k \in i..n + 1 : r[k] \notin {".", ".."}} =
        IF r[n + 1] \notin {".", ".."} THEN D \cup {n + 1} ELSE D
  BY <1>2
<1>5. Cardinality(U) \in Nat /\ Cardinality(U \cup {n + 1}) = Cardinality(U) + 1
  <2> HIDE DEF U
  <2> QED
    BY <1>1, PartOfInterval
<1>6. Cardinality(D) \in Nat /\ Cardinality(D \cup {n + 1}) = Cardinality(D) + 1
  <2> HIDE DEF D
  <2> QED
    BY <1>1, PartOfInterval
<1>7. Ups(r, i, n) = Cardinality(U) /\ Downs(r, i, n) = Cardinality(D)
  BY DEF Ups, Downs
<1> HIDE DEF U, D
<1>8. Ups(r, i, n + 1) = Cardinality(IF r[n + 1] = ".." THEN U \cup {n + 1} ELSE U)
  BY <1>3 DEF Ups
<1>9. Downs(r, i, n + 1) = Cardinality(IF r[n + 1] \notin {".", ".."} THEN D \cup {n + 1} ELSE D)
  BY <1>4 DEF Downs
<1> QED
  BY <1>5, <1>6, <1>7, <1>8, <1>9

-----------------------------------------------------------------------------
(* The names that count, and those among them after a place.               *)
Places(s) == {k \in 1..Len(s) : Counts(s, k)}
Later(C, i) == {k \in C : i < k}

LEMMA LaterWithNew ==
  ASSUME NEW n \in Nat, NEW P \in SUBSET (1..n), NEW i \in P
  PROVE  /\ Cardinality(Later(P, i)) \in Nat
         /\ Cardinality(Later(P \cup {n + 1}, i)) = Cardinality(Later(P, i)) + 1
<1>1. PICK T \in SUBSET (1..n) : T = Later(P, i)
  BY DEF Later
<1>2. Later(P \cup {n + 1}, i) = T \cup {n + 1}
  BY <1>1 DEF Later
<1>3. 1 \in Nat
  OBVIOUS
<1>4. Cardinality(T) \in Nat /\ Cardinality(T \cup {n + 1}) = Cardinality(T) + 1
  BY <1>3, PartOfInterval
<1> QED
  BY <1>1, <1>2, <1>4

LEMMA LaterThanNew ==
  ASSUME NEW n \in Nat, NEW P \in SUBSET (1..n)
  PROVE  Cardinality(Later(P \cup {n + 1}, n + 1)) = 0
<1>0. \A k \in P \cup {n + 1} : ~ (n + 1 < k)
  OBVIOUS
<1>1. Later(P \cup {n + 1}, n + 1) = {}
  BY <1>0 DEF Later
<1> QED
  BY <1>1, FS_EmptySet

LEMMA LaterWithoutLast ==
  ASSUME NEW n \in Nat, NEW P \in SUBSET (1..n), NEW m \in P, \A k \in P : k <= m, NEW i \in P
  PROVE  /\ i = m => Cardinality(Later(P, i)) = 0
         /\ i # m => /\ Cardinality(Later(P, i)) \in Nat \ {0}
                     /\ Cardinality(Later(P \ {m}, i)) = Cardinality(Later(P, i)) - 1
<1>1. PICK T \in SUBSET (1..n) : T = Later(P, i)
  BY DEF Later
<1>2. 1 \in Nat
  OBVIOUS
<1>3. IsFiniteSet(T) /\ Cardinality(T) \in Nat /\ (Cardinality(T) = 0 <=> T = {})
  BY <1>2, PartOfInterval
<1>4. CASE i = m
  <2>1. T = {}
    BY <1>1, <1>4 DEF Later
  <2> QED
    BY <1>1, <1>3, <1>4, <2>1
<1>5. CASE i # m
  <2>1. i < m
    BY <1>5
  <2>2. m \in T
    BY <1>1, <2>1 DEF Later
  <2>3. Later(P \ {m}, i) = T \ {m}
    BY <1>1 DEF Later
  <2>4. Cardinality(T \ {m}) = Cardinality(T) - 1
    BY <1>3, <2>2, FS_RemoveElement
  <2>5. Cardinality(T) # 0
    BY <1>3, <2>2
  <2> QED
    BY <1>1, <1>3, <1>5, <2>3, <2>4, <2>5
<1> QED
  BY <1>4, <1>5

-----------------------------------------------------------------------------
(* What one more segment does to the names that count.  A name that counts *)
(* has, after it, one descent for every climb and every later name that    *)
(* counts.                                                                 *)
Balanced(s) ==
    \A i \in Places(s) :
        Downs(s, i + 1, Len(s)) =
            Ups(s, i + 1, Len(s)) + Cardinality(Later(Places(s), i))

(* A name that counted still does if one more segment leaves it so.        *)
LEMMA StillCounts ==
  ASSUME NEW q \in Path, NEW x, NEW r \in Path, IsAppended(r, q, x),
         NEW i \in 1..Len(q)
  PROVE  Counts(r, i) <=> /\ Counts(q, i)
                          /\ Ups(r, i + 1, Len(q) + 1) <= Downs(r, i + 1, Len(q) + 1)
<1>n. Len(q) \in Nat
  BY LenProperties DEF Path
<1>1. Len(r) = Len(q) + 1 /\ r[i] = q[i] /\ \A k \in 1..Len(q) : q[k] = r[k]
  BY DEF IsAppended
<1>2. ASSUME NEW j \in i + 1..Len(q)
      PROVE  Ups(q, i + 1, j) = Ups(r, i + 1, j) /\ Downs(q, i + 1, j) = Downs(r, i + 1, j)
  <2>1. i + 1 \in Nat /\ j \in Nat /\ \A k \in i + 1..j : k \in 1..Len(q)
    BY <1>n
  <2>2. \A k \in i + 1..j : q[k] = r[k]
    BY <1>1, <2>1
  <2> QED
    BY <2>1, <2>2, SameCounts
<1>3. i + 1..Len(r) = (i + 1..Len(q)) \cup {Len(q) + 1}
  BY <1>n, <1>1
<1>4. (\A j \in i + 1..Len(q) : Ups(r, i + 1, j) <= Downs(r, i + 1, j)) <=>
      (\A j \in i + 1..Len(q) : Ups(q, i + 1, j) <= Downs(q, i + 1, j))
  BY <1>2
<1>5. (\A j \in i + 1..Len(r) : Ups(r, i + 1, j) <= Downs(r, i + 1, j)) <=>
      /\ \A j \in i + 1..Len(q) : Ups(r, i + 1, j) <= Downs(r, i + 1, j)
      /\ Ups(r, i + 1, Len(q) + 1) <= Downs(r, i + 1, Len(q) + 1)
  BY <1>3
<1> QED
  BY <1>1, <1>4, <1>5 DEF Counts

(* The segment that was added counts if it is a name.                      *)
LEMMA LastCounts ==
  ASSUME NEW q \in Path, NEW x, NEW r \in Path, IsAppended(r, q, x)
  PROVE  Counts(r, Len(q) + 1) <=> x \notin {".", ".."}
<1>n. Len(q) \in Nat
  BY LenProperties DEF Path
<1>1. Len(r) = Len(q) + 1 /\ r[Len(q) + 1] = x
  BY DEF IsAppended
<1>2. (Len(q) + 1) + 1..Len(r) = {}
  BY <1>n, <1>1
<1> QED
  BY <1>1, <1>2 DEF Counts

(* The counts up to the end, before and after the segment x.               *)
LEMMA EndCounts ==
  ASSUME NEW q \in Path, NEW x, NEW r \in Path, IsAppended(r, q, x),
         NEW i \in 1..Len(q)
  PROVE  /\ Ups(q, i + 1, Len(q)) \in Nat /\ Downs(q, i + 1, Len(q)) \in Nat
         /\ Ups(r, i + 1, Len(r)) =
              IF x = ".." THEN Ups(q, i + 1, Len(q)) + 1 ELSE Ups(q, i + 1, Len(q))
         /\ Downs(r, i + 1, Len(r)) =
              IF x \notin {".", ".."} THEN Downs(q, i + 1, Len(q)) + 1
                                     ELSE Downs(q, i + 1, Len(q))
<1>n. Len(q) \in Nat /\ i + 1 \in Nat /\ i + 1 \in 1..Len(q) + 1
  BY LenProperties DEF Path
<1>1. Len(r) = Len(q) + 1 /\ r[Len(q) + 1] = x /\ \A k \in 1..Len(q) : q[k] = r[k]
  BY DEF IsAppended
<1>2. \A k \in i + 1..Len(q) : q[k] = r[k]
  BY <1>n, <1>1
<1>3. /\ Ups(q, i + 1, Len(q)) = Ups(r, i + 1, Len(q))
      /\ Downs(q, i + 1, Len(q)) = Downs(r, i + 1, Len(q))
  BY <1>n, <1>2, SameCounts
<1> QED
  BY <1>n, <1>1, <1>3, OneMore

(* Between a name that counts and the end, the climbs do not prevail.      *)
LEMMA UpsWithinDowns ==
  ASSUME NEW q \in Path, NEW i \in 1..Len(q), Counts(q, i)
  PROVE  Ups(q, i + 1, Len(q)) <= Downs(q, i + 1, Len(q))
<1>n. Len(q) \in Nat
  BY LenProperties DEF Path
<1>1. CASE i = Len(q)
  <2>1. Ups(q, i + 1, Len(q)) = 0 /\ Downs(q, i + 1, Len(q)) = 0
    BY <1>n, <1>1, NoCounts
  <2> QED
    BY <2>1
<1>2. CASE i # Len(q)
  <2>1. Len(q) \in i + 1..Len(q)
    BY <1>n, <1>2
  <2> QED
    BY <2>1 DEF Counts
<1> QED
  BY <1>1, <1>2

(* A "." changes nothing.                                                  *)
LEMMA DotPlaces ==
  ASSUME NEW q \in Path, NEW r \in Path, IsAppended(r, q, "."), Balanced(q)
  PROVE  Places(r) = Places(q) /\ Balanced(r)
<1>n. Len(q) \in Nat
  BY LenProperties DEF Path
<1>1. Len(r) = Len(q) + 1
  BY DEF IsAppended
<1>2. ~ Counts(r, Len(q) + 1)
  BY LastCounts
<1>3. ASSUME NEW i \in 1..Len(q)
      PROVE  /\ Ups(r, i + 1, Len(r)) = Ups(q, i + 1, Len(q))
             /\ Downs(r, i + 1, Len(r)) = Downs(q, i + 1, Len(q))
  BY EndCounts
<1>4. ASSUME NEW i \in 1..Len(q)
      PROVE  Counts(r, i) <=> Counts(q, i)
  <2>1. Counts(r, i) => Counts(q, i)
    BY StillCounts
  <2>2. ASSUME Counts(q, i) PROVE Ups(r, i + 1, Len(q) + 1) <= Downs(r, i + 1, Len(q) + 1)
    BY <1>1, <1>3, <2>2, UpsWithinDowns
  <2> QED
    BY <2>1, <2>2, StillCounts
<1>5. Places(r) = Places(q)
  BY <1>n, <1>1, <1>2, <1>4 DEF Places
<1>6. ASSUME NEW i \in Places(q)
      PROVE  Downs(r, i + 1, Len(r)) = Ups(r, i + 1, Len(r)) + Cardinality(Later(Places(q), i))
  <2>1. i \in 1..Len(q)
    BY DEF Places
  <2> QED
    BY <1>3, <2>1 DEF Balanced
<1>7. Balanced(r)
  BY <1>5, <1>6 DEF Balanced
<1> QED
  BY <1>5, <1>7

(* A name is one more place.                                               *)
LEMMA NamePlaces ==
  ASSUME NEW q \in Path, NEW x \in STRING, x \notin {".", ".."},
         NEW r \in Path, IsAppended(r, q, x), Balanced(q)
  PROVE  Places(r) = Places(q) \cup {Len(q) + 1} /\ Balanced(r)
<1>n. Len(q) \in Nat /\ Places(q) \in SUBSET (1..Len(q))
  BY LenProperties DEF Path, Places
<1>1. Len(r) = Len(q) + 1
  BY DEF IsAppended
<1>2. Counts(r, Len(q) + 1)
  BY LastCounts
<1>3. ASSUME NEW i \in 1..Len(q)
      PROVE  /\ Ups(r, i + 1, Len(r)) = Ups(q, i + 1, Len(q))
             /\ Downs(r, i + 1, Len(r)) = Downs(q, i + 1, Len(q)) + 1
             /\ Ups(q, i + 1, Len(q)) \in Nat /\ Downs(q, i + 1, Len(q)) \in Nat
  <2>1. x # ".."
    OBVIOUS
  <2> QED
    BY <2>1, EndCounts
<1>4. ASSUME NEW i \in 1..Len(q)
      PROVE  Counts(r, i) <=> Counts(q, i)
  <2>1. Counts(r, i) => Counts(q, i)
    BY StillCounts
  <2>2. ASSUME Counts(q, i) PROVE Ups(r, i + 1, Len(q) + 1) <= Downs(r, i + 1, Len(q) + 1)
    <3>1. Ups(q, i + 1, Len(q)) <= Downs(q, i + 1, Len(q))
      BY <2>2, UpsWithinDowns
    <3> QED
      BY <1>1, <1>3, <3>1
  <2> QED
    BY <2>1, <2>2, StillCounts
<1>5. Places(r) = Places(q) \cup {Len(q) + 1}
  <2>1. 1..Len(r) = (1..Len(q)) \cup {Len(q) + 1}
    BY <1>n, <1>1
  <2> QED
    BY <1>2, <1>4, <2>1 DEF Places
<1>6. ASSUME NEW i \in Places(q)
      PROVE  Downs(r, i + 1, Len(r)) = Ups(r, i + 1, Len(r)) + Cardinality(Later(Places(r), i))
  <2>1. i \in 1..Len(q)
    BY DEF Places
  <2>2. /\ Cardinality(Later(Places(q), i)) \in Nat
        /\ Cardinality(Later(Places(r), i)) = Cardinality(Later(Places(q), i)) + 1
    BY <1>n, <1>5, LaterWithNew
  <2>3. Downs(q, i + 1, Len(q)) = Ups(q, i + 1, Len(q)) + Cardinality(Later(Places(q), i))
    BY DEF Balanced
  <2> QED
    BY <1>3, <2>1, <2>2, <2>3
<1>7. /\ Downs(r, (Len(q) + 1) + 1, Len(r)) = 0 /\ Ups(r, (Len(q) + 1) + 1, Len(r)) = 0
      /\ Cardinality(Later(Places(r), Len(q) + 1)) = 0
  <2>1. Len(q) + 1 \in Nat
    BY <1>n
  <2>2. Cardinality(Later(Places(r), Len(q) + 1)) = 0
    BY <1>n, <1>5, LaterThanNew
  <2> QED
    BY <1>1, <2>1, <2>2, NoCounts
<1>8. ASSUME NEW i \in Places(r)
      PROVE  Downs(r, i + 1, Len(r)) = Ups(r, i + 1, Len(r)) + Cardinality(Later(Places(r), i))
  <2>1. i \in Places(q) \/ i = Len(q) + 1
    BY <1>5
  <2>2. CASE i = Len(q) + 1
    <3>1. 0 = 0 + 0
      OBVIOUS
    <3> QED
      BY <1>7, <2>2, <3>1
  <2> QED
    BY <1>6, <2>1, <2>2
<1>9. Balanced(r)
  BY <1>8 DEF Balanced
<1> QED
  BY <1>5, <1>9

(* A ".." takes the last place, if there is one.                           *)
LEMMA DotDotPlaces ==
  ASSUME NEW q \in Path, NEW r \in Path, IsAppended(r, q, ".."), Balanced(q),
         NEW m \in Places(q), \A i \in Places(q) : i <= m
  PROVE  Places(r) = Places(q) \ {m} /\ Balanced(r)
<1>n. Len(q) \in Nat
  BY LenProperties DEF Path
<1>p. Places(q) \in SUBSET (1..Len(q))
  BY DEF Places
<1>1. Len(r) = Len(q) + 1
  BY DEF IsAppended
<1>2. ~ Counts(r, Len(q) + 1)
  BY LastCounts
<1>3. ASSUME NEW i \in 1..Len(q)
      PROVE  /\ Ups(r, i + 1, Len(r)) = Ups(q, i + 1, Len(q)) + 1
             /\ Downs(r, i + 1, Len(r)) = Downs(q, i + 1, Len(q))
             /\ Ups(q, i + 1, Len(q)) \in Nat
  BY EndCounts
<1>4. ASSUME NEW i \in Places(q)
      PROVE  /\ Counts(r, i) <=> i # m
             /\ i # m => Downs(r, i + 1, Len(r)) =
                           Ups(r, i + 1, Len(r)) + Cardinality(Later(Places(q) \ {m}, i))
  <2>1. i \in 1..Len(q) /\ Counts(q, i)
    BY DEF Places
  <2>2. Downs(q, i + 1, Len(q)) = Ups(q, i + 1, Len(q)) + Cardinality(Later(Places(q), i))
    BY DEF Balanced
  <2>3. /\ i = m => Cardinality(Later(Places(q), i)) = 0
        /\ i # m => /\ Cardinality(Later(Places(q), i)) \in Nat \ {0}
                    /\ Cardinality(Later(Places(q) \ {m}, i)) = Cardinality(Later(Places(q), i)) - 1
    BY <1>n, <1>p, LaterWithoutLast
  <2>4. Counts(r, i) <=> Ups(r, i + 1, Len(r)) <= Downs(r, i + 1, Len(r))
    BY <1>1, <2>1, StillCounts
  <2>5. /\ Ups(r, i + 1, Len(r)) = Ups(q, i + 1, Len(q)) + 1
        /\ Downs(r, i + 1, Len(r)) = Downs(q, i + 1, Len(q))
        /\ Ups(q, i + 1, Len(q)) \in Nat
    BY <1>3, <2>1
  <2>6. CASE i = m
    BY <2>2, <2>3, <2>4, <2>5, <2>6
  <2>7. CASE i # m
    <3>1. PICK c \in Nat \ {0} : c = Cardinality(Later(Places(q), i))
      BY <2>3, <2>7
    <3>2. /\ Downs(r, i + 1, Len(r)) = Ups(q, i + 1, Len(q)) + c
          /\ Cardinality(Later(Places(q) \ {m}, i)) = c - 1
      BY <2>2, <2>3, <2>5, <2>7, <3>1
    <3> QED
      BY <2>4, <2>5, <2>7, <3>2
  <2> QED
    BY <2>6, <2>7
<1>5. ASSUME NEW i \in Places(r) PROVE i \in Places(q)
  <2>1. i \in 1..Len(r) /\ Counts(r, i)
    BY DEF Places
  <2>2. i \in 1..Len(q)
    BY <1>n, <1>1, <1>2, <2>1
  <2>3. Counts(q, i)
    BY <2>1, <2>2, StillCounts
  <2> QED
    BY <2>2, <2>3 DEF Places
<1>6. \A i \in Places(r) : Counts(r, i)
  BY DEF Places
<1>7. \A i \in 1..Len(q) : Counts(r, i) => i \in Places(r)
  BY <1>n, <1>1 DEF Places
<1>8. Places(r) = Places(q) \ {m}
  BY <1>p, <1>4, <1>5, <1>6, <1>7
<1>9. Balanced(r)
  BY <1>4, <1>8 DEF Balanced
<1> QED
  BY <1>8, <1>9

(* Without a place a ".." makes none.                                      *)
LEMMA DotDotNoPlaces ==
  ASSUME NEW q \in Path, NEW r \in Path, IsAppended(r, q, ".."), Places(q) = {}
  PROVE  Places(r) = {} /\ Balanced(r)
<1>n. Len(q) \in Nat
  BY LenProperties DEF Path
<1>1. Len(r) = Len(q) + 1
  BY DEF IsAppended
<1>2. ~ Counts(r, Len(q) + 1)
  BY LastCounts
<1>3. ASSUME NEW i \in Places(r) PROVE FALSE
  <2>1. i \in 1..Len(r) /\ Counts(r, i)
    BY DEF Places
  <2>2. i \in 1..Len(q)
    BY <1>n, <1>1, <1>2, <2>1
  <2>3. Counts(q, i)
    BY <2>1, <2>2, StillCounts
  <2> QED
    BY <2>2, <2>3 DEF Places
<1>4. Places(r) = {}
  BY <1>3
<1> QED
  BY <1>4 DEF Balanced

(* A last place exists.                                                    *)
LEMMA LastPlace ==
  ASSUME NEW q \in Path, Places(q) # {}
  PROVE  \E m \in Places(q) : \A i \in Places(q) : i <= m
<1>1. Len(q) \in Nat
  BY LenProperties DEF Path
<1>2. PICK T \in SUBSET (1..Len(q)) : T = Places(q)
  BY DEF Places
<1>3. T # {}
  BY <1>2
<1>4. Max(T) \in T /\ \A i \in T : i <= Max(T)
  BY <1>1, <1>3, MaxOf
<1> QED
  BY <1>2, <1>4

-----------------------------------------------------------------------------
(* The sequence whose flattening Named is: a place gives its name, and the *)
(* rest gives nothing.                                                     *)
Entries(s) == [i \in DOMAIN s |-> IF Counts(s, i) THEN <<s[i]>> ELSE <<>>]

LEMMA EntriesSeq ==
  ASSUME NEW s \in Path
  PROVE  /\ Entries(s) \in Seq(Path) /\ Len(Entries(s)) = Len(s) /\ Len(s) \in Nat
         /\ \A i \in 1..Len(s) : Entries(s)[i] = IF i \in Places(s) THEN <<s[i]>> ELSE <<>>
         /\ Named(s) = FlattenSeq(Entries(s))
<1>1. DOMAIN s = 1..Len(s) /\ Len(s) \in Nat /\ \A i \in 1..Len(s) : s[i] \in STRING
  BY LenProperties, ElementOfSeq DEF Path
<1>2. \A i \in 1..Len(s) : Counts(s, i) <=> i \in Places(s)
  BY DEF Places
<1>3. \A x \in STRING : <<x>> \in Path
  BY OneElement DEF Path
<1>4. <<>> \in Path
  BY DEF Path
<1>5. PICK E : E = Entries(s)
  OBVIOUS
<1>6. E = [i \in 1..Len(s) |-> IF i \in Places(s) THEN <<s[i]>> ELSE <<>>]
  BY <1>1, <1>2, <1>5 DEF Entries
<1>7. E \in [1..Len(s) -> Path]
  BY <1>1, <1>3, <1>4, <1>6
<1>8. E \in Seq(Path)
  BY <1>1, <1>7, FunctionIsSeq
<1>9. Len(E) = Len(s)
  BY <1>1, <1>7, <1>8, LenProperties
<1>10. Named(s) = FlattenSeq(E)
  BY <1>5 DEF Named, Entries
<1> QED
  BY <1>1, <1>5, <1>6, <1>8, <1>9, <1>10

-----------------------------------------------------------------------------
(* Flattening.  One more sequence is appended.                             *)
LEMMA FlattenLonger ==
  ASSUME NEW S, NEW q \in Seq(Seq(S)), NEW r \in Seq(Seq(S)),
         Len(r) = Len(q) + 1, Agree(Len(q), q, r)
  PROVE  FlattenSeq(r) = FlattenSeq(q) \o r[Len(q) + 1]
<1>1. Len(q) \in Nat /\ Len(q) + 1 \in 1..Len(r)
  BY LenProperties
<1>2. r[Len(q) + 1] \in Seq(S)
  BY <1>1, ElementOfSeq
<1>3. PICK e \in Seq(S) : e = r[Len(q) + 1]
  BY <1>2
<1>4. PICK t \in Seq(Seq(S)) : IsAppended(t, q, e)
  BY AppendSeq
<1>5. t = Append(q, e) /\ Len(t) = Len(r) /\ \A i \in 1..Len(t) : t[i] = r[i]
  BY <1>1, <1>3, <1>4 DEF IsAppended, Agree
<1>6. t = r
  BY <1>5, SeqEqual
<1> QED
  BY <1>3, <1>5, <1>6, FlattenAppend

(* Empty sequences at the end add nothing.                                 *)
Trails(q, r) ==
    /\ Len(q) <= Len(r) /\ Agree(Len(q), q, r)
    /\ \A i \in Len(q) + 1..Len(r) : r[i] = <<>>

LEMMA FlattenTrailing ==
  ASSUME NEW S, NEW q \in Seq(Seq(S)), NEW r \in Seq(Seq(S)), Trails(q, r)
  PROVE  FlattenSeq(r) = FlattenSeq(q)
<1> DEFINE Wrong(t) == Trails(q, t) /\ FlattenSeq(t) # FlattenSeq(q)
           Bad == {n \in Nat : \E t \in Seq(Seq(S)) : Len(t) = n /\ Wrong(t)}
<1>n. Len(q) \in Nat /\ Len(r) \in Nat
  BY LenProperties
<1>1. ASSUME Bad # {} PROVE FALSE
  <2>1. PICK n \in Bad : \A m \in Bad : n <= m
    <3>1. Bad \subseteq Nat
      OBVIOUS
    <3> HIDE DEF Bad
    <3> QED
      BY <1>1, <3>1, LeastNumber
  <2>2. PICK t \in Seq(Seq(S)) : Len(t) = n /\ Wrong(t)
    BY <2>1
  <2>3. n \in Nat /\ Len(q) <= n /\ Agree(Len(q), q, t) /\ \A i \in Len(q) + 1..n : t[i] = <<>>
    BY <2>1, <2>2 DEF Trails
  <2>4. CASE n = Len(q)
    <3>1. t = q
      BY <2>2, <2>3, <2>4, SeqEqual DEF Agree
    <3> QED
      BY <2>2, <3>1
  <2>5. CASE n # Len(q)
    <3>1. n - 1 \in Nat /\ n - 1 \in 0..Len(t) /\ Len(q) <= n - 1 /\ n \in Len(q) + 1..n
      BY <1>n, <2>2, <2>3, <2>5
    <3>c. \E u \in Seq(Seq(S)) : IsCut(u, t, n - 1)
      BY <3>1, CutSeq
    <3>2. PICK u \in Seq(Seq(S)) : Len(u) = n - 1 /\ Agree(n - 1, u, t)
      BY <3>c DEF IsCut
    <3>3. Trails(q, u)
      <4>1. ASSUME NEW i \in 1..n - 1 PROVE u[i] = t[i]
        BY <3>2 DEF Agree
      <4>2. ASSUME NEW i \in 1..Len(q) PROVE q[i] = u[i]
        <5>1. i \in 1..n - 1
          BY <1>n, <3>1
        <5> QED
          BY <2>3, <4>1, <5>1 DEF Agree
      <4>3. ASSUME NEW i \in Len(q) + 1..n - 1 PROVE u[i] = <<>>
        <5>1. i \in 1..n - 1 /\ i \in Len(q) + 1..n
          BY <1>n, <3>1
        <5> QED
          BY <2>3, <4>1, <5>1
      <4> QED
        BY <3>1, <3>2, <4>2, <4>3 DEF Trails, Agree
    <3>4. FlattenSeq(u) = FlattenSeq(q)
      <4>1. ~ (n <= n - 1)
        BY <3>1
      <4>2. n - 1 \notin Bad
        BY <2>1, <4>1
      <4> HIDE DEF Wrong
      <4>3. ~ Wrong(u)
        BY <3>1, <3>2, <4>2
      <4> USE DEF Wrong
      <4> QED
        BY <3>3, <4>3
    <3>5. FlattenSeq(t) = FlattenSeq(u) \o t[n]
      <4>1. Len(t) = Len(u) + 1 /\ Len(u) + 1 = n /\ Agree(Len(u), u, t)
        BY <2>2, <3>1, <3>2 DEF Agree
      <4> QED
        BY <4>1, FlattenLonger
    <3>6. FlattenSeq(u) \o t[n] = FlattenSeq(u)
      <4>1. FlattenSeq(u) \in Seq(S) /\ t[n] = <<>>
        BY <2>3, <3>1, FlattenType
      <4> QED
        BY <4>1, ConcatEmptySeq
    <3> QED
      BY <2>2, <3>4, <3>5, <3>6
  <2> QED
    BY <2>4, <2>5
<1> HIDE DEF Wrong
<1>2. ~ Wrong(r)
  BY <1>1, <1>n
<1> QED
  BY <1>2 DEF Wrong

-----------------------------------------------------------------------------
(* Named goes on as Normal does.                                           *)

IsEntries(E, s) ==
    /\ E = Entries(s) /\ Len(E) = Len(s) /\ Named(s) = FlattenSeq(E)
    /\ \A i \in 1..Len(s) : E[i] = IF i \in Places(s) THEN <<s[i]>> ELSE <<>>

LEMMA EntriesOf ==
  ASSUME NEW s \in Path
  PROVE  \E E \in Seq(Path) : IsEntries(E, s)
<1>1. Entries(s) \in Seq(Path) /\ IsEntries(Entries(s), s)
  BY EntriesSeq DEF IsEntries
<1> QED
  BY <1>1

LEMMA NamedDot ==
  ASSUME NEW q \in Path, NEW r \in Path, IsAppended(r, q, "."), Balanced(q)
  PROVE  Named(r) = Named(q)
<1>n. Len(q) \in Nat
  BY LenProperties DEF Path
<1>1. Places(r) = Places(q) /\ Places(q) \in SUBSET (1..Len(q))
  BY DotPlaces DEF Places
<1>2. Len(r) = Len(q) + 1 /\ \A i \in 1..Len(q) : r[i] = q[i]
  BY DEF IsAppended
<1>3. PICK E \in Seq(Path) : IsEntries(E, q)
  BY EntriesOf
<1>4. PICK F \in Seq(Path) : IsEntries(F, r)
  BY EntriesOf
<1>5. ASSUME NEW i \in 1..Len(q) PROVE F[i] = E[i]
  <2>1. i \in 1..Len(r)
    BY <1>n, <1>2
  <2> QED
    BY <1>1, <1>2, <1>3, <1>4, <2>1 DEF IsEntries
<1>6. F[Len(q) + 1] = <<>>
  BY <1>n, <1>1, <1>2, <1>4 DEF IsEntries
<1>7. Trails(E, F)
  BY <1>n, <1>2, <1>3, <1>4, <1>5, <1>6 DEF Trails, Agree, IsEntries
<1>8. FlattenSeq(F) = FlattenSeq(E)
  BY <1>7, FlattenTrailing DEF Path
<1> QED
  BY <1>3, <1>4, <1>8 DEF IsEntries

LEMMA NamedName ==
  ASSUME NEW q \in Path, NEW x \in STRING, x \notin {".", ".."},
         NEW r \in Path, IsAppended(r, q, x), Balanced(q)
  PROVE  Named(r) = Named(q) \o <<x>>
<1>n. Len(q) \in Nat
  BY LenProperties DEF Path
<1>1. Places(r) = Places(q) \cup {Len(q) + 1} /\ Places(q) \in SUBSET (1..Len(q))
  BY NamePlaces DEF Places
<1>2. Len(r) = Len(q) + 1 /\ r[Len(q) + 1] = x /\ \A i \in 1..Len(q) : r[i] = q[i]
  BY DEF IsAppended
<1>3. PICK E \in Seq(Path) : IsEntries(E, q)
  BY EntriesOf
<1>4. PICK F \in Seq(Path) : IsEntries(F, r)
  BY EntriesOf
<1>5. ASSUME NEW i \in 1..Len(q) PROVE E[i] = F[i]
  <2>1. i \in 1..Len(r) /\ i # Len(q) + 1
    BY <1>n, <1>2
  <2>2. i \in Places(r) <=> i \in Places(q)
    BY <1>1, <2>1
  <2> QED
    BY <1>2, <1>3, <1>4, <2>1, <2>2 DEF IsEntries
<1>6. F[Len(q) + 1] = <<x>>
  BY <1>n, <1>1, <1>2, <1>4 DEF IsEntries
<1>7. Len(F) = Len(E) + 1 /\ Agree(Len(E), E, F) /\ F[Len(E) + 1] = <<x>>
  BY <1>2, <1>3, <1>4, <1>5, <1>6 DEF Agree, IsEntries
<1>8. FlattenSeq(F) = FlattenSeq(E) \o <<x>>
  BY <1>7, FlattenLonger DEF Path
<1> QED
  BY <1>3, <1>4, <1>8 DEF IsEntries

(* A ".." takes the last name away.                                        *)
LEMMA NamedDotDot ==
  ASSUME NEW q \in Path, NEW r \in Path, IsAppended(r, q, ".."), Balanced(q),
         Places(q) # {}
  PROVE  \E x \in STRING : Named(r) \in Path /\ Named(q) = Named(r) \o <<x>>
<1>n. Len(q) \in Nat
  BY LenProperties DEF Path
<1>m. PICK m \in Places(q) : \A i \in Places(q) : i <= m
  BY LastPlace
<1>1. Places(r) = Places(q) \ {m} /\ Places(q) \in SUBSET (1..Len(q))
  BY <1>m, DotDotPlaces DEF Places
<1>2. Len(r) = Len(q) + 1 /\ \A i \in 1..Len(q) : r[i] = q[i]
  BY DEF IsAppended
<1>3. PICK E \in Seq(Path) : IsEntries(E, q)
  BY EntriesOf
<1>4. PICK F \in Seq(Path) : IsEntries(F, r)
  BY EntriesOf
<1>5. m \in 1..Len(q) /\ m \in Nat /\ m - 1 \in Nat /\ m \in 0..Len(E) /\ m - 1 \in 0..Len(E)
  BY <1>n, <1>1, <1>3 DEF IsEntries
<1>6. PICK G \in Seq(Path) : Len(G) = m /\ Agree(m, G, E)
  <2>1. \E G \in Seq(Path) : IsCut(G, E, m)
    BY <1>5, CutSeq
  <2> QED
    BY <2>1 DEF IsCut
<1>7. PICK H \in Seq(Path) : Len(H) = m - 1 /\ Agree(m - 1, H, E)
  <2>1. \E H \in Seq(Path) : IsCut(H, E, m - 1)
    BY <1>5, CutSeq
  <2> QED
    BY <2>1 DEF IsCut
<1>8. FlattenSeq(E) = FlattenSeq(G)
  <2>1. ASSUME NEW i \in m + 1..Len(E) PROVE E[i] = <<>>
    <3>1. i \in 1..Len(q) /\ ~ (i <= m)
      BY <1>n, <1>3, <1>5 DEF IsEntries
    <3>2. i \notin Places(q)
      BY <1>m, <3>1
    <3> QED
      BY <1>3, <3>1, <3>2 DEF IsEntries
  <2>2. m <= Len(E)
    BY <1>5
  <2>3. Trails(G, E)
    BY <1>6, <2>1, <2>2 DEF Trails
  <2> QED
    BY <2>3, FlattenTrailing DEF Path
<1>9. FlattenSeq(F) = FlattenSeq(H)
  <2>1. ASSUME NEW i \in (m - 1) + 1..Len(F) PROVE F[i] = <<>>
    <3>1. i \in 1..Len(r) /\ m <= i
      BY <1>n, <1>2, <1>4, <1>5 DEF IsEntries
    <3>2. i \notin Places(r)
      BY <1>m, <1>1, <1>5, <3>1
    <3> QED
      BY <1>4, <3>1, <3>2 DEF IsEntries
  <2>2. ASSUME NEW i \in 1..m - 1 PROVE H[i] = F[i]
    <3>1. i \in 1..Len(q) /\ i \in 1..Len(r) /\ i # m
      BY <1>n, <1>2, <1>5
    <3>2. i \in Places(r) <=> i \in Places(q)
      BY <1>1, <3>1
    <3>3. E[i] = F[i]
      BY <1>2, <1>3, <1>4, <3>1, <3>2 DEF IsEntries
    <3> QED
      BY <1>7, <3>3 DEF Agree
  <2>3. m - 1 <= Len(F)
    BY <1>n, <1>2, <1>4, <1>5 DEF IsEntries
  <2>4. Trails(H, F)
    BY <1>7, <2>1, <2>2, <2>3 DEF Trails, Agree
  <2> QED
    BY <2>4, FlattenTrailing DEF Path
<1>10. FlattenSeq(G) = FlattenSeq(H) \o <<q[m]>>
  <2>1. ASSUME NEW i \in 1..m - 1 PROVE H[i] = G[i]
    <3>1. i \in 1..m
      BY <1>5
    <3> QED
      BY <1>6, <1>7, <3>1 DEF Agree
  <2>2. (m - 1) + 1 = m /\ m \in 1..m
    BY <1>5
  <2>3. Len(G) = Len(H) + 1 /\ Agree(Len(H), H, G)
    BY <1>6, <1>7, <2>1, <2>2 DEF Agree
  <2>4. G[Len(H) + 1] = <<q[m]>>
    <3>1. G[m] = E[m]
      BY <1>6, <2>2 DEF Agree
    <3>2. E[m] = <<q[m]>>
      BY <1>3, <1>5 DEF IsEntries
    <3> QED
      BY <1>7, <2>2, <3>1, <3>2
  <2> QED
    BY <2>3, <2>4, FlattenLonger DEF Path
<1>11. q[m] \in STRING /\ FlattenSeq(H) \in Path
  BY <1>5, ElementOfSeq, FlattenType DEF Path
<1> QED
  BY <1>3, <1>4, <1>8, <1>9, <1>10, <1>11 DEF IsEntries

(* Where nothing counts, nothing is named.                                 *)
LEMMA NamedNothing ==
  ASSUME NEW q \in Path, Places(q) = {}
  PROVE  Named(q) = <<>>
<1>1. PICK E \in Seq(Path) : IsEntries(E, q)
  BY EntriesOf
<1>2. PICK G \in Seq(Path) : G = <<>> /\ Len(G) = 0
  <2>1. <<>> \in Seq(Path) /\ Len(<<>>) = 0
    OBVIOUS
  <2> QED
    BY <2>1
<1>3. 0 <= Len(E)
  BY LenProperties
<1>4. \A i \in 1..Len(E) : E[i] = <<>>
  BY <1>1 DEF IsEntries
<1>5. 0 + 1 = 1 /\ 1..0 = {}
  OBVIOUS
<1>6. Trails(G, E)
  BY <1>2, <1>3, <1>4, <1>5 DEF Trails, Agree
<1>7. FlattenSeq(E) = FlattenSeq(G)
  BY <1>6, FlattenTrailing DEF Path
<1> QED
  BY <1>1, <1>2, <1>7, FlattenEmpty DEF IsEntries

LEMMA FrontOf ==
  ASSUME NEW S, NEW t \in Seq(S), NEW x \in S
  PROVE  /\ t \o <<x>> # <<>> /\ Front(t \o <<x>>) = t
         /\ t \o <<x>> = Append(t, x) /\ t \o <<x>> \in Seq(S)
<1>0. <<x>> \in Seq(S) /\ Len(<<x>>) = 1 /\ <<x>>[1] = x
  BY OneElement
<1>1. PICK w \in Seq(S) : IsJoined(w, t, <<x>>)
  BY <1>0, JoinedSeq
<1>a. w = t \o <<x>>
  BY <1>1 DEF IsJoined
<1>2. PICK v \in Seq(S) : IsAppended(v, t, x)
  BY AppendSeq
<1>3. Len(t) \in Nat /\ Len(w) = Len(t) + 1 /\ w[Len(t) + 1] = x /\ \A i \in 1..Len(t) : w[i] = t[i]
  BY <1>0, <1>1, LenProperties DEF IsJoined
<1>4. v = Append(t, x) /\ Len(v) = Len(w) /\ \A i \in 1..Len(v) : v[i] = w[i]
  BY <1>2, <1>3 DEF IsAppended
<1>5. v = w
  BY <1>4, SeqEqual
<1>6. Front(w) = t
  <2>1. Len(w) - 1 = Len(t) /\ Len(t) \in 0..Len(w)
    BY <1>3
  <2>2. PICK u \in Seq(S) : IsCut(u, w, Len(t))
    BY <2>1, CutSeq
  <2>3. u = Front(w) /\ Len(u) = Len(t) /\ \A i \in 1..Len(u) : u[i] = t[i]
    BY <1>3, <2>1, <2>2 DEF IsCut, Agree, Front
  <2> QED
    BY <2>3, SeqEqual
<1>7. w # <<>>
  BY <1>3, EmptySeq
<1> QED
  BY <1>a, <1>4, <1>5, <1>6, <1>7

(* What Normal computes is what Named says: for every path.                *)
Judged(q) == Balanced(q) /\ Normal(q) = Named(q) /\ Named(q) \in Path

LEMMA JudgedAppend ==
  ASSUME NEW q \in Path, NEW x \in STRING, NEW r \in Path, IsAppended(r, q, x), Judged(q)
  PROVE  Judged(r)
<1>1. Normal(r) = Step(Named(q), x) /\ Balanced(q)
  BY NormalAppend DEF IsAppended, Judged
<1>2. CASE x = "."
  <2>1. Named(r) = Named(q) /\ Balanced(r)
    BY <1>1, <1>2, NamedDot, DotPlaces
  <2> QED
    BY <1>1, <1>2, <2>1 DEF Step, Judged
<1>3. CASE x = ".." /\ Places(q) = {}
  <2>1. Named(q) = <<>> /\ Named(r) = <<>> /\ Balanced(r)
    BY <1>3, NamedNothing, DotDotNoPlaces
  <2>2. Step(<<>>, "..") = <<>>
    BY DEF Step
  <2> QED
    BY <1>1, <1>3, <2>1, <2>2 DEF Judged
<1>4. CASE x = ".." /\ Places(q) # {}
  <2>1. Balanced(r)
    BY <1>1, <1>4, LastPlace, DotDotPlaces
  <2>2. PICK y \in STRING : Named(r) \in Path /\ Named(q) = Named(r) \o <<y>>
    BY <1>1, <1>4, NamedDotDot
  <2>a. PICK u \in Path : u = Named(r)
    BY <2>2
  <2>b. u \o <<y>> # <<>> /\ Front(u \o <<y>>) = u
    BY FrontOf DEF Path
  <2>3. Named(q) # <<>> /\ Front(Named(q)) = Named(r)
    BY <2>2, <2>a, <2>b
  <2>4. Step(Named(q), "..") = Front(Named(q))
    BY <2>3 DEF Step
  <2> QED
    BY <1>1, <1>4, <2>1, <2>2, <2>3, <2>4 DEF Judged
<1>5. CASE x \notin {".", ".."}
  <2>1. Named(r) = Named(q) \o <<x>> /\ Balanced(r)
    BY <1>1, <1>5, NamedName, NamePlaces
  <2>2. Named(q) \in Path
    BY DEF Judged
  <2>3. Named(q) \o <<x>> = Append(Named(q), x) /\ Named(q) \o <<x>> \in Path
    BY <2>2, FrontOf DEF Path
  <2>4. Step(Named(q), x) = Append(Named(q), x)
    BY <1>5 DEF Step
  <2> QED
    BY <1>1, <2>1, <2>3, <2>4 DEF Judged
<1> QED
  BY <1>2, <1>3, <1>4, <1>5

LEMMA NormalIsNamed ==
  ASSUME NEW s \in Path
  PROVE  Judged(s)
<1> DEFINE Bad == {n \in Nat : \E q \in Path : Len(q) = n /\ ~ Judged(q)}
<1>1. ASSUME Bad # {} PROVE FALSE
  <2>1. PICK n \in Bad : \A m \in Bad : n <= m
    <3>1. Bad \subseteq Nat
      OBVIOUS
    <3> HIDE DEF Bad
    <3> QED
      BY <1>1, <3>1, LeastNumber
  <2>2. PICK r \in Path : Len(r) = n /\ ~ Judged(r)
    BY <2>1
  <2>3. CASE n = 0
    <3>1. r = <<>>
      BY <2>2, <2>3, EmptySeq DEF Path
    <3>2. Places(r) = {}
      <4>1. 1..0 = {}
        OBVIOUS
      <4> QED
        BY <2>2, <2>3, <4>1 DEF Places
    <3>3. <<>> \in Path
      BY DEF Path
    <3>4. Balanced(r) /\ Named(r) = <<>>
      BY <3>2, NamedNothing DEF Balanced
    <3> QED
      BY <2>2, <3>1, <3>3, <3>4, NormalEmpty DEF Judged
  <2>4. CASE n # 0
    <3>1. n - 1 \in Nat /\ n - 1 \in 0..Len(r) /\ n \in 1..Len(r) /\ (n - 1) + 1 = n /\ ~ (n <= n - 1)
      BY <2>1, <2>2, <2>4
    <3>2. PICK q \in Path : IsCut(q, r, n - 1)
      BY <3>1, CutSeq DEF Path
    <3>3. PICK x \in STRING : x = r[n]
      BY <3>1, ElementOfSeq DEF Path
    <3>4. PICK t \in Path : IsAppended(t, q, x)
      BY AppendSeq DEF Path
    <3>5. Len(q) = n - 1 /\ Len(t) = Len(r) /\ \A i \in 1..Len(t) : t[i] = r[i]
      <4>1. Len(q) = n - 1 /\ \A i \in 1..n - 1 : q[i] = r[i]
        BY <3>2 DEF IsCut, Agree
      <4>2. Len(t) = n /\ t[n] = r[n] /\ \A i \in 1..n - 1 : t[i] = q[i]
        BY <3>1, <3>3, <3>4, <4>1 DEF IsAppended
      <4>3. ASSUME NEW i \in 1..n PROVE i \in 1..n - 1 \/ i = n
        BY <3>1
      <4> QED
        BY <2>2, <4>1, <4>2, <4>3
    <3>6. t = r
      BY <3>5, SeqEqual DEF Path
    <3>7. Judged(q)
      BY <2>1, <3>1, <3>5
    <3>8. Judged(r)
      BY <3>4, <3>6, <3>7, JudgedAppend
    <3> QED
      BY <2>2, <3>8
  <2> QED
    BY <2>3, <2>4
<1>2. Len(s) \in Nat
  BY LenProperties DEF Path
<1> QED
  BY <1>1, <1>2

-----------------------------------------------------------------------------
(* What is left of a sequence.                                             *)
LEMMA TailType ==
  ASSUME NEW S, NEW t \in Seq(S), NEW n \in Nat
  PROVE  SubSeq(t, n + 1, Len(t)) \in Seq(S)
<1>1. Len(t) \in Nat
  BY LenProperties
<1>2. CASE n <= Len(t)
  BY <1>1, <1>2, CutProperties
<1>3. CASE n > Len(t)
  <2>1. SubSeq(t, n + 1, Len(t)) = <<>>
    BY <1>1, <1>3, SubSeqProperties
  <2> QED
    BY <2>1, EmptySeq
<1> QED
  BY <1>1, <1>2, <1>3

(* The hook.  IsPrefix(s, t) as an equation, which is how Scoped says it.  *)
LEMMA PrefixCut ==
  ASSUME NEW S, NEW s \in Seq(S), NEW t \in Seq(S)
  PROVE  IsPrefix(s, t) <=> t = s \o SubSeq(t, Len(s) + 1, Len(t))
<1>n. Len(s) \in Nat /\ Len(t) \in Nat
  BY LenProperties
<1>1. ASSUME IsPrefix(s, t) PROVE t = s \o SubSeq(t, Len(s) + 1, Len(t))
  <2>1. Len(s) \in 0..Len(t) /\ \A i \in 1..Len(s) : s[i] = t[i]
    BY <1>n, <1>1, PrefixPointwise
  <2>2. PICK u \in Seq(S) : IsCut(u, t, Len(s))
    BY <2>1, CutSeq
  <2>3. Len(u) = Len(s) /\ \A i \in 1..Len(u) : u[i] = s[i]
    BY <2>1, <2>2 DEF IsCut, Agree
  <2>4. u = s
    BY <2>3, SeqEqual
  <2>5. SubSeq(t, 1, Len(s)) \o SubSeq(t, Len(s) + 1, Len(t)) = t
    BY <2>1, CutProperties
  <2> QED
    BY <2>2, <2>4, <2>5 DEF IsCut
<1>2. ASSUME t = s \o SubSeq(t, Len(s) + 1, Len(t)) PROVE IsPrefix(s, t)
  <2>1. SubSeq(t, Len(s) + 1, Len(t)) \in Seq(S)
    BY <1>n, TailType
  <2>2. PICK v \in Seq(S) : v = SubSeq(t, Len(s) + 1, Len(t))
    BY <2>1
  <2>3. PICK w \in Seq(S) : IsJoined(w, s, v)
    BY JoinedSeq
  <2>4. w = t /\ Len(v) \in Nat
    BY <1>2, <2>2, <2>3, LenProperties DEF IsJoined
  <2>5. Len(s) <= Len(t) /\ \A i \in 1..Len(s) : s[i] = t[i]
    BY <1>n, <2>3, <2>4 DEF IsJoined
  <2> QED
    BY <2>5, PrefixPointwise
<1> QED
  BY <1>1, <1>2

(* The names of the model are strings, which the provers do not know.      *)
Names ==
    STRING \cup Autofix
        \cup {"tmp", "repo", ".git", "hooks", ".github", "workflows", ".claude"}

LEMMA PathOfNames ==
  ASSUME NEW f \in Path
  PROVE  f \in Seq(Names)
<1>1. Len(f) \in Nat /\ \A i \in 1..Len(f) : f[i] \in Names
  BY LenProperties, ElementOfSeq DEF Path, Names
<1>2. DOMAIN f = 1..Len(f) /\ f = [i \in 1..Len(f) |-> f[i]]
  BY LenProperties DEF Path
<1>3. f \in [1..Len(f) -> Names]
  BY <1>1, <1>2
<1> QED
  BY <1>1, <1>3, FunctionIsSeq

LEMMA TwoElements ==
  ASSUME NEW S, NEW x \in S, NEW y \in S
  PROVE  <<x, y>> \in Seq(S)
OBVIOUS

LEMMA ThreeElements ==
  ASSUME NEW S, NEW x \in S, NEW y \in S, NEW z \in S
  PROVE  <<x, y, z>> \in Seq(S) /\ Len(<<x, y, z>>) = 3 /\ <<x, y, z>>[2] = y
OBVIOUS

LEMMA ProtectedSeq ==
  ASSUME NEW d \in Protected
  PROVE  d \in Seq(Names)
<1>1. /\ ".git" \in Names /\ "hooks" \in Names /\ ".github" \in Names
      /\ "workflows" \in Names /\ ".claude" \in Names
  BY DEF Names
<1>2. /\ <<".git", "hooks">> \in Seq(Names) /\ <<".github", "workflows">> \in Seq(Names)
      /\ <<".claude">> \in Seq(Names)
  BY <1>1, OneElement, TwoElements
<1> QED
  BY <1>2 DEF Protected

LEMMA HookScope ==
  ASSUME NEW f \in Path
  PROVE  AllowedPrefix(f) /\ ~ DeniedWithin(f) <=> Scoped(f)
<1> DEFINE rest == SubSeq(f, 4, Len(f))
           Root(w) == <<"tmp", w, "repo">>
<1>1. f \in Seq(Names) /\ Len(f) \in Nat
  BY PathOfNames, LenProperties
<1>2. rest \in Seq(Names)
  BY <1>1, TailType
<1>3. ASSUME NEW d \in Protected
      PROVE  IsPrefix(d, rest) <=> \E more \in {SubSeq(rest, Len(d) + 1, Len(rest))} : rest = d \o more
  <2>1. d \in Seq(Names)
    BY ProtectedSeq
  <2> HIDE DEF rest
  <2> QED
    BY <1>2, <2>1, PrefixCut
<1>4. DeniedWithin(f) <=>
        \E d \in Protected : \E more \in {SubSeq(rest, Len(d) + 1, Len(rest))} : rest = d \o more
  BY <1>3 DEF DeniedWithin
<1>5. ASSUME NEW w \in Names
      PROVE  /\ f = Root(w) \o rest <=> IsPrefix(Root(w), f)
             /\ IsPrefix(Root(w), f) => Len(f) >= 3 /\ f[2] = w
  <2>1. Root(w) \in Seq(Names) /\ Len(Root(w)) = 3 /\ Root(w)[2] = w
    <3>1. "tmp" \in Names /\ "repo" \in Names
      BY DEF Names
    <3> QED
      BY <3>1, ThreeElements
  <2>2. PICK s \in Seq(Names) : s = Root(w) /\ Len(s) = 3 /\ s[2] = w
    BY <2>1
  <2>3. IsPrefix(s, f) <=> f = s \o rest
    <3>1. Len(s) + 1 = 4
      BY <2>2
    <3>2. IsPrefix(s, f) <=> f = s \o SubSeq(f, Len(s) + 1, Len(f))
      BY <1>1, PrefixCut
    <3> QED
      BY <3>1, <3>2
  <2>4. IsPrefix(s, f) => 3 <= Len(f) /\ s[2] = f[2]
    <3>1. IsPrefix(s, f) => Len(s) <= Len(f) /\ \A i \in 1..Len(s) : s[i] = f[i]
      BY <1>1, PrefixPointwise
    <3>2. 2 \in 1..3
      OBVIOUS
    <3> QED
      BY <2>2, <3>1, <3>2
  <2> HIDE DEF rest, Root
  <2> QED
    BY <1>1, <2>2, <2>3, <2>4
<1> HIDE DEF rest, Root
<1>6. ASSUME AllowedPrefix(f) PROVE f[2] \in Autofix /\ f = Root(f[2]) \o rest
  <2>1. f[2] \in Autofix /\ IsPrefix(Root(f[2]), f) /\ Len(f) >= 3
    BY <1>6 DEF AllowedPrefix, Root
  <2>2. f[2] \in Names
    BY <1>1, <2>1, ElementOfSeq
  <2> QED
    BY <1>5, <2>1, <2>2
<1>7. ASSUME NEW w \in Autofix, f = Root(w) \o rest PROVE AllowedPrefix(f)
  <2>1. w \in Names
    BY DEF Names
  <2>2. IsPrefix(Root(w), f) /\ Len(f) >= 3 /\ f[2] = w
    BY <1>5, <1>7, <2>1
  <2> QED
    BY <2>2 DEF AllowedPrefix, Root
<1> DEFINE Denied == \E d \in Protected :
                       \E more \in {SubSeq(rest, Len(d) + 1, Len(rest))} : rest = d \o more
<1>8. Scoped(f) <=> \E w \in Autofix : f = Root(w) \o rest /\ ~ Denied
  BY DEF Scoped, rest, Root
<1>9. DeniedWithin(f) <=> Denied
  BY <1>4
<1> HIDE DEF Denied
<1> QED
  BY <1>6, <1>7, <1>8, <1>9

(* What the hook answers for a path is whether the place it names is one   *)
(* it may let pass.                                                        *)
LEMMA CheckIsScope ==
  ASSUME NEW p \in Paths, p # EmptyPath
  PROVE  CheckPath[p] <=> Scoped(Named(Full(p)))
<1>1. Workdir \in Path /\ p.segments \in Path
  BY PathsAssumption DEF Path
<1>2. Full(p) \in Path
  BY <1>1, ConcatProperties DEF Full, Path
<1>3. Resolved[p] = Named(Full(p)) /\ Named(Full(p)) \in Path
  BY <1>2, NormalIsNamed DEF Resolved, Judged
<1>4. CheckPath[p] <=> AllowedPrefix(Resolved[p]) /\ ~ DeniedWithin(Resolved[p])
  BY DEF CheckPath
<1> QED
  BY <1>3, <1>4, HookScope

-----------------------------------------------------------------------------
(* The inductive invariant.  Of the files, only those of the clone are     *)
(* where the hook lets a path go.                                          *)
FilesInv ==
    /\ \A f \in DOMAIN files : ~ UnderAFile(f) /\ files[f] \in 0..edits
    /\ edits \in 0..MaxEdits
LastInv ==
    /\ last.path \in Paths \cup {EmptyPath}
    /\ last.tool \in {"none", "read_file", "apply_edit"} \cup PathTools
    /\ last.answer \in {"none", "denied", "raised", "done"}
PlaceInv == \A f \in DOMAIN files : AllowedPrefix(f) => Inside(f)

IInv ==
    /\ FilesInv
    /\ LastInv
    /\ PlaceInv
    /\ HookSeesThroughSpelling

(* What one call answers.                                                  *)
LEMMA CallAnswers ==
  ASSUME NEW t, NEW p \in Paths \cup {EmptyPath}, NEW a, Call(t, p, a),
         t \in {"read_file", "apply_edit"} \cup PathTools,
         a \in {"denied", "raised", "done"},
         t \in PathTools /\ p # EmptyPath => (a = "denied" <=> ~ CheckPath[p])
  PROVE  LastInv' /\ HookSeesThroughSpelling'
<1>1. last' = [tool |-> t, path |-> p, answer |-> a]
  BY DEF Call
<1>2. last'.tool = t /\ last'.path = p /\ last'.answer = a
  BY <1>1
<1>3. LastInv'
  BY <1>2 DEF LastInv
<1>4. ASSUME t \in PathTools, p # EmptyPath
      PROVE  a = "denied" <=> ~ Scoped(Named(Full(p)))
  BY <1>4, CheckIsScope
<1>5. HookSeesThroughSpelling'
  BY <1>2, <1>4 DEF HookSeesThroughSpelling
<1> QED
  BY <1>3, <1>5

(* A file is written where no file is above it and it is no directory, or  *)
(* where it is.                                                            *)
LEMMA WrittenKeeps ==
  ASSUME FilesInv, PlaceInv, NEW f, Written(f),
         f \in DOMAIN files \/ (Inside(f) /\ Writable(f))
  PROVE  FilesInv' /\ PlaceInv'
<1>1. edits \in Nat /\ edits' = edits + 1 /\ edits' \in 0..MaxEdits
  BY EditsAssumption DEF Written, FilesInv
<1>2. DOMAIN files' = DOMAIN files \cup {f}
  BY DEF Written
<1>3. \A g \in DOMAIN files' : files'[g] = IF g = f THEN edits' ELSE files[g]
  BY DEF Written
<1>4. ASSUME NEW g \in DOMAIN files' PROVE files'[g] \in 0..edits'
  <2>1. edits' \in 0..edits' /\ \A n \in 0..edits : n \in 0..edits'
    BY <1>1
  <2> QED
    BY <1>2, <1>3, <2>1 DEF FilesInv
<1>5. ASSUME NEW g \in DOMAIN files', NEW h \in DOMAIN files', h # g PROVE ~ IsPrefix(h, g)
  <2>1. CASE f \in DOMAIN files
    BY <1>2, <1>5, <2>1 DEF FilesInv, UnderAFile
  <2>2. CASE Writable(f)
    BY <1>2, <1>5, <2>2 DEF FilesInv, UnderAFile, Writable, IsDirectory
  <2> QED
    BY <2>1, <2>2
<1>6. FilesInv'
  BY <1>1, <1>4, <1>5 DEF FilesInv, UnderAFile
<1>7. PlaceInv'
  BY <1>2 DEF PlaceInv
<1> QED
  BY <1>6, <1>7

LEMMA Invariance == Spec => []IInv
<1>1. ASSUME Init PROVE IInv
  <2>1. \A f \in DOMAIN files : f \in InitialFiles /\ files[f] = 0
    BY <1>1 DEF Init
  <2>2. edits = 0 /\ 0 \in 0..edits /\ edits \in 0..MaxEdits
    BY <1>1, EditsAssumption DEF Init
  <2>3. \A f \in DOMAIN files : ~ UnderAFile(f)
    BY <2>1, FilesAssumption DEF UnderAFile
  <2>4. FilesInv
    BY <2>1, <2>2, <2>3 DEF FilesInv
  <2>5. LastInv
    BY <1>1 DEF Init, LastInv
  <2>6. PlaceInv
    BY <2>1, ImageAssumption DEF PlaceInv
  <2>7. HookSeesThroughSpelling
    BY <1>1 DEF Init, HookSeesThroughSpelling, PathTools
  <2> QED
    BY <2>4, <2>5, <2>6, <2>7 DEF IInv
<1>2. ASSUME IInv, [Next]_vars PROVE IInv'
  <2>f. FilesInv /\ PlaceInv
    BY <1>2 DEF IInv
  <2>u. ASSUME Unchanged PROVE FilesInv' /\ PlaceInv'
    BY <2>f, <2>u DEF Unchanged, FilesInv, PlaceInv, UnderAFile
  <2>1. ASSUME NEW p \in Paths, read_file(p) PROVE IInv'
    <3>1. /\ Call("read_file", p, IF Inside(Resolved[p]) /\ Exists(Resolved[p]) THEN "done" ELSE "raised")
          /\ Unchanged
      BY <2>1 DEF read_file
    <3>2. LastInv' /\ HookSeesThroughSpelling'
      BY <3>1, CallAnswers DEF PathTools
    <3> QED
      BY <2>u, <3>1, <3>2 DEF IInv
  <2>2. ASSUME NEW p \in Paths, apply_edit(p) PROVE IInv'
    <3>1. PICK a \in {"done", "raised"} : Call("apply_edit", p, a)
      BY <2>2 DEF apply_edit
    <3>2. LastInv' /\ HookSeesThroughSpelling'
      BY <3>1, CallAnswers DEF PathTools
    <3>3. \/ Inside(Resolved[p]) /\ Writable(Resolved[p]) /\ Written(Resolved[p])
          \/ Unchanged
      BY <2>2 DEF apply_edit
    <3>4. FilesInv' /\ PlaceInv'
      BY <2>f, <2>u, <3>3, WrittenKeeps
    <3> QED
      BY <3>2, <3>4 DEF IInv
  <2>3. ASSUME NEW p \in Paths, NEW t \in PathTools, Hooked(t, p) PROVE IInv'
    <3>1. PICK a \in {"denied", "raised", "done"} : Call(t, p, a) /\ (a = "denied" <=> ~ CheckPath[p])
      BY <2>3 DEF Hooked
    <3>2. LastInv' /\ HookSeesThroughSpelling'
      BY <3>1, CallAnswers
    <3>3. \/ Exists(Resolved[p]) /\ Written(Resolved[p])
          \/ Unchanged
      BY <2>3 DEF Hooked
    <3>4. FilesInv' /\ PlaceInv'
      <4>1. ASSUME NEW f, f \in DOMAIN files, Written(f) PROVE FilesInv' /\ PlaceInv'
        <5>1. f \in DOMAIN files \/ (Inside(f) /\ Writable(f))
          BY <4>1
        <5> QED
          BY <2>f, <4>1, <5>1, WrittenKeeps
      <4> QED
        BY <2>u, <3>3, <4>1 DEF Exists
    <3> QED
      BY <3>2, <3>4 DEF IInv
  <2>4. ASSUME NEW t \in PathTools, Search(t) PROVE IInv'
    <3>1. Call(t, EmptyPath, "done") /\ Unchanged
      BY <2>4 DEF Search
    <3>2. LastInv' /\ HookSeesThroughSpelling'
      BY <3>1, CallAnswers
    <3> QED
      BY <2>u, <3>1, <3>2 DEF IInv
  <2>5. ASSUME UNCHANGED vars PROVE IInv'
    <3>1. Unchanged /\ last' = last
      BY <2>5 DEF vars, Unchanged
    <3>2. LastInv' /\ HookSeesThroughSpelling'
      BY <1>2, <3>1 DEF IInv, LastInv, HookSeesThroughSpelling
    <3> QED
      BY <2>u, <3>1, <3>2 DEF IInv
  <2> QED
    BY <1>2, <2>1, <2>2, <2>3, <2>4, <2>5 DEF Next
<1> QED
  BY <1>1, <1>2, PTL DEF Spec

(* Every call of a tool answers as its type says, and no file is below a   *)
(* file (local_repo.py:80-191, restrict_paths.py:70-113).                  *)
THEOREM TypeCorrect == Spec => []TypeOK
<1>1. IInv => TypeOK
  BY DEF IInv, FilesInv, LastInv, TypeOK
<1> QED
  BY <1>1, Invariance, PTL

(* The hook denies a call exactly if the place its path names is outside   *)
(* every workdir or protected, for every path, however long and however    *)
(* spelled (restrict_paths.py:70-113).                                     *)
THEOREM HookJudges == Spec => []HookSeesThroughSpelling
<1>1. IInv => HookSeesThroughSpelling
  BY DEF IInv
<1> QED
  BY <1>1, Invariance, PTL

(* No call of any tool changes or makes a file outside the clone: safe_join *)
(* keeps apply_edit in it, and where the hook lets Edit go there is no file *)
(* but the clone's (_workdir.py:34-40, restrict_paths.py:93-113).          *)
THEOREM ChangesStay == Spec => ChangesStayInClone
<1> DEFINE Stays(f) == f \notin DOMAIN files \/ files'[f] # files[f] => IsPrefix(Workdir, f)
<1>1. ASSUME IInv, [Next]_vars
      PROVE  [\A f \in DOMAIN files' : Stays(f)]_files
  <2>1. ASSUME NEW g, Written(g), Inside(g)
        PROVE  \A f \in DOMAIN files' : Stays(f)
    BY <2>1 DEF Written, Inside
  <2>2. ASSUME NEW p \in Paths, apply_edit(p)
        PROVE  (\A f \in DOMAIN files' : Stays(f)) \/ files' = files
    BY <2>1, <2>2 DEF apply_edit, Unchanged
  <2>3. ASSUME NEW p \in Paths, NEW t \in PathTools, Hooked(t, p)
        PROVE  (\A f \in DOMAIN files' : Stays(f)) \/ files' = files
    <3>1. CASE CheckPath[p] /\ Exists(Resolved[p]) /\ Written(Resolved[p])
      <4>1. AllowedPrefix(Resolved[p]) /\ Resolved[p] \in DOMAIN files
        BY <3>1 DEF CheckPath, Exists
      <4>2. Inside(Resolved[p])
        BY <1>1, <4>1 DEF IInv, PlaceInv
      <4> QED
        BY <2>1, <3>1, <4>2
    <3>2. CASE Unchanged
      BY <3>2 DEF Unchanged
    <3> QED
      BY <2>3, <3>1, <3>2 DEF Hooked
  <2>4. ASSUME NEW p \in Paths, read_file(p) PROVE files' = files
    BY <2>4 DEF read_file, Unchanged
  <2>5. ASSUME NEW t \in PathTools, Search(t) PROVE files' = files
    BY <2>5 DEF Search, Unchanged
  <2> HIDE DEF Stays
  <2>6. (\A f \in DOMAIN files' : Stays(f)) \/ files' = files
    BY <1>1, <2>2, <2>3, <2>4, <2>5 DEF Next, vars
  <2> QED
    BY <2>6
<1>2. [\A f \in DOMAIN files' : Stays(f)]_files <=>
      [\A f \in DOMAIN files' :
         f \notin DOMAIN files \/ files'[f] # files[f] => IsPrefix(Workdir, f)]_files
  OBVIOUS
<1> HIDE DEF Stays
<1> QED
  BY <1>1, <1>2, Invariance, PTL DEF Spec, ChangesStayInClone
=============================================================================
