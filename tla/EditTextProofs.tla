--------------------------- MODULE EditTextProofs ---------------------------
(***************************************************************************)
(* What the user approves is what is written: the diff that EditText shows *)
(* spells the lines of both texts, keeps as many of them as any diff could *)
(* and shows every change but one of the final newline alone; and each     *)
(* edit does exactly what it promises.  Induction over numbers is by a     *)
(* least counterexample.                                                   *)
(***************************************************************************)
EXTENDS EditText, SequenceTheorems, FiniteSetTheorems, WellFoundedInduction, TLAPS

(***************************************************************************)
(* Numbers and ranks                                                       *)
(***************************************************************************)

\* A set of numbers that is not empty has a least member.
LEMMA Smallest ==
  ASSUME NEW S \in SUBSET Nat, S # {}
  PROVE  \E n \in S : \A m \in S : n <= m
  <1> DEFINE R == OpToRel(<, Nat)
  <1>1. IsWellFoundedOn(R, Nat)
    BY NatLessThanWellFounded
  <1>2. \A m, n \in Nat : m < n => <<m, n>> \in R
    BY DEF OpToRel
  <1> HIDE DEF R
  <1>3. PICK n \in S : \A m \in S : ~ (<<m, n>> \in R)
    BY <1>1, WFMin
  <1>4. ASSUME NEW m \in S PROVE n <= m
    <2>1. m \in Nat /\ n \in Nat
      OBVIOUS
    <2>2. ~ (m < n)
      BY <1>2, <1>3, <2>1, Zenon
    <2> QED BY <2>1, <2>2
  <1> QED BY <1>4

\* Induction, over a set in the place of a predicate.
LEMMA SetInduction ==
  ASSUME NEW S \in SUBSET Nat, 0 \in S, \A n \in S : n + 1 \in S
  PROVE  S = Nat
  <1>1. SUFFICES ASSUME Nat \ S # {} PROVE FALSE
    OBVIOUS
  <1>2. PICK n \in Nat \ S : \A m \in Nat \ S : n <= m
    BY <1>1, Smallest
  <1>3. n - 1 \in S
    BY <1>2
  <1> QED BY <1>2, <1>3

\* What lies in an interval is finite.
LEMMA Finite ==
  ASSUME NEW n \in Nat, NEW S \in SUBSET (1..n)
  PROVE  IsFiniteSet(S) /\ Cardinality(S) \in 0..n /\ Cardinality(S) \in Nat
  <1>1. IsFiniteSet(1..n) /\ Cardinality(1..n) = n
    BY FS_Interval
  <1>2. IsFiniteSet(S) /\ Cardinality(S) <= n
    BY <1>1, FS_Subset
  <1> QED BY <1>2, FS_CardinalityType

\* The rank of a member is one of 1..Cardinality(S), and larger members have larger ranks.
LEMMA RankIs ==
  ASSUME NEW n \in Nat, NEW S \in SUBSET (1..n)
  PROVE  /\ \A i \in S : Rank(S, i) \in 1..Cardinality(S)
         /\ \A i \in Int : Rank(S, i) \in 0..Cardinality(S)
         /\ \A i, j \in S : i < j => Rank(S, i) < Rank(S, j)
         /\ \A i, j \in Int : i <= j => Rank(S, i) <= Rank(S, j)
  <1> DEFINE U(i) == {j \in S : j <= i}
  <1>1. IsFiniteSet(S) /\ Cardinality(S) \in Nat
    BY Finite
  <1>6. S \in SUBSET Int
    OBVIOUS
  <1>2. ASSUME NEW i \in Int
        PROVE  IsFiniteSet(U(i)) /\ Cardinality(U(i)) \in 0..Cardinality(S)
    <2>1. U(i) \in SUBSET S
      OBVIOUS
    <2>2. IsFiniteSet(U(i)) /\ Cardinality(U(i)) <= Cardinality(S)
      BY <1>1, <2>1, FS_Subset
    <2> QED BY <1>1, <2>2, FS_CardinalityType
  <1>3. ASSUME NEW i \in S
        PROVE  Cardinality(U(i)) # 0
    <2>1. i \in U(i) /\ i \in Int
      OBVIOUS
    <2> QED BY <1>2, <2>1, FS_EmptySet
  <1>4. ASSUME NEW i \in Int, NEW j \in Int, i <= j
        PROVE  Cardinality(U(i)) <= Cardinality(U(j))
    <2>1. \A x \in S : x <= i => x <= j
      BY <1>4, <1>6
    <2>2. U(i) \in SUBSET U(j)
      BY <2>1
    <2> QED BY <1>2, <2>2, FS_Subset
  <1>5. ASSUME NEW i \in S, NEW j \in S, i < j
        PROVE  Cardinality(U(i)) < Cardinality(U(j))
    <2>1. U(i) \in SUBSET U(j) /\ U(i) # U(j) /\ i \in Int /\ j \in Int
      <3>1. j \in U(j) /\ j \notin U(i) /\ i \in Int /\ j \in Int
        BY <1>5
      <3>2. \A x \in S : x <= i => x <= j
        BY <1>5, <1>6
      <3>3. U(i) \in SUBSET U(j)
        BY <3>2
      <3> QED BY <3>1, <3>3
    <2>2. Cardinality(U(i)) <= Cardinality(U(j)) /\ Cardinality(U(i)) # Cardinality(U(j))
      BY <1>2, <2>1, FS_Subset
    <2> QED BY <1>2, <2>1, <2>2
  <1>7. \A i \in Int : Cardinality(U(i)) \in 0..Cardinality(S)
    BY <1>2
  <1>8. \A i \in S : Cardinality(U(i)) # 0
    BY <1>3
  <1>9. \A i, j \in S : i < j => Cardinality(U(i)) < Cardinality(U(j))
    BY <1>5
  <1>10. \A i, j \in Int : i <= j => Cardinality(U(i)) <= Cardinality(U(j))
    BY <1>4
  <1>11. \A i : Rank(S, i) = Cardinality(U(i))
    BY DEF Rank
  <1> HIDE DEF U
  <1>12. \A i \in S : Rank(S, i) \in 1..Cardinality(S)
    BY <1>1, <1>6, <1>7, <1>8, <1>11
  <1>13. \A i \in Int : Rank(S, i) \in 0..Cardinality(S)
    BY <1>7, <1>11
  <1>14. \A i, j \in S : i < j => Rank(S, i) < Rank(S, j)
    BY <1>9, <1>11
  <1>15. \A i, j \in Int : i <= j => Rank(S, i) <= Rank(S, j)
    BY <1>10, <1>11
  <1> QED BY <1>12, <1>13, <1>14, <1>15

\* A new largest member leaves the other ranks and takes the last.
LEMMA RankOfLast ==
  ASSUME NEW n \in Nat, NEW S \in SUBSET (1..n), NEW m \in Nat, n < m
  PROVE  /\ Cardinality(S \cup {m}) = Cardinality(S) + 1
         /\ Rank(S \cup {m}, m) = Cardinality(S) + 1
         /\ \A i \in 1..n : Rank(S \cup {m}, i) = Rank(S, i)
  <1>1. Cardinality(S \cup {m}) = Cardinality(S) + 1
    <2>1. m \notin S
      OBVIOUS
    <2> QED BY <2>1, Finite, FS_AddElement
  <1>2. {j \in S \cup {m} : j <= m} = S \cup {m}
    <2>1. \A j \in S \cup {m} : j <= m
      OBVIOUS
    <2> QED BY <2>1
  <1>3. ASSUME NEW i \in 1..n PROVE {j \in S \cup {m} : j <= i} = {j \in S : j <= i}
    OBVIOUS
  <1> QED BY <1>1, <1>2, <1>3 DEF Rank

\* There is a member of every rank.
LEMMA NthIs ==
  ASSUME NEW n \in Nat, NEW S \in SUBSET (1..n), NEW k \in 1..Cardinality(S)
  PROVE  Nth(S, k) \in S /\ Rank(S, Nth(S, k)) = k
  <1> DEFINE P(m) == \A T \in SUBSET (1..m) : \A l \in 1..Cardinality(T) :
                       \E i \in T : Rank(T, i) = l
             I == {m \in Nat : P(m)}
  <1>1. 0 \in I
    <2>1. ASSUME NEW T \in SUBSET (1..0) PROVE Cardinality(T) = 0
      <3>1. T = {}
        OBVIOUS
      <3> QED BY <3>1, FS_EmptySet
    <2> QED BY <2>1
  <1>2. ASSUME NEW m \in I PROVE m + 1 \in I
    <2>1. m \in Nat
      OBVIOUS
    <2>2. P(m)
      OBVIOUS
    <2>3. ASSUME NEW T \in SUBSET (1..(m + 1)), NEW l \in 1..Cardinality(T)
          PROVE  \E i \in T : Rank(T, i) = l
      <3>1. CASE m + 1 \notin T
        <4>1. T \in SUBSET (1..m)
          BY <2>1, <3>1
        <4> QED BY <2>2, <4>1
      <3>2. CASE m + 1 \in T
        <4> DEFINE V == T \ {m + 1}
        <4>1. V \in SUBSET (1..m) /\ T = V \cup {m + 1}
          BY <2>1, <3>2
        <4>0. m + 1 \in Nat /\ m < m + 1
          BY <2>1
        <4> HIDE DEF V
        <4>2. /\ Cardinality(T) = Cardinality(V) + 1
              /\ Rank(T, m + 1) = Cardinality(V) + 1
              /\ \A i \in 1..m : Rank(T, i) = Rank(V, i)
          <5>1. /\ Cardinality(V \cup {m + 1}) = Cardinality(V) + 1
                /\ Rank(V \cup {m + 1}, m + 1) = Cardinality(V) + 1
                /\ \A i \in 1..m : Rank(V \cup {m + 1}, i) = Rank(V, i)
            BY <2>1, <4>0, <4>1, RankOfLast, ZenonT(30)
          <5> QED BY <4>1, <5>1
        <4>3. Cardinality(V) \in Nat
          BY <2>1, <4>1, Finite
        <4>4. CASE l = Cardinality(T)
          BY <3>2, <4>2, <4>4
        <4>5. CASE l # Cardinality(T)
          <5>1. l \in 1..Cardinality(V)
            BY <4>2, <4>3, <4>5
          <5>2. PICK i \in V : Rank(V, i) = l
            BY <2>2, <4>1, <5>1
          <5> QED BY <4>1, <4>2, <5>2
        <4> QED BY <4>4, <4>5
      <3> QED BY <3>1, <3>2
    <2> QED BY <2>1, <2>3
  <1>3. I \in SUBSET Nat
    OBVIOUS
  <1> HIDE DEF I
  <1>4. I = Nat
    BY <1>1, <1>2, <1>3, SetInduction
  <1> USE DEF I
  <1>5. \E i \in S : Rank(S, i) = k
    BY <1>4
  <1> QED BY <1>5 DEF Nth

(***************************************************************************)
(* The lines with some operation                                           *)
(***************************************************************************)

Op == {" ", "-", "+", "gap"}
DiffLine == [op : Op, text : Seq(Mark)]

LEMMA WithOpIs ==
  ASSUME NEW s \in Seq(DiffLine), NEW ops
  PROVE  /\ WithOp(s, ops) \in SUBSET (1..Len(s))
         /\ \A k \in WithOp(s, ops) : k \in 1..Len(s) /\ s[k].op \in ops
         /\ \A k \in 1..Len(s) : s[k].op \in ops => k \in WithOp(s, ops)
  BY DEF WithOp

LEMMA WithOpAppend ==
  ASSUME NEW s \in Seq(DiffLine), NEW x \in DiffLine, NEW ops
  PROVE  WithOp(Append(s, x), ops) =
           IF x.op \in ops THEN WithOp(s, ops) \cup {Len(s) + 1} ELSE WithOp(s, ops)
  <1> DEFINE t == Append(s, x)
  <1>1. /\ Len(s) \in Nat /\ DOMAIN s = 1..Len(s)
        /\ DOMAIN t = 1..(Len(s) + 1)
        /\ \A k \in 1..Len(s) : t[k] = s[k]
        /\ t[Len(s) + 1] = x
    BY AppendProperties, LenProperties
  <1> DEFINE n == Len(s)
  <1>2. 1..(n + 1) = (1..n) \cup {n + 1} /\ n + 1 \notin 1..n
    BY <1>1
  <1> HIDE DEF t, n
  <1>3. WithOp(t, ops) = {k \in DOMAIN t : t[k].op \in ops} /\ WithOp(s, ops) = {k \in DOMAIN s : s[k].op \in ops}
    BY DEF WithOp
  <1>4. WithOp(t, ops) = IF x.op \in ops THEN WithOp(s, ops) \cup {n + 1} ELSE WithOp(s, ops)
    BY <1>1, <1>2, <1>3 DEF n
  <1> QED BY <1>4 DEF t, n

\* The first n lines of a text are those of s with one of ops.
SpellsTo(s, ops, text, n) ==
  /\ Cardinality(WithOp(s, ops)) = n
  /\ \A k \in WithOp(s, ops) : s[k].text = text[Rank(WithOp(s, ops), k)]

LEMMA SpellsToAppend ==
  ASSUME NEW s \in Seq(DiffLine), NEW x \in DiffLine, NEW ops, NEW text, NEW n \in Nat,
         SpellsTo(s, ops, text, n)
  PROVE  /\ x.op \notin ops => SpellsTo(Append(s, x), ops, text, n)
         /\ x.op \in ops /\ x.text = text[n + 1] => SpellsTo(Append(s, x), ops, text, n + 1)
  <1> DEFINE t == Append(s, x)
             W == WithOp(s, ops)
             V == WithOp(t, ops)
             N == Len(s)
  <1>1. N \in Nat /\ (\A k \in 1..N : t[k] = s[k]) /\ t[N + 1] = x
    BY AppendProperties, LenProperties
  <1>2. W \in SUBSET (1..N)
    BY WithOpIs
  <1>3. V = IF x.op \in ops THEN W \cup {N + 1} ELSE W
    BY WithOpAppend
  <1>4. Cardinality(W) = n /\ \A k \in W : s[k].text = text[Rank(W, k)]
    BY DEF SpellsTo
  <1>5. SUFFICES /\ x.op \notin ops => Cardinality(V) = n /\ \A k \in V : t[k].text = text[Rank(V, k)]
                 /\ x.op \in ops /\ x.text = text[n + 1]
                      => Cardinality(V) = n + 1 /\ \A k \in V : t[k].text = text[Rank(V, k)]
    BY DEF SpellsTo
  <1> HIDE DEF t, W, V, N
  <1>6. CASE x.op \notin ops
    BY <1>1, <1>2, <1>3, <1>4, <1>6
  <1>7. CASE x.op \in ops /\ x.text = text[n + 1]
    <2>1. N + 1 \in Nat /\ N < N + 1
      BY <1>1
    <2>2. /\ Cardinality(W \cup {N + 1}) = Cardinality(W) + 1
          /\ Rank(W \cup {N + 1}, N + 1) = Cardinality(W) + 1
          /\ \A i \in 1..N : Rank(W \cup {N + 1}, i) = Rank(W, i)
      BY <1>1, <1>2, <2>1, RankOfLast
    <2>3. V = W \cup {N + 1}
      BY <1>3, <1>7
    <2>4. Cardinality(V) = n + 1 /\ Rank(V, N + 1) = n + 1 /\ \A i \in 1..N : Rank(V, i) = Rank(W, i)
      BY <1>4, <2>2, <2>3
    <2>5. ASSUME NEW k \in V PROVE t[k].text = text[Rank(V, k)]
      <3>1. CASE k = N + 1
        BY <1>1, <1>7, <2>4, <3>1
      <3>2. CASE k # N + 1
        <4>1. k \in W /\ k \in 1..N
          BY <1>2, <2>3, <3>2
        <4> QED BY <1>1, <1>4, <2>4, <4>1
      <3> QED BY <3>1, <3>2
    <2> QED BY <1>7, <2>4, <2>5
  <1> QED BY <1>6, <1>7

(***************************************************************************)
(* Matchings                                                               *)
(***************************************************************************)

\* Those that use the lines from i and the lines from j only.
From(a, b, i, j) ==
  {f \in Matchings(a, b) : \A x \in DOMAIN a : f[x] # 0 => i <= x /\ j <= f[x]}

LEMMA SizeIs ==
  ASSUME NEW a \in Seq(Seq(Mark)), NEW b \in Seq(Seq(Mark)), NEW f \in Matchings(a, b)
  PROVE  /\ Size(f) \in Nat
         /\ (\A x \in 1..Len(a) : f[x] = 0) => Size(f) = 0
         /\ \A m \in 1..Len(a) : f[m] # 0 => Size([f EXCEPT ![m] = 0]) + 1 = Size(f)
  <1> DEFINE n == Len(a)
             U == {x \in DOMAIN f : f[x] # 0}
  <1>1. n \in Nat /\ DOMAIN a = 1..n
    BY LenProperties
  <1>2. DOMAIN f = 1..n
    BY <1>1 DEF Matchings
  <1> HIDE DEF n
  <1>3. IsFiniteSet(U) /\ Cardinality(U) \in Nat
    BY <1>1, <1>2, Finite
  <1>4. ASSUME \A x \in 1..n : f[x] = 0 PROVE Size(f) = 0
    <2>1. U = {}
      BY <1>2, <1>4
    <2> QED BY <2>1, FS_EmptySet DEF Size
  <1>5. ASSUME NEW m \in 1..n, f[m] # 0 PROVE Size([f EXCEPT ![m] = 0]) + 1 = Size(f)
    <2> DEFINE g == [f EXCEPT ![m] = 0]
    <2>1. {x \in DOMAIN g : g[x] # 0} = U \ {m}
      BY <1>2
    <2>2. m \in U
      BY <1>2, <1>5
    <2>3. Cardinality(U \ {m}) = Cardinality(U) - 1
      BY <1>3, <2>2, FS_RemoveElement
    <2>4. Size(g) = Cardinality(U) - 1
      BY <2>1, <2>3 DEF Size
    <2> QED BY <1>3, <2>4 DEF Size
  <1> QED BY <1>3, <1>4, <1>5 DEF Size, n

\* Behind the last line of a text nothing is left to match.
LEMMA NothingLeft ==
  ASSUME NEW a \in Seq(Seq(Mark)), NEW b \in Seq(Seq(Mark)), NEW i \in Int, NEW j \in Int,
         i > Len(a) \/ j > Len(b), NEW f \in From(a, b, i, j)
  PROVE  Size(f) = 0
  <1>1. f \in Matchings(a, b) /\ \A x \in DOMAIN a : f[x] # 0 => i <= x /\ j <= f[x]
    BY DEF From
  <1>2. Len(a) \in Nat /\ Len(b) \in Nat /\ DOMAIN a = 1..Len(a) /\ f \in [DOMAIN a -> 0..Len(b)]
    BY <1>1, LenProperties DEF Matchings
  <1>3. ASSUME NEW x \in 1..Len(a), f[x] # 0 PROVE FALSE
    <2>1. i <= x /\ j <= f[x]
      BY <1>1, <1>2, <1>3
    <2>2. f[x] \in 0..Len(b)
      BY <1>2
    <2> QED BY <1>2, <2>1, <2>2
  <1> QED BY <1>1, <1>3, SizeIs

\* Equal lines: what is lost when both are passed is one pair.
LEMMA PassBoth ==
  ASSUME NEW a \in Seq(Seq(Mark)), NEW b \in Seq(Seq(Mark)), NEW i \in 1..Len(a), NEW j \in 1..Len(b),
         NEW f \in From(a, b, i, j), Size(f) # 0
  PROVE  \E g \in From(a, b, i + 1, j + 1) : Size(f) = Size(g) + 1
  <1> DEFINE n == Len(a)
             U == {x \in 1..n : f[x] # 0}
  <1>1. /\ f \in Matchings(a, b)
        /\ \A x \in DOMAIN a : f[x] # 0 => i <= x /\ j <= f[x]
    BY DEF From
  <1>2. n \in Nat /\ Len(b) \in Nat /\ DOMAIN a = 1..n /\ f \in [1..n -> 0..Len(b)]
    BY <1>1, LenProperties DEF Matchings
  <1>3. U # {}
    BY <1>1, SizeIs
  <1>4. PICK m \in U : \A x \in U : m <= x
    <2>1. U \in SUBSET Nat
      OBVIOUS
    <2> QED BY <1>3, <2>1, Smallest
  <1> DEFINE g == [f EXCEPT ![m] = 0]
  <1>5. m \in 1..n /\ f[m] # 0 /\ i <= m /\ j <= f[m]
    BY <1>1, <1>2, <1>4
  <1>6. /\ g \in [1..n -> 0..Len(b)] /\ g[m] = 0
        /\ \A x \in 1..n : x # m => g[x] = f[x]
    BY <1>2, <1>5
  <1>7. /\ \A x \in 1..n : f[x] # 0 => a[x] = b[f[x]]
        /\ \A x, y \in 1..n : x < y /\ f[x] # 0 /\ f[y] # 0 => f[x] < f[y]
    BY <1>1, <1>2 DEF Matchings
  <1>8. \A x \in 1..n : f[x] # 0 => m <= x
    BY <1>4
  <1>9. Size(f) = Size(g) + 1
    BY <1>1, <1>5, SizeIs DEF n
  <1> HIDE DEF g, U, n
  <1>10. g \in Matchings(a, b)
    BY <1>2, <1>6, <1>7 DEF Matchings
  <1>11. ASSUME NEW x \in 1..n, g[x] # 0 PROVE i + 1 <= x /\ j + 1 <= g[x]
    <2>1. x # m /\ f[x] = g[x] /\ f[x] # 0
      BY <1>6, <1>11
    <2>2. m < x /\ f[m] < f[x]
      BY <1>5, <1>7, <1>8, <2>1
    <2>3. f[m] \in Int /\ f[x] \in Int /\ i \in Int /\ j \in Int /\ m \in Int /\ x \in Int
      BY <1>2, <1>5
    <2>4. i < x
      BY <1>5, <2>2, <2>3
    <2>5. j < g[x] /\ g[x] \in Int
      <3>1. j < f[x]
        BY <1>5, <2>2, <2>3
      <3> QED BY <2>1, <2>3, <3>1
    <2> QED BY <2>3, <2>4, <2>5
  <1>12. g \in From(a, b, i + 1, j + 1)
    BY <1>2, <1>10, <1>11 DEF From
  <1> QED BY <1>9, <1>12

\* Different lines: one of them is not matched to anything that is left.
LEMMA PassOne ==
  ASSUME NEW a \in Seq(Seq(Mark)), NEW b \in Seq(Seq(Mark)), NEW i \in 1..Len(a), NEW j \in 1..Len(b),
         a[i] # b[j], NEW f \in From(a, b, i, j)
  PROVE  f \in From(a, b, i + 1, j) \/ f \in From(a, b, i, j + 1)
  <1> DEFINE n == Len(a)
  <1>1. /\ f \in Matchings(a, b)
        /\ \A x \in DOMAIN a : f[x] # 0 => i <= x /\ j <= f[x]
    BY DEF From
  <1>2. n \in Nat /\ Len(b) \in Nat /\ DOMAIN a = 1..n /\ f \in [1..n -> 0..Len(b)]
    BY <1>1, LenProperties DEF Matchings
  <1>3. /\ \A x \in 1..n : f[x] # 0 => a[x] = b[f[x]]
        /\ \A x, y \in 1..n : x < y /\ f[x] # 0 /\ f[y] # 0 => f[x] < f[y]
    BY <1>1, <1>2 DEF Matchings
  <1> HIDE DEF n
  <1>4. CASE f[i] = 0
    <2>1. ASSUME NEW x \in 1..n, f[x] # 0 PROVE i + 1 <= x /\ j <= f[x]
      <3>1. i <= x /\ j <= f[x] /\ x # i
        BY <1>1, <1>2, <1>4, <2>1
      <3>2. i \in Int /\ x \in Int
        OBVIOUS
      <3> QED BY <3>1, <3>2
    <2> QED BY <1>1, <1>2, <2>1 DEF From
  <1>5. CASE f[i] # 0
    <2>1. i \in 1..n /\ f[i] \in Int /\ j \in Int /\ f[i] # j /\ j <= f[i]
      <3>1. i \in 1..n
        BY DEF n
      <3>2. j \in Int /\ f[i] \in Int
        BY <1>2, <3>1
      <3>3. a[i] = b[f[i]]
        BY <1>3, <1>5, <3>1
      <3>4. j <= f[i]
        BY <1>1, <1>2, <1>5, <3>1, Zenon
      <3> QED BY <3>1, <3>2, <3>3, <3>4
    <2>2. ASSUME NEW x \in 1..n, f[x] # 0 PROVE i <= x /\ j + 1 <= f[x]
      <3>0. f[x] \in 0..Len(b) /\ i <= x
        BY <1>1, <1>2, <2>2, Zenon
      <3>1. i <= x /\ f[x] \in Int
        BY <1>2, <3>0
      <3>2. CASE x = i
        BY <2>1, <3>1, <3>2
      <3>3. CASE x # i
        <4>1. f[i] < f[x]
          BY <1>3, <1>5, <2>1, <2>2, <3>1, <3>3
        <4> QED BY <2>1, <3>1, <4>1
      <3> QED BY <3>2, <3>3
    <2> QED BY <1>1, <1>2, <2>2 DEF From
  <1> QED BY <1>4, <1>5

(***************************************************************************)
(* The invariant of the diff's loops                                       *)
(***************************************************************************)

Rows == 1..(Len(oldLines) + 1)
Cols == 1..(Len(newLines) + 1)

DiffTypes ==
  /\ loop \in {"off", "table", "walk", "render", "done"}
  /\ oldLines \in Seq(Seq(Mark)) /\ newLines \in Seq(Seq(Mark))
  /\ lines \in Seq(DiffLine) /\ rendered \in Seq(DiffLine)
  /\ loop # "off" => lcs \in [Rows \X Cols -> Nat]
  /\ loop = "table" => row \in 0..Len(oldLines) /\ col \in 0..Len(newLines)
  /\ loop = "walk" => row \in Rows /\ col \in Cols
  /\ loop = "render" => row \in 1..(Len(lines) + 1)

\* What an entry is computed from.
Recurrence(i, j) ==
  IF i > Len(oldLines) \/ j > Len(newLines) THEN 0
  ELSE IF oldLines[i] = newLines[j] THEN lcs[<<i + 1, j + 1>>] + 1
  ELSE IF lcs[<<i + 1, j>>] >= lcs[<<i, j + 1>>] THEN lcs[<<i + 1, j>>] ELSE lcs[<<i, j + 1>>]

\* No matching of what is left has more pairs than an entry says.
EntryIsRight(i, j) ==
  /\ lcs[<<i, j>>] = Recurrence(i, j)
  /\ \A f \in From(oldLines, newLines, i, j) : Size(f) <= lcs[<<i, j>>]

Filled(i, j) == loop = "table" => i > row \/ (i = row /\ j > col) \/ j > Len(newLines)

TableIsRight == loop # "off" => \A i \in Rows, j \in Cols : Filled(i, j) => EntryIsRight(i, j)

\* The walk loses none of the pairs the table promises.
LinesAreWritten ==
  /\ \A k \in 1..Len(lines) : lines[k].op # "gap"
  /\ loop \in {"off", "table"} => lines = <<>>
  /\ loop = "walk" => /\ SpellsTo(lines, {" ", "-"}, oldLines, row - 1)
                      /\ SpellsTo(lines, {" ", "+"}, newLines, col - 1)
                      /\ Cardinality(WithOp(lines, {" "})) + lcs[<<row, col>>] = lcs[<<1, 1>>]
  /\ loop \in {"render", "done"} => /\ Spells(lines, {" ", "-"}, oldLines)
                                    /\ Spells(lines, {" ", "+"}, newLines)
                                    /\ Cardinality(WithOp(lines, {" "})) = lcs[<<1, 1>>]

Changes == {"-", "+"}

\* Members of the same rank of S and T stand for the same line of s and t.
Agree(s, S, t, T) ==
  /\ Cardinality(S) = Cardinality(T)
  /\ \A k \in S, l \in T : Rank(S, k) = Rank(T, l) => s[k] = t[l]

ChangesAreRendered ==
  /\ loop \in {"off", "table", "walk"} => rendered = <<>>
  /\ loop = "render" => Agree(rendered, WithOp(rendered, Changes),
                              lines, {k \in WithOp(lines, Changes) : k < row})
  /\ loop = "done" => SameLines(rendered, lines, Changes)

DiffInv == DiffTypes /\ TableIsRight /\ LinesAreWritten /\ ChangesAreRendered

LEMMA AgreeAppend ==
  ASSUME NEW n \in Nat, NEW S \in SUBSET (1..n), NEW m \in Nat, NEW T \in SUBSET (1..m), NEW p \in Nat, m < p,
         NEW s, NEW u, NEW t, \A k \in 1..n : u[k] = s[k], u[n + 1] = t[p],
         Agree(s, S, t, T)
  PROVE  Agree(u, S \cup {n + 1}, t, T \cup {p})
  <1> DEFINE q == n + 1
  <1>1. q \in Nat /\ n < q /\ q \notin S /\ p \notin T
    OBVIOUS
  <1>2. Cardinality(S) \in Nat /\ Cardinality(T) \in Nat
    BY Finite
  <1>3. /\ \A k \in S : Rank(S, k) \in 1..Cardinality(S)
        /\ \A l \in T : Rank(T, l) \in 1..Cardinality(T)
    BY RankIs
  <1>4. Cardinality(S) = Cardinality(T) /\ \A k \in S, l \in T : Rank(S, k) = Rank(T, l) => s[k] = t[l]
    BY DEF Agree
  <1>5. u[q] = t[p] /\ \A k \in S : u[k] = s[k]
    OBVIOUS
  <1> HIDE DEF q
  <1>6. /\ Cardinality(S \cup {q}) = Cardinality(S) + 1
        /\ Rank(S \cup {q}, q) = Cardinality(S) + 1
        /\ \A i \in S : Rank(S \cup {q}, i) = Rank(S, i)
    <2>1. /\ Cardinality(S \cup {q}) = Cardinality(S) + 1
          /\ Rank(S \cup {q}, q) = Cardinality(S) + 1
          /\ \A i \in 1..n : Rank(S \cup {q}, i) = Rank(S, i)
      BY <1>1, RankOfLast
    <2> QED BY <2>1, Zenon
  <1>7. /\ Cardinality(T \cup {p}) = Cardinality(T) + 1
        /\ Rank(T \cup {p}, p) = Cardinality(T) + 1
        /\ \A i \in T : Rank(T \cup {p}, i) = Rank(T, i)
    BY RankOfLast, ZenonT(30)
  <1>8. ASSUME NEW k \in S \cup {q}, NEW l \in T \cup {p}, Rank(S \cup {q}, k) = Rank(T \cup {p}, l)
        PROVE  u[k] = t[l]
    <2>1. CASE k \in S /\ l \in T
      BY <1>4, <1>5, <1>6, <1>7, <1>8, <2>1
    <2>2. CASE k \in S /\ l = p
      BY <1>2, <1>3, <1>4, <1>6, <1>7, <1>8, <2>2
    <2>3. CASE k = q /\ l \in T
      BY <1>2, <1>3, <1>4, <1>6, <1>7, <1>8, <2>3
    <2>4. CASE k = q /\ l = p
      BY <1>5, <2>4
    <2> QED BY <2>1, <2>2, <2>3, <2>4
  <1>9. Agree(u, S \cup {q}, t, T \cup {p})
    BY <1>4, <1>6, <1>7, <1>8 DEF Agree
  <1> QED BY <1>9 DEF q

\* The table begins right behind both texts.
LEMMA StartLinesInv ==
  ASSUME DiffInv, loop = "off", NEW old, NEW new,
         DiffLines(old) \in Seq(Seq(Mark)), DiffLines(new) \in Seq(Seq(Mark)),
         Len(DiffLines(old)) * Len(DiffLines(new)) <= MaxLineProduct, MaxLineProduct \in Nat,
         StartLines(old, new)
  PROVE  DiffInv' /\ loop' = "table"
  <1> DEFINE a == DiffLines(old)
             b == DiffLines(new)
             m == Len(a)
             n == Len(b)
  <1>1. m \in Nat /\ n \in Nat
    BY LenProperties
  <1>2. /\ oldLines' = a /\ newLines' = b /\ row' = m /\ col' = n
        /\ lines' = lines /\ rendered' = rendered
        /\ lcs' = [p \in (1..m + 1) \X (1..n + 1) |-> 0]
        /\ loop' = IF m * n > MaxLineProduct THEN "done" ELSE "table"
    BY DEF StartLines
  <1>3. loop' = "table"
    <2>1. m * n \in Nat /\ m * n <= MaxLineProduct
      BY <1>1
    <2> QED BY <1>2, <2>1
  <1>4. a \in Seq(Seq(Mark)) /\ b \in Seq(Seq(Mark))
    OBVIOUS
  <1>5. lines = <<>> /\ rendered = <<>> /\ lines \in Seq(DiffLine) /\ rendered \in Seq(DiffLine)
    BY DEF DiffInv, DiffTypes, LinesAreWritten, ChangesAreRendered
  <1> HIDE DEF a, b
  <1>6. DiffTypes'
    <2>1. lcs' \in [(1..(m + 1)) \X (1..(n + 1)) -> Nat]
      BY <1>2
    <2> QED BY <1>1, <1>2, <1>3, <1>4, <1>5, <2>1 DEF DiffTypes, Rows, Cols
  <1>7. TableIsRight'
    <2>1. SUFFICES ASSUME NEW i \in 1..(m + 1), NEW j \in 1..(n + 1), Filled(i, j)'
                   PROVE  EntryIsRight(i, j)'
      BY <1>2 DEF TableIsRight, Rows, Cols
    <2>2. i > m \/ j > n
      BY <1>1, <1>2, <1>3, <2>1 DEF Filled
    <2>3. lcs'[<<i, j>>] = 0
      BY <1>2
    <2>4. \A f \in From(a, b, i, j) : Size(f) = 0
      BY <1>4, <2>2, NothingLeft
    <2>5. Recurrence(i, j)' = 0
      BY <1>2, <2>2 DEF Recurrence
    <2> QED BY <1>2, <2>3, <2>4, <2>5 DEF EntryIsRight
  <1>8. LinesAreWritten'
    <2>1. lines' = <<>> /\ 1..Len(lines') = {}
      BY <1>2, <1>5
    <2> QED BY <1>3, <2>1 DEF LinesAreWritten
  <1>9. ChangesAreRendered'
    BY <1>2, <1>3, <1>5 DEF ChangesAreRendered
  <1> QED BY <1>3, <1>6, <1>7, <1>8, <1>9 DEF DiffInv

\* An entry is filled from entries that are.
LEMMA FillEntryInv ==
  ASSUME DiffInv, FillEntry
  PROVE  DiffInv'
  <1> DEFINE m == Len(oldLines)
             n == Len(newLines)
  <1>1. /\ loop = "table" /\ row \in 1..m /\ col \in 1..n
        /\ m \in Nat /\ n \in Nat
        /\ oldLines \in Seq(Seq(Mark)) /\ newLines \in Seq(Seq(Mark))
        /\ lcs \in [(1..(m + 1)) \X (1..(n + 1)) -> Nat]
    BY LenProperties DEF DiffInv, DiffTypes, FillEntry, Rows, Cols
  <1>2. /\ lcs' = [lcs EXCEPT ![<<row, col>>] = Entry]
        /\ col' = col - 1
        /\ UNCHANGED <<loop, oldLines, newLines, row, lines, rendered, skipping>>
    BY DEF FillEntry
  <1>3. /\ <<row + 1, col + 1>> \in (1..(m + 1)) \X (1..(n + 1))
        /\ <<row + 1, col>> \in (1..(m + 1)) \X (1..(n + 1))
        /\ <<row, col + 1>> \in (1..(m + 1)) \X (1..(n + 1))
        /\ <<row, col>> \in (1..(m + 1)) \X (1..(n + 1))
    <2>1. /\ row \in 1..(m + 1) /\ row + 1 \in 1..(m + 1)
          /\ col \in 1..(n + 1) /\ col + 1 \in 1..(n + 1)
      BY <1>1
    <2> QED BY <2>1
  <1>4. Entry \in Nat /\ Entry = Recurrence(row, col)
    <2>1. /\ lcs[<<row + 1, col + 1>>] \in Nat /\ lcs[<<row + 1, col>>] \in Nat
          /\ lcs[<<row, col + 1>>] \in Nat
      BY <1>1, <1>3
    <2>2. ~(row > m \/ col > n)
      BY <1>1
    <2>3. Entry = Recurrence(row, col)
      BY <2>2 DEF Entry, Recurrence, Same, OldFirst
    <2>4. Entry \in Nat
      <3>1. \/ Entry = lcs[<<row + 1, col + 1>>] + 1 \/ Entry = lcs[<<row + 1, col>>]
            \/ Entry = lcs[<<row, col + 1>>]
        BY DEF Entry
      <3> QED BY <2>1, <3>1
    <2> QED BY <2>3, <2>4
  <1>5. /\ lcs' \in [(1..(m + 1)) \X (1..(n + 1)) -> Nat]
        /\ lcs'[<<row, col>>] = Entry
        /\ \A i \in 1..(m + 1), j \in 1..(n + 1) : <<i, j>> # <<row, col>> => lcs'[<<i, j>>] = lcs[<<i, j>>]
    BY <1>1, <1>2, <1>3, <1>4
  <1>6. DiffTypes'
    BY <1>1, <1>2, <1>5 DEF DiffInv, DiffTypes, Rows, Cols
  <1>7. \A i \in 1..(m + 1), j \in 1..(n + 1) :
          (i > row \/ (i = row /\ j > col) \/ j > n) => EntryIsRight(i, j)
    BY <1>1 DEF DiffInv, TableIsRight, Filled, Rows, Cols
  <1>8. ASSUME NEW f \in From(oldLines, newLines, row, col) PROVE Size(f) <= Entry
    <2>1. /\ \A g \in From(oldLines, newLines, row + 1, col + 1) : Size(g) <= lcs[<<row + 1, col + 1>>]
          /\ \A g \in From(oldLines, newLines, row + 1, col) : Size(g) <= lcs[<<row + 1, col>>]
          /\ \A g \in From(oldLines, newLines, row, col + 1) : Size(g) <= lcs[<<row, col + 1>>]
      <3>0. /\ row + 1 \in 1..(m + 1) /\ row \in 1..(m + 1) /\ row + 1 > row
            /\ col + 1 \in 1..(n + 1) /\ col \in 1..(n + 1) /\ col + 1 > col
        BY <1>1
      <3>1. EntryIsRight(row + 1, col + 1) /\ EntryIsRight(row + 1, col) /\ EntryIsRight(row, col + 1)
        BY <1>7, <3>0
      <3> QED BY <3>1 DEF EntryIsRight
    <2>2. Size(f) \in Nat /\ \A g \in Matchings(oldLines, newLines) : Size(g) \in Nat
      <3>1. f \in Matchings(oldLines, newLines)
        BY DEF From
      <3> QED BY <1>1, <3>1, SizeIs
    <2>3. /\ lcs[<<row + 1, col + 1>>] \in Nat /\ lcs[<<row + 1, col>>] \in Nat
          /\ lcs[<<row, col + 1>>] \in Nat
      BY <1>1, <1>3
    <2>4. CASE Same
      <3>1. Entry = lcs[<<row + 1, col + 1>>] + 1
        BY <2>4 DEF Entry
      <3>2. CASE Size(f) = 0
        BY <2>3, <3>1, <3>2
      <3>3. CASE Size(f) # 0
        <4>1. PICK g \in From(oldLines, newLines, row + 1, col + 1) : Size(f) = Size(g) + 1
          BY <1>1, <3>3, PassBoth
        <4>2. Size(g) \in Nat /\ Size(g) <= lcs[<<row + 1, col + 1>>]
          BY <2>1, <2>2 DEF From
        <4> QED BY <2>3, <3>1, <4>1, <4>2
      <3> QED BY <3>2, <3>3
    <2>5. CASE ~Same
      <3>1. f \in From(oldLines, newLines, row + 1, col) \/ f \in From(oldLines, newLines, row, col + 1)
        BY <1>1, <2>5, PassOne DEF Same
      <3>2. Size(f) <= lcs[<<row + 1, col>>] \/ Size(f) <= lcs[<<row, col + 1>>]
        BY <2>1, <3>1
      <3>3. Entry = IF lcs[<<row + 1, col>>] >= lcs[<<row, col + 1>>]
                    THEN lcs[<<row + 1, col>>] ELSE lcs[<<row, col + 1>>]
        BY <2>5 DEF Entry, OldFirst
      <3> QED BY <2>2, <2>3, <3>2, <3>3
    <2> QED BY <2>4, <2>5
  <1>9. TableIsRight'
    <2>1. SUFFICES ASSUME NEW i \in 1..(m + 1), NEW j \in 1..(n + 1), Filled(i, j)'
                   PROVE  EntryIsRight(i, j)'
      BY <1>2 DEF TableIsRight, Rows, Cols
    <2>2. i > row \/ (i = row /\ j > col - 1) \/ j > n
      BY <1>1, <1>2, <2>1 DEF Filled
    <2>3. \A f : f \in From(oldLines, newLines, i, j)' <=> f \in From(oldLines, newLines, i, j)
      BY <1>2
    <2>4. Recurrence(i, j)' = Recurrence(i, j)
      <3>1. CASE i > m \/ j > n
        BY <1>2, <3>1 DEF Recurrence
      <3>2. CASE ~(i > m \/ j > n)
        <4>1. /\ i + 1 \in 1..(m + 1) /\ j + 1 \in 1..(n + 1)
              /\ <<i + 1, j + 1>> # <<row, col>> /\ <<i + 1, j>> # <<row, col>> /\ <<i, j + 1>> # <<row, col>>
          BY <1>1, <2>2, <3>2, SMTT(30)
        <4>2. /\ lcs'[<<i + 1, j + 1>>] = lcs[<<i + 1, j + 1>>]
              /\ lcs'[<<i + 1, j>>] = lcs[<<i + 1, j>>]
              /\ lcs'[<<i, j + 1>>] = lcs[<<i, j + 1>>]
          BY <1>5, <4>1
        <4> QED BY <1>2, <4>2 DEF Recurrence
      <3> QED BY <3>1, <3>2
    <2>5. CASE <<i, j>> = <<row, col>>
      BY <1>2, <1>4, <1>5, <1>8, <2>4, <2>5 DEF EntryIsRight
    <2>6. CASE <<i, j>> # <<row, col>>
      <3>1. i > row \/ (i = row /\ j > col) \/ j > n
        BY <1>1, <2>2, <2>6
      <3>2. EntryIsRight(i, j)
        BY <1>7, <3>1
      <3>3. lcs'[<<i, j>>] = lcs[<<i, j>>]
        BY <1>5, <2>6
      <3> QED BY <1>2, <2>4, <3>2, <3>3 DEF EntryIsRight
    <2> QED BY <2>5, <2>6
  <1>10. LinesAreWritten' /\ ChangesAreRendered'
    BY <1>1, <1>2 DEF DiffInv, LinesAreWritten, ChangesAreRendered
  <1> QED BY <1>6, <1>9, <1>10 DEF DiffInv

LEMMA NextRowInv ==
  ASSUME DiffInv, NextRow
  PROVE  DiffInv'
  <1>1. /\ loop = "table" /\ row \in 1..Len(oldLines) /\ col = 0
        /\ Len(oldLines) \in Nat /\ Len(newLines) \in Nat
    BY LenProperties DEF DiffInv, DiffTypes, NextRow
  <1>2. /\ row' = row - 1 /\ col' = Len(newLines)
        /\ UNCHANGED <<loop, oldLines, newLines, lcs, lines, rendered, skipping>>
    BY DEF NextRow
  <1>3. DiffTypes'
    BY <1>1, <1>2 DEF DiffInv, DiffTypes, Rows, Cols
  <1>4. TableIsRight'
    <2>1. SUFFICES ASSUME NEW i \in Rows, NEW j \in Cols, Filled(i, j)' PROVE EntryIsRight(i, j)'
      BY <1>2 DEF TableIsRight, Rows, Cols
    <2>2. Filled(i, j)
      BY <1>1, <1>2, <2>1 DEF Filled, Rows, Cols
    <2>3. EntryIsRight(i, j)
      BY <1>1, <2>2 DEF DiffInv, TableIsRight
    <2> QED BY <1>2, <2>3 DEF EntryIsRight, Recurrence
  <1>5. LinesAreWritten' /\ ChangesAreRendered'
    BY <1>1, <1>2 DEF DiffInv, LinesAreWritten, ChangesAreRendered
  <1> QED BY <1>3, <1>4, <1>5 DEF DiffInv

\* Nothing is written when the walk begins.
LEMMA StartWalkInv ==
  ASSUME DiffInv, StartWalk
  PROVE  DiffInv'
  <1>1. /\ loop = "table" /\ row = 0 /\ lines = <<>> /\ rendered = <<>>
        /\ Len(oldLines) \in Nat /\ Len(newLines) \in Nat
        /\ lcs \in [Rows \X Cols -> Nat]
    BY LenProperties DEF DiffInv, DiffTypes, StartWalk, LinesAreWritten, ChangesAreRendered
  <1>2. /\ row' = 1 /\ col' = 1 /\ loop' = "walk"
        /\ UNCHANGED <<oldLines, newLines, lcs, lines, rendered, skipping>>
    BY DEF StartWalk
  <1>3. 1 \in Rows /\ 1 \in Cols
    BY <1>1 DEF Rows, Cols
  <1>4. DiffTypes'
    BY <1>1, <1>2, <1>3 DEF DiffInv, DiffTypes, Rows, Cols
  <1>5. TableIsRight'
    <2>1. SUFFICES ASSUME NEW i \in Rows, NEW j \in Cols PROVE EntryIsRight(i, j)'
      BY <1>2 DEF TableIsRight, Rows, Cols
    <2>2. Filled(i, j)
      BY <1>1 DEF Filled, Rows
    <2>3. EntryIsRight(i, j)
      BY <1>1, <2>2 DEF DiffInv, TableIsRight
    <2> QED BY <1>2, <2>3 DEF EntryIsRight, Recurrence
  <1>6. ChangesAreRendered'
    BY <1>1, <1>2 DEF ChangesAreRendered
  <1>7. LinesAreWritten'
    <2>1. \A ops : WithOp(lines, ops) = {}
      BY <1>1 DEF WithOp
    <2>2. \A ops, text : SpellsTo(lines, ops, text, 0)
      BY <2>1, FS_EmptySet DEF SpellsTo
    <2>3. lcs[<<1, 1>>] \in Nat
      BY <1>1, <1>3
    <2>4. Cardinality(WithOp(lines, {" "})) + lcs[<<1, 1>>] = lcs[<<1, 1>>]
      <3> DEFINE y == lcs[<<1, 1>>]
      <3>1. Cardinality(WithOp(lines, {" "})) = 0
        BY <2>1, FS_EmptySet
      <3>2. y \in Nat
        BY <2>3
      <3> HIDE DEF y
      <3>3. 0 + y = y
        BY <3>2
      <3> QED BY <3>1, <3>3 DEF y
    <2>5. SpellsTo(lines, {" ", "-"}, oldLines, 1 - 1) /\ SpellsTo(lines, {" ", "+"}, newLines, 1 - 1)
      <3>1. 1 - 1 = 0
        OBVIOUS
      <3> QED BY <2>2, <3>1
    <2>6. (\A k \in 1..Len(lines) : lines[k].op # "gap")'
      BY <1>2 DEF DiffInv, LinesAreWritten
    <2> QED BY <1>2, <2>4, <2>5, <2>6 DEF LinesAreWritten
  <1> QED BY <1>4, <1>5, <1>6, <1>7 DEF DiffInv

\* Once it is full, the table stays as it is.
LEMMA TableStays ==
  ASSUME DiffInv, loop \in {"walk", "render"}, UNCHANGED <<oldLines, newLines, lcs>>
  PROVE  TableIsRight'
  <1>1. SUFFICES ASSUME NEW i \in Rows, NEW j \in Cols PROVE EntryIsRight(i, j)'
    BY DEF TableIsRight, Rows, Cols
  <1>2. Filled(i, j)
    BY DEF Filled
  <1>3. EntryIsRight(i, j)
    BY <1>2 DEF DiffInv, TableIsRight
  <1> QED BY <1>3 DEF EntryIsRight, Recurrence

\* Appending a line: the operation and the text decide what is spelled further.
LEMMA WalkAppend ==
  ASSUME DiffInv, loop = "walk", NEW x \in DiffLine, x.op # "gap"
  PROVE  /\ \A k \in 1..Len(Append(lines, x)) : Append(lines, x)[k].op # "gap"
         /\ Cardinality(WithOp(Append(lines, x), {" "}))
              = IF x.op = " " THEN Cardinality(WithOp(lines, {" "})) + 1 ELSE Cardinality(WithOp(lines, {" "}))
         /\ Cardinality(WithOp(lines, {" "})) \in Nat
  <1>1. lines \in Seq(DiffLine) /\ Len(lines) \in Nat /\ \A k \in 1..Len(lines) : lines[k].op # "gap"
    BY LenProperties DEF DiffInv, DiffTypes, LinesAreWritten
  <1>2. \A k \in 1..Len(Append(lines, x)) : Append(lines, x)[k].op # "gap"
    BY <1>1, AppendProperties
  <1> DEFINE W == WithOp(lines, {" "})
             N == Len(lines)
  <1>3. W \in SUBSET (1..N)
    BY <1>1, WithOpIs
  <1>4. WithOp(Append(lines, x), {" "}) = IF x.op \in {" "} THEN W \cup {N + 1} ELSE W
    BY <1>1, WithOpAppend
  <1>5. N \in Nat
    BY <1>1
  <1> HIDE DEF W, N
  <1>6. IsFiniteSet(W) /\ Cardinality(W) \in Nat
    BY <1>3, <1>5, Finite
  <1>7. N + 1 \notin W
    BY <1>3, <1>5
  <1>8. Cardinality(W \cup {N + 1}) = Cardinality(W) + 1
    BY <1>6, <1>7, FS_AddElement
  <1>9. Cardinality(WithOp(Append(lines, x), {" "})) = IF x.op = " " THEN Cardinality(W) + 1 ELSE Cardinality(W)
    BY <1>4, <1>8
  <1> QED BY <1>2, <1>6, <1>9 DEF W

LEMMA WalkTypes ==
  ASSUME DiffInv, loop = "walk"
  PROVE  /\ row \in Rows /\ col \in Cols /\ row >= 1 /\ col >= 1 /\ row \in Int /\ col \in Int
         /\ row <= Len(oldLines) => row \in 1..Len(oldLines) /\ row + 1 \in Rows
         /\ col <= Len(newLines) => col \in 1..Len(newLines) /\ col + 1 \in Cols
         /\ 1 \in Rows /\ 1 \in Cols
         /\ Len(oldLines) \in Nat /\ Len(newLines) \in Nat
         /\ oldLines \in Seq(Seq(Mark)) /\ newLines \in Seq(Seq(Mark)) /\ lines \in Seq(DiffLine)
         /\ lcs \in [Rows \X Cols -> Nat]
         /\ rendered = <<>>
  <1>1. /\ row \in Rows /\ col \in Cols
        /\ oldLines \in Seq(Seq(Mark)) /\ newLines \in Seq(Seq(Mark)) /\ lines \in Seq(DiffLine)
        /\ lcs \in [Rows \X Cols -> Nat]
    BY DEF DiffInv, DiffTypes
  <1>2. rendered = <<>>
    BY DEF DiffInv, ChangesAreRendered
  <1>3. Len(oldLines) \in Nat /\ Len(newLines) \in Nat
    BY <1>1, LenProperties
  <1>4. /\ row >= 1 /\ col >= 1 /\ row \in Int /\ col \in Int /\ 1 \in Rows /\ 1 \in Cols
        /\ row <= Len(oldLines) => row \in 1..Len(oldLines) /\ row + 1 \in Rows
        /\ col <= Len(newLines) => col \in 1..Len(newLines) /\ col + 1 \in Cols
    BY <1>1, <1>3 DEF Rows, Cols
  <1> QED BY <1>1, <1>2, <1>3, <1>4

\* One line of each text is kept, and the table had counted on it.
LEMMA KeepLineInv ==
  ASSUME DiffInv, KeepLine
  PROVE  DiffInv'
  <1> DEFINE x == Line(" ", oldLines[row])
  <1>1. /\ loop = "walk" /\ row \in 1..Len(oldLines) /\ col \in 1..Len(newLines)
        /\ oldLines[row] = newLines[col] /\ rendered = <<>>
        /\ Len(oldLines) \in Nat /\ Len(newLines) \in Nat
        /\ oldLines \in Seq(Seq(Mark)) /\ newLines \in Seq(Seq(Mark)) /\ lines \in Seq(DiffLine)
        /\ lcs \in [Rows \X Cols -> Nat]
    <2>1. KeepLine /\ loop = "walk" /\ row <= Len(oldLines) /\ col <= Len(newLines) /\ oldLines[row] = newLines[col]
      BY DEF KeepLine, InBoth, Same
    <2> QED BY <2>1, WalkTypes
  <1>2. /\ lines' = Append(lines, x) /\ row' = row + 1 /\ col' = col + 1
        /\ UNCHANGED <<loop, oldLines, newLines, lcs, rendered, skipping>>
    BY DEF KeepLine
  <1>3. x \in DiffLine /\ x.op = " " /\ x.text = oldLines[row] /\ x.text = newLines[col]
    <2>1. oldLines[row] \in Seq(Mark)
      BY <1>1, ElementOfSeq
    <2> QED BY <1>1, <2>1 DEF Line, DiffLine, Op
  <1>4. /\ row \in Rows /\ row + 1 \in Rows /\ col \in Cols /\ col + 1 \in Cols
        /\ 1 \in Rows /\ 1 \in Cols
    BY <1>1, WalkTypes
  <1> HIDE DEF x
  <1>5. DiffTypes'
    <2>1. Append(lines, x) \in Seq(DiffLine)
      BY <1>1, <1>3, AppendProperties
    <2> QED BY <1>1, <1>2, <1>4, <2>1 DEF DiffInv, DiffTypes, Rows, Cols
  <1>6. TableIsRight'
    BY <1>1, <1>2, TableStays
  <1>7. ChangesAreRendered'
    BY <1>1, <1>2 DEF ChangesAreRendered
  <1>8. LinesAreWritten'
    <2>1. SpellsTo(lines, {" ", "-"}, oldLines, row - 1) /\ SpellsTo(lines, {" ", "+"}, newLines, col - 1)
      BY <1>1 DEF DiffInv, LinesAreWritten
    <2>2. row - 1 \in Nat /\ col - 1 \in Nat /\ (row - 1) + 1 = row /\ (col - 1) + 1 = col
          /\ row' - 1 = row /\ col' - 1 = col
      BY <1>1, <1>2
    <2>3. SpellsTo(lines', {" ", "-"}, oldLines, row' - 1)
      BY <1>1, <1>2, <1>3, <2>1, <2>2, SpellsToAppend
    <2>4. SpellsTo(lines', {" ", "+"}, newLines, col' - 1)
      BY <1>1, <1>2, <1>3, <2>1, <2>2, SpellsToAppend
    <2>5. lcs[<<row, col>>] = lcs[<<row + 1, col + 1>>] + 1
      <3>1. EntryIsRight(row, col)
        BY <1>1, <1>4 DEF DiffInv, TableIsRight, Filled
      <3>2. ~(row > Len(oldLines) \/ col > Len(newLines))
        BY <1>1
      <3> QED BY <1>1, <3>1, <3>2 DEF EntryIsRight, Recurrence
    <2>6. lcs[<<row + 1, col + 1>>] \in Nat /\ lcs[<<1, 1>>] \in Nat
      BY <1>1, <1>4
    <2>7. /\ \A k \in 1..Len(lines') : lines'[k].op # "gap"
          /\ Cardinality(WithOp(lines', {" "})) = Cardinality(WithOp(lines, {" "})) + 1
          /\ Cardinality(WithOp(lines, {" "})) \in Nat
      BY <1>1, <1>2, <1>3, WalkAppend
    <2>8. Cardinality(WithOp(lines, {" "})) + lcs[<<row, col>>] = lcs[<<1, 1>>]
      BY <1>1 DEF DiffInv, LinesAreWritten
    <2>9. Cardinality(WithOp(lines', {" "})) + lcs[<<row + 1, col + 1>>] = lcs[<<1, 1>>]
      <3> DEFINE c == Cardinality(WithOp(lines, {" "}))
                 d == Cardinality(WithOp(lines', {" "}))
                 y == lcs[<<row + 1, col + 1>>]
      <3>1. d = c + 1 /\ c \in Nat /\ y \in Nat /\ c + (y + 1) = lcs[<<1, 1>>]
        BY <2>5, <2>6, <2>7, <2>8
      <3> HIDE DEF c, d, y
      <3>2. d + y = lcs[<<1, 1>>]
        BY <3>1
      <3> QED BY <3>2 DEF d, y
    <2> QED BY <1>1, <1>2, <2>3, <2>4, <2>7, <2>9 DEF LinesAreWritten
  <1> QED BY <1>5, <1>6, <1>7, <1>8 DEF DiffInv

\* A line of the old text is passed, and with it no pair.
LEMMA RemoveLineInv ==
  ASSUME DiffInv, RemoveLine
  PROVE  DiffInv'
  <1> DEFINE x == Line("-", oldLines[row])
  <1>0. loop = "walk" /\ row <= Len(oldLines) /\ (InBoth => ~Same /\ OldFirst)
    BY DEF RemoveLine
  <1>1. /\ row \in 1..Len(oldLines) /\ row \in Rows /\ row + 1 \in Rows /\ col \in Cols /\ col >= 1
        /\ col \in Int /\ row \in Int /\ 1 \in Rows /\ 1 \in Cols
        /\ col <= Len(newLines) => col \in 1..Len(newLines) /\ col + 1 \in Cols
        /\ Len(oldLines) \in Nat /\ Len(newLines) \in Nat
        /\ oldLines \in Seq(Seq(Mark)) /\ newLines \in Seq(Seq(Mark)) /\ lines \in Seq(DiffLine)
        /\ lcs \in [Rows \X Cols -> Nat] /\ rendered = <<>>
    BY <1>0, WalkTypes
  <1>2. /\ lines' = Append(lines, x) /\ row' = row + 1 /\ col' = col
        /\ UNCHANGED <<loop, oldLines, newLines, lcs, rendered, skipping>>
    BY DEF RemoveLine
  <1>3. x \in DiffLine /\ x.op = "-" /\ x.text = oldLines[row]
    <2>1. oldLines[row] \in Seq(Mark)
      BY <1>1, ElementOfSeq
    <2> QED BY <1>1, <2>1 DEF Line, DiffLine, Op
  <1> HIDE DEF x
  <1>5. DiffTypes'
    <2>1. Append(lines, x) \in Seq(DiffLine)
      BY <1>1, <1>3, AppendProperties
    <2> QED BY <1>0, <1>1, <1>2, <2>1 DEF DiffInv, DiffTypes, Rows, Cols
  <1>6. TableIsRight'
    BY <1>0, <1>2, TableStays
  <1>7. ChangesAreRendered'
    BY <1>0, <1>1, <1>2 DEF ChangesAreRendered
  <1>8. LinesAreWritten'
    <2>1. SpellsTo(lines, {" ", "-"}, oldLines, row - 1) /\ SpellsTo(lines, {" ", "+"}, newLines, col - 1)
      BY <1>0 DEF DiffInv, LinesAreWritten
    <2>2. row - 1 \in Nat /\ col - 1 \in Nat /\ (row - 1) + 1 = row /\ row' - 1 = row /\ col' - 1 = col - 1
      BY <1>1, <1>2
    <2>3. SpellsTo(lines', {" ", "-"}, oldLines, row' - 1)
      BY <1>1, <1>2, <1>3, <2>1, <2>2, SpellsToAppend
    <2>4. SpellsTo(lines', {" ", "+"}, newLines, col' - 1)
      <3>1. x.op \notin {" ", "+"}
        BY <1>3
      <3> QED BY <1>1, <1>2, <1>3, <2>1, <2>2, <3>1, SpellsToAppend
    <2>5. lcs[<<row, col>>] = lcs[<<row + 1, col>>]
      <3>1. EntryIsRight(row, col) /\ EntryIsRight(row + 1, col)
        BY <1>0, <1>1 DEF DiffInv, TableIsRight, Filled
      <3>2. CASE col > Len(newLines)
        BY <3>1, <3>2 DEF EntryIsRight, Recurrence
      <3>3. CASE col <= Len(newLines)
        <4>1. ~(row > Len(oldLines) \/ col > Len(newLines)) /\ ~Same /\ OldFirst
          BY <1>0, <1>1, <3>3 DEF InBoth
        <4> QED BY <3>1, <4>1 DEF EntryIsRight, Recurrence, Same, OldFirst
      <3> QED BY <1>1, <3>2, <3>3
    <2>7. /\ \A k \in 1..Len(lines') : lines'[k].op # "gap"
          /\ Cardinality(WithOp(lines', {" "})) = Cardinality(WithOp(lines, {" "}))
      BY <1>0, <1>2, <1>3, WalkAppend
    <2>8. Cardinality(WithOp(lines, {" "})) + lcs[<<row, col>>] = lcs[<<1, 1>>]
      BY <1>0 DEF DiffInv, LinesAreWritten
    <2>9. Cardinality(WithOp(lines', {" "})) + lcs[<<row + 1, col>>] = lcs[<<1, 1>>]
      BY <2>5, <2>7, <2>8
    <2> QED BY <1>0, <1>2, <2>3, <2>4, <2>7, <2>9 DEF LinesAreWritten
  <1> QED BY <1>5, <1>6, <1>7, <1>8 DEF DiffInv

\* ... or one of the new text.
LEMMA AddLineInv ==
  ASSUME DiffInv, AddLine
  PROVE  DiffInv'
  <1> DEFINE x == Line("+", newLines[col])
  <1>0. loop = "walk" /\ col <= Len(newLines) /\ (InBoth => ~Same /\ ~OldFirst)
    BY DEF AddLine
  <1>1. /\ col \in 1..Len(newLines) /\ col \in Cols /\ col + 1 \in Cols /\ row \in Rows /\ row >= 1
        /\ row \in Int /\ col \in Int /\ 1 \in Rows /\ 1 \in Cols
        /\ row <= Len(oldLines) => row \in 1..Len(oldLines) /\ row + 1 \in Rows
        /\ Len(oldLines) \in Nat /\ Len(newLines) \in Nat
        /\ oldLines \in Seq(Seq(Mark)) /\ newLines \in Seq(Seq(Mark)) /\ lines \in Seq(DiffLine)
        /\ lcs \in [Rows \X Cols -> Nat] /\ rendered = <<>>
    BY <1>0, WalkTypes
  <1>2. /\ lines' = Append(lines, x) /\ col' = col + 1 /\ row' = row
        /\ UNCHANGED <<loop, oldLines, newLines, lcs, rendered, skipping>>
    BY DEF AddLine
  <1>3. x \in DiffLine /\ x.op = "+" /\ x.text = newLines[col]
    <2>1. newLines[col] \in Seq(Mark)
      BY <1>1, ElementOfSeq
    <2> QED BY <1>1, <2>1 DEF Line, DiffLine, Op
  <1> HIDE DEF x
  <1>5. DiffTypes'
    <2>1. Append(lines, x) \in Seq(DiffLine)
      BY <1>1, <1>3, AppendProperties
    <2> QED BY <1>0, <1>1, <1>2, <2>1 DEF DiffInv, DiffTypes, Rows, Cols
  <1>6. TableIsRight'
    BY <1>0, <1>2, TableStays
  <1>7. ChangesAreRendered'
    BY <1>0, <1>1, <1>2 DEF ChangesAreRendered
  <1>8. LinesAreWritten'
    <2>1. SpellsTo(lines, {" ", "-"}, oldLines, row - 1) /\ SpellsTo(lines, {" ", "+"}, newLines, col - 1)
      BY <1>0 DEF DiffInv, LinesAreWritten
    <2>2. row - 1 \in Nat /\ col - 1 \in Nat /\ (col - 1) + 1 = col /\ col' - 1 = col /\ row' - 1 = row - 1
      BY <1>1, <1>2
    <2>3. SpellsTo(lines', {" ", "+"}, newLines, col' - 1)
      BY <1>1, <1>2, <1>3, <2>1, <2>2, SpellsToAppend
    <2>4. SpellsTo(lines', {" ", "-"}, oldLines, row' - 1)
      <3>1. x.op \notin {" ", "-"}
        BY <1>3
      <3> QED BY <1>1, <1>2, <1>3, <2>1, <2>2, <3>1, SpellsToAppend
    <2>5. lcs[<<row, col>>] = lcs[<<row, col + 1>>]
      <3>1. EntryIsRight(row, col) /\ EntryIsRight(row, col + 1)
        BY <1>0, <1>1 DEF DiffInv, TableIsRight, Filled
      <3>2. CASE row > Len(oldLines)
        BY <3>1, <3>2 DEF EntryIsRight, Recurrence
      <3>3. CASE row <= Len(oldLines)
        <4>1. ~(row > Len(oldLines) \/ col > Len(newLines)) /\ ~Same /\ ~OldFirst
          BY <1>0, <1>1, <3>3 DEF InBoth
        <4> QED BY <3>1, <4>1 DEF EntryIsRight, Recurrence, Same, OldFirst
      <3> QED BY <1>1, <3>2, <3>3
    <2>7. /\ \A k \in 1..Len(lines') : lines'[k].op # "gap"
          /\ Cardinality(WithOp(lines', {" "})) = Cardinality(WithOp(lines, {" "}))
      BY <1>0, <1>2, <1>3, WalkAppend
    <2>8. Cardinality(WithOp(lines, {" "})) + lcs[<<row, col>>] = lcs[<<1, 1>>]
      BY <1>0 DEF DiffInv, LinesAreWritten
    <2>9. Cardinality(WithOp(lines', {" "})) + lcs[<<row, col + 1>>] = lcs[<<1, 1>>]
      BY <2>5, <2>7, <2>8
    <2> QED BY <1>0, <1>2, <2>3, <2>4, <2>7, <2>9 DEF LinesAreWritten
  <1> QED BY <1>5, <1>6, <1>7, <1>8 DEF DiffInv

\* At the end of both texts the table promises nothing more.
LEMMA StartRenderInv ==
  ASSUME DiffInv, StartRender
  PROVE  DiffInv'
  <1>0. loop = "walk" /\ row > Len(oldLines) /\ col > Len(newLines)
    BY DEF StartRender
  <1>1. /\ row \in Rows /\ col \in Cols /\ row = Len(oldLines) + 1 /\ col = Len(newLines) + 1
        /\ Len(oldLines) \in Nat /\ Len(newLines) \in Nat /\ lines \in Seq(DiffLine) /\ Len(lines) \in Nat
        /\ rendered = <<>>
    BY <1>0, WalkTypes, LenProperties DEF Rows, Cols
  <1>2. /\ loop' = "render" /\ row' = 1
        /\ UNCHANGED <<oldLines, newLines, lcs, col, lines, rendered, skipping>>
    BY DEF StartRender
  <1>3. DiffTypes'
    BY <1>0, <1>1, <1>2 DEF DiffInv, DiffTypes, Rows, Cols
  <1>4. TableIsRight'
    BY <1>0, <1>2, TableStays
  <1>5. LinesAreWritten'
    <2>1. SpellsTo(lines, {" ", "-"}, oldLines, row - 1) /\ SpellsTo(lines, {" ", "+"}, newLines, col - 1)
      BY <1>0 DEF DiffInv, LinesAreWritten
    <2>2. row - 1 = Len(oldLines) /\ col - 1 = Len(newLines)
      BY <1>1
    <2>3. Spells(lines, {" ", "-"}, oldLines) /\ Spells(lines, {" ", "+"}, newLines)
      BY <2>1, <2>2 DEF Spells, SpellsTo
    <2>4. lcs[<<row, col>>] = 0
      <3>1. EntryIsRight(row, col)
        BY <1>0, <1>1 DEF DiffInv, TableIsRight, Filled
      <3> QED BY <1>0, <3>1 DEF EntryIsRight, Recurrence
    <2>5. Cardinality(WithOp(lines, {" "})) + lcs[<<row, col>>] = lcs[<<1, 1>>]
      BY <1>0 DEF DiffInv, LinesAreWritten
    <2>6. Cardinality(WithOp(lines, {" "})) \in Nat
      <3>1. WithOp(lines, {" "}) \in SUBSET (1..Len(lines))
        BY <1>1, WithOpIs
      <3> QED BY <1>1, <3>1, Finite
    <2>7. Cardinality(WithOp(lines, {" "})) = lcs[<<1, 1>>]
      <3> DEFINE c == Cardinality(WithOp(lines, {" "}))
      <3>1. c \in Nat /\ c + 0 = lcs[<<1, 1>>]
        BY <2>4, <2>5, <2>6, Zenon
      <3> HIDE DEF c
      <3>2. c = lcs[<<1, 1>>]
        BY <3>1
      <3> QED BY <3>2 DEF c
    <2>8. (\A k \in 1..Len(lines) : lines[k].op # "gap")'
      BY <1>2 DEF DiffInv, LinesAreWritten
    <2> QED BY <1>2, <2>3, <2>7, <2>8 DEF LinesAreWritten
  <1>6. ChangesAreRendered'
    <2>1. WithOp(rendered, Changes) = {}
      BY <1>1 DEF WithOp
    <2>2. {k \in WithOp(lines, Changes) : k < 1} = {}
      BY <1>1 DEF WithOp
    <2>3. Agree(rendered, WithOp(rendered, Changes), lines, {k \in WithOp(lines, Changes) : k < 1})
      BY <2>1, <2>2 DEF Agree
    <2> QED BY <1>2, <2>3 DEF ChangesAreRendered
  <1> QED BY <1>3, <1>4, <1>5, <1>6 DEF DiffInv

\* A change is visible whatever the context: the screen has the changes up to the line.
LEMMA RenderInv ==
  ASSUME DiffInv, Render, Context \in Nat
  PROVE  DiffInv'
  <1>0. loop = "render" /\ row <= Len(lines)
    BY DEF Render
  <1>1. /\ row \in 1..Len(lines) /\ Len(lines) \in Nat /\ row - 1 \in Nat
        /\ lines \in Seq(DiffLine) /\ rendered \in Seq(DiffLine)
        /\ Len(rendered) \in Nat /\ lines[row] \in DiffLine
    <2>1. lines \in Seq(DiffLine) /\ rendered \in Seq(DiffLine) /\ row \in 1..(Len(lines) + 1)
      BY <1>0 DEF DiffInv, DiffTypes
    <2>2. Len(lines) \in Nat /\ Len(rendered) \in Nat
      BY <2>1, LenProperties
    <2>3. row \in 1..Len(lines) /\ row - 1 \in Nat
      BY <1>0, <2>1, <2>2
    <2> QED BY <2>1, <2>2, <2>3, ElementOfSeq
  <1>2. /\ row' = row + 1
        /\ rendered' = IF Visible(row) THEN Append(rendered, lines[row])
                       ELSE IF skipping THEN rendered ELSE Append(rendered, Gap)
        /\ UNCHANGED <<loop, oldLines, newLines, lcs, lines>>
    BY DEF Render
  <1>3. Gap \in DiffLine /\ Gap.op = "gap"
    BY EmptySeq DEF Gap, Line, DiffLine, Op
  <1>4. rendered' \in Seq(DiffLine)
    <2>1. Append(rendered, lines[row]) \in Seq(DiffLine) /\ Append(rendered, Gap) \in Seq(DiffLine)
      BY <1>1, <1>3, AppendProperties
    <2> QED BY <1>1, <1>2, <2>1
  <1>5. DiffTypes'
    BY <1>0, <1>1, <1>2, <1>4 DEF DiffInv, DiffTypes, Rows, Cols
  <1>6. TableIsRight'
    BY <1>0, <1>2, TableStays
  <1>7. LinesAreWritten'
    BY <1>0, <1>2 DEF DiffInv, LinesAreWritten
  <1>8. ChangesAreRendered'
    <2> DEFINE W == WithOp(rendered, Changes)
               D(i) == {k \in WithOp(lines, Changes) : k < i}
    <2>1. Agree(rendered, W, lines, D(row))
      BY <1>0 DEF DiffInv, ChangesAreRendered
    <2>2. /\ W \in SUBSET (1..Len(rendered))
          /\ WithOp(lines, Changes) \in SUBSET (1..Len(lines))
          /\ row \in WithOp(lines, Changes) <=> lines[row].op \in Changes
      BY <1>1, WithOpIs
    <2>3. D(row) \in SUBSET (1..(row - 1))
      BY <1>1, <2>2
    <2>4. CASE lines[row].op \in Changes
      <3>1. Visible(row)
        <4>1. lines[row].op # " " /\ row - Context <= row /\ row <= row + Context
          <5>1. lines[row].op # " "
            BY <2>4 DEF Changes
          <5>2. row \in Int
            BY <1>1
          <5>3. row - Context <= row /\ row <= row + Context
            BY <5>2
          <5> QED BY <5>1, <5>3
        <4>2. row \in DOMAIN lines
          BY <1>1, LenProperties
        <4> QED BY <4>1, <4>2 DEF Visible
      <3>2. rendered' = Append(rendered, lines[row])
        BY <1>2, <3>1
      <3>3. WithOp(rendered', Changes) = W \cup {Len(rendered) + 1}
        BY <1>1, <2>4, <3>2, WithOpAppend
      <3>4. D(row + 1) = D(row) \cup {row}
        <4>1. \A k \in WithOp(lines, Changes) : k < row + 1 <=> k < row \/ k = row
          BY <1>1, <2>2
        <4> QED BY <2>2, <2>4, <4>1
      <3>5. (\A k \in 1..Len(rendered) : rendered'[k] = rendered[k]) /\ rendered'[Len(rendered) + 1] = lines[row]
        BY <1>1, <3>2, AppendProperties
      <3> DEFINE n == Len(rendered)
                 T == D(row)
      <3>6. n \in Nat /\ W \in SUBSET (1..n) /\ row - 1 \in Nat /\ T \in SUBSET (1..(row - 1)) /\ row \in Nat /\ row - 1 < row
        BY <1>1, <2>2, <2>3
      <3>7. (\A k \in 1..n : rendered'[k] = rendered[k]) /\ rendered'[n + 1] = lines[row] /\ Agree(rendered, W, lines, T)
        BY <2>1, <3>5
      <3> HIDE DEF n, T, W
      <3>8. Agree(rendered', W \cup {n + 1}, lines, T \cup {row})
        BY <3>6, <3>7, AgreeAppend
      <3>9. Agree(rendered', WithOp(rendered', Changes), lines, D(row + 1))
        BY <3>3, <3>4, <3>8 DEF n, T
      <3> QED BY <1>0, <1>2, <3>9 DEF ChangesAreRendered
    <2>5. CASE lines[row].op \notin Changes
      <3>1. WithOp(rendered', Changes) = W /\ \A k \in W : rendered'[k] = rendered[k]
        <4>1. ASSUME NEW x \in DiffLine, x.op \notin Changes
              PROVE  /\ WithOp(Append(rendered, x), Changes) = W
                     /\ \A k \in W : Append(rendered, x)[k] = rendered[k]
          BY <1>1, <2>2, <4>1, WithOpAppend, AppendProperties
        <4>2. Gap.op \notin Changes
          BY <1>3 DEF Changes
        <4> QED BY <1>1, <1>2, <1>3, <2>5, <4>1, <4>2
      <3>2. D(row + 1) = D(row)
        <4>1. \A k \in WithOp(lines, Changes) : k < row + 1 <=> k < row \/ k = row
          BY <1>1, <2>2
        <4> QED BY <2>2, <2>5, <4>1
      <3>3. Agree(rendered', WithOp(rendered', Changes), lines, D(row + 1))
        BY <2>1, <3>1, <3>2 DEF Agree
      <3> QED BY <1>0, <1>2, <3>3 DEF ChangesAreRendered
    <2> QED BY <2>4, <2>5
  <1> QED BY <1>5, <1>6, <1>7, <1>8 DEF DiffInv

LEMMA RenderedInv ==
  ASSUME DiffInv, Rendered
  PROVE  DiffInv'
  <1>0. loop = "render" /\ row > Len(lines) /\ lines \in Seq(DiffLine) /\ row \in 1..(Len(lines) + 1)
    BY DEF DiffInv, DiffTypes, Rendered
  <1>1. loop' = "done" /\ UNCHANGED <<oldLines, newLines, lcs, row, col, lines, rendered, skipping>>
    BY DEF Rendered
  <1>2. DiffTypes' /\ LinesAreWritten'
    BY <1>0, <1>1 DEF DiffInv, DiffTypes, LinesAreWritten, Rows, Cols
  <1>3. TableIsRight'
    BY <1>0, <1>1, TableStays
  <1>4. {k \in WithOp(lines, Changes) : k < row} = WithOp(lines, Changes)
    <2>1. \A k \in WithOp(lines, Changes) : k \in 1..Len(lines)
      BY <1>0, WithOpIs
    <2>2. Len(lines) \in Nat
      BY <1>0, LenProperties
    <2>3. \A k \in WithOp(lines, Changes) : k < row
      BY <1>0, <2>1, <2>2
    <2> QED BY <2>3
  <1>5. Agree(rendered, WithOp(rendered, Changes), lines, WithOp(lines, Changes))
    BY <1>0, <1>4 DEF DiffInv, ChangesAreRendered
  <1>6. SameLines(rendered, lines, Changes)
    BY <1>5 DEF Agree, SameLines
  <1>7. ChangesAreRendered'
    BY <1>1, <1>6 DEF ChangesAreRendered
  <1> QED BY <1>2, <1>3, <1>7 DEF DiffInv

LEMMA DiffStepInv ==
  ASSUME DiffInv, DiffStep, Context \in Nat
  PROVE  DiffInv'
  BY FillEntryInv, NextRowInv, StartWalkInv, KeepLineInv, RemoveLineInv, AddLineInv,
     StartRenderInv, RenderInv, RenderedInv DEF DiffStep

\* Two texts that differ have a change between them.
LEMMA ChangesAreSeen ==
  ASSUME DiffInv, loop = "done", oldLines # newLines
  PROVE  WithOp(lines, Changes) # {}
  <1>1. SUFFICES ASSUME WithOp(lines, Changes) = {} PROVE FALSE
    OBVIOUS
  <1> DEFINE n == Len(lines)
  <1>2. /\ oldLines \in Seq(Seq(Mark)) /\ newLines \in Seq(Seq(Mark)) /\ lines \in Seq(DiffLine)
        /\ n \in Nat
    BY LenProperties DEF DiffInv, DiffTypes
  <1>3. \A k \in 1..n : lines[k].op \in Op /\ lines[k].op # "gap" /\ lines[k].op \notin Changes
    <2>1. \A k \in 1..n : lines[k] \in DiffLine
      BY <1>2, ElementOfSeq
    <2>2. \A k \in 1..n : lines[k].op \in Op
      BY <2>1 DEF DiffLine
    <2>3. \A k \in 1..n : lines[k].op # "gap"
      BY DEF DiffInv, LinesAreWritten
    <2>4. \A k \in 1..n : lines[k].op \in Changes => k \in WithOp(lines, Changes)
      BY <1>2, WithOpIs
    <2> QED BY <1>1, <2>2, <2>3, <2>4
  <1>4. \A k \in 1..n : lines[k].op = " "
    BY <1>3 DEF Op, Changes
  <1>5. WithOp(lines, {" ", "-"}) = 1..n /\ WithOp(lines, {" ", "+"}) = 1..n
    <2>1. DOMAIN lines = 1..n
      BY <1>2, LenProperties
    <2> QED BY <1>4, <2>1 DEF WithOp
  <1>6. Cardinality(1..n) = n /\ \A k \in 1..n : Rank(1..n, k) = k
    <2>0. n \in Nat
      BY <1>2
    <2> HIDE DEF n
    <2>1. Cardinality(1..n) = n
      BY <2>0, FS_Interval
    <2>2. ASSUME NEW k \in 1..n PROVE Rank(1..n, k) = k
      <3>1. {j \in 1..n : j <= k} = 1..k
        BY <2>0
      <3>2. Cardinality(1..k) = k
        BY FS_Interval
      <3> QED BY <3>1, <3>2 DEF Rank
    <2> QED BY <2>1, <2>2
  <1>7. Spells(lines, {" ", "-"}, oldLines) /\ Spells(lines, {" ", "+"}, newLines)
    BY DEF DiffInv, LinesAreWritten
  <1>8. /\ Len(oldLines) = n /\ \A k \in 1..n : lines[k].text = oldLines[k]
        /\ Len(newLines) = n /\ \A k \in 1..n : lines[k].text = newLines[k]
    <2> HIDE DEF n
    <2> QED BY <1>5, <1>6, <1>7 DEF Spells
  <1>9. Len(oldLines) = Len(newLines) /\ \A k \in 1..Len(oldLines) : oldLines[k] = newLines[k]
    BY <1>8
  <1> QED BY <1>2, <1>9, SeqEqual

(***************************************************************************)
(* Texts and their lines                                                   *)
(***************************************************************************)

LEMMA MinIs ==
  ASSUME NEW S \in SUBSET Nat, S # {}
  PROVE  Min(S) \in S /\ \A x \in S : Min(S) <= x
  <1>1. \E x \in S : \A y \in S : x =< y
    BY Smallest
  <1> QED BY <1>1 DEF Min

LEMMA InOrderIs ==
  ASSUME NEW n \in Nat, NEW S \in SUBSET (1..n)
  PROVE  InOrder(S) \in [1..Cardinality(S) -> S] /\ Cardinality(S) \in Nat
  BY NthIs, Finite DEF InOrder

\* A line ends before its newline, or where the text ends.
LEMMA LineEndIs ==
  ASSUME NEW t \in Seq(Mark), NEW i \in 1..(Len(t) + 1)
  PROVE  LineEnd(t, i) \in (i - 1)..Len(t) /\ Len(t) \in Nat
  <1> DEFINE n == Len(t)
             M == {j \in Newlines(t) : j >= i} \cup {n + 1}
  <1>1. n \in Nat
    BY LenProperties
  <1>2. Newlines(t) \in SUBSET (1..n)
    BY DEF Newlines
  <1>3. LineEnd(t, i) = Min(M) - 1
    BY DEF LineEnd
  <1>4. i \in Nat /\ i <= n + 1
    BY <1>1
  <1> HIDE DEF n
  <1>5. M \in SUBSET Nat /\ M # {} /\ \A j \in M : i <= j /\ j <= n + 1
    BY <1>1, <1>2, <1>4
  <1> HIDE DEF M
  <1>6. Min(M) \in M
    BY <1>5, MinIs
  <1>7. Min(M) \in Nat /\ i <= Min(M) /\ Min(M) <= n + 1
    BY <1>5, <1>6
  <1>8. Min(M) - 1 \in (i - 1)..n
    BY <1>1, <1>4, <1>7
  <1> QED BY <1>1, <1>3, <1>8 DEF n

\* A text with n newlines has n + 1 segments.
LEMMA SplitIs ==
  ASSUME NEW t \in Seq(Mark)
  PROVE  Split(t) \in Seq(Seq(Mark)) /\ Len(Split(t)) = Cardinality(Newlines(t)) + 1
  <1> DEFINE n == Len(t)
             N == Newlines(t)
             V == {i + 1 : i \in N}
             S == {1} \cup V
             c == Cardinality(N)
  <1>1. n \in Nat
    BY LenProperties
  <1>2. N \in SUBSET (1..n)
    BY DEF Newlines
  <1>3. S = {1} \cup {i + 1 : i \in Newlines(t)}
    OBVIOUS
  <1>4. \A i \in 1..(n + 1) : LineEnd(t, i) \in (i - 1)..n
    BY LineEndIs
  <1>5. \A m, l \in Int : (\A k \in m..l : t[k] \in Mark) => SubSeq(t, m, l) \in Seq(Mark)
    BY SubSeqProperties
  <1>6. \A k \in 1..n : t[k] \in Mark
    BY ElementOfSeq
  <1> HIDE DEF n, N
  <1>7. IsFiniteSet(N) /\ c \in Nat
    BY <1>1, <1>2, Finite
  <1>8. V \in SUBSET (2..(n + 1))
    BY <1>1, <1>2
  <1>9. IsFiniteSet(V) /\ Cardinality(V) = c
    <2> DEFINE f == [i \in N |-> i + 1]
    <2>1. f \in Bijection(N, V)
      <3>1. f \in [N -> V] /\ \A v \in V : \E i \in N : f[i] = v
        OBVIOUS
      <3>2. \A i, j \in N : f[i] = f[j] => i = j
        BY <1>1, <1>2
      <3> QED BY <3>1, <3>2 DEF Bijection, Injection, Surjection, IsInjective
    <2> QED BY <1>7, <2>1, FS_Bijection DEF ExistsBijection
  <1>10. 1 \notin V
    BY <1>8
  <1> HIDE DEF V, c
  <1>11. S = V \cup {1}
    OBVIOUS
  <1>12. S \in SUBSET (1..(n + 1)) /\ Cardinality(S) = c + 1
    <2>1. Cardinality(V \cup {1}) = c + 1
      BY <1>7, <1>9, <1>10, FS_AddElement
    <2>2. S \in SUBSET (1..(n + 1))
      BY <1>1, <1>8, <1>11
    <2> QED BY <1>11, <2>1, <2>2
  <1> HIDE DEF S
  <1> DEFINE a == InOrder(S)
  <1>13. a \in [1..(c + 1) -> S]
    <2>1. n + 1 \in Nat
      BY <1>1
    <2> QED BY <1>12, <2>1, InOrderIs
  <1>14. Split(t) = [k \in DOMAIN a |-> SubSeq(t, a[k], LineEnd(t, a[k]))]
    BY <1>3 DEF Split
  <1> HIDE DEF a
  <1>15. ASSUME NEW k \in 1..(c + 1) PROVE SubSeq(t, a[k], LineEnd(t, a[k])) \in Seq(Mark)
    <2>1. a[k] \in 1..(n + 1)
      BY <1>12, <1>13
    <2>2. LineEnd(t, a[k]) \in (a[k] - 1)..n
      BY <1>4, <2>1
    <2>3. a[k] \in Int /\ LineEnd(t, a[k]) \in Int
      BY <2>1, <2>2
    <2>4. \A i \in a[k]..LineEnd(t, a[k]) : i \in 1..n
      BY <1>1, <2>1, <2>2
    <2> QED BY <1>5, <1>6, <2>3, <2>4
  <1>16. Split(t) \in [1..(c + 1) -> Seq(Mark)]
    BY <1>13, <1>14, <1>15
  <1>17. c + 1 \in Nat
    BY <1>7 DEF c
  <1>18. Split(t) \in Seq(Seq(Mark)) /\ Len(Split(t)) = c + 1
    BY <1>16, <1>17
  <1> QED BY <1>18 DEF c, N

\* The lines of a diff are as many as prospectiveDiff counts beforehand.
LEMMA DiffLinesAre ==
  ASSUME NEW t \in Seq(Mark)
  PROVE  DiffLines(t) \in Seq(Seq(Mark)) /\ Len(DiffLines(t)) = DiffLineCount(t)
  <1>1. CASE t = <<>>
    <2>1. DiffLines(t) = <<>> /\ DiffLineCount(t) = 0
      BY <1>1 DEF DiffLines, DiffLineCount
    <2> QED BY <2>1, EmptySeq
  <1>2. CASE t # <<>>
    <2> DEFINE n == Len(t)
               u == IF Last(t) = "nl" THEN Front(t) ELSE t
    <2>1. n \in Nat /\ n >= 1 /\ \A k \in 1..n : t[k] \in Mark
      BY <1>2, EmptySeq, LenProperties, ElementOfSeq
    <2>2. u \in Seq(Mark) /\ Newlines(u) = Newlines(t) \ {n}
      <3>1. CASE Last(t) = "nl"
        <4>1. u = SubSeq(t, 1, n - 1)
          BY <3>1 DEF Front
        <4> HIDE DEF u
        <4>2. u \in Seq(Mark) /\ Len(u) = n - 1 /\ \A k \in 1..(n - 1) : u[k] = t[k]
          <5>1. n - 1 \in Int /\ \A k \in 1..(n - 1) : t[k] \in Mark
            BY <2>1
          <5>2. /\ SubSeq(t, 1, n - 1) \in Seq(Mark)
                /\ Len(SubSeq(t, 1, n - 1)) = IF 1 <= n - 1 THEN (n - 1) - 1 + 1 ELSE 0
                /\ \A k \in 1..((n - 1) - 1 + 1) : SubSeq(t, 1, n - 1)[k] = t[1 + k - 1]
            BY <5>1, SubSeqProperties
          <5> HIDE DEF n
          <5> QED BY <2>1, <4>1, <5>2
        <4>3. Newlines(u) = {k \in 1..(n - 1) : t[k] = "nl"}
          BY <4>2 DEF Newlines
        <4>4. Newlines(t) = {k \in 1..n : t[k] = "nl"}
          BY DEF Newlines
        <4> HIDE DEF n
        <4>5. Newlines(u) = Newlines(t) \ {n}
          BY <2>1, <4>3, <4>4
        <4> QED BY <4>2, <4>5
      <3>2. CASE Last(t) # "nl"
        <4>1. u = t /\ n \notin Newlines(t)
          BY <3>2 DEF Last, Newlines
        <4> QED BY <4>1
      <3> QED BY <3>1, <3>2
    <2>3. DiffLines(t) = Split(u)
      BY <1>2 DEF DiffLines
    <2>4. DiffLineCount(t) = Cardinality(Newlines(t) \ {n}) + 1
      BY <1>2 DEF DiffLineCount
    <2> HIDE DEF u, n
    <2> QED BY <2>2, <2>3, <2>4, SplitIs
  <1> QED BY <1>1, <1>2

(***************************************************************************)
(* What one edit returns                                                   *)
(***************************************************************************)

\* A function on 0..n by recursion, the step given as a function, ...
IsRecursion(g, D, d, F, n) ==
  g \in [0..n -> D] /\ g[0] = d /\ \A k \in 1..n : g[k] = F[<<k, g[k - 1]>>]

\* ... exists, ...
LEMMA Recursion ==
  ASSUME NEW D, NEW d \in D, NEW F \in [Nat \X D -> D], NEW n \in Nat
  PROVE  \E g : IsRecursion(g, D, d, F, n)
  <1> DEFINE P(m) == \E g \in [0..m -> D] : g[0] = d /\ \A k \in 1..m : g[k] = F[<<k, g[k - 1]>>]
             I == {m \in Nat : P(m)}
  <1>1. 0 \in I
    <2> DEFINE g == [k \in 0..0 |-> d]
    <2>1. g \in [0..0 -> D] /\ g[0] = d /\ \A k \in 1..0 : g[k] = F[<<k, g[k - 1]>>]
      OBVIOUS
    <2>2. P(0)
      BY <2>1
    <2> QED BY <2>2
  <1>2. ASSUME NEW m \in I PROVE m + 1 \in I
    <2>1. m \in Nat
      OBVIOUS
    <2>2. PICK g \in [0..m -> D] : g[0] = d /\ \A k \in 1..m : g[k] = F[<<k, g[k - 1]>>]
      OBVIOUS
    <2> DEFINE l == m + 1
               h == [k \in 0..l |-> IF k = l THEN F[<<l, g[m]>>] ELSE g[k]]
    <2>3. g[m] \in D /\ l \in Nat /\ l - 1 = m
      BY <2>1
    <2>4. F[<<l, g[m]>>] \in D
      BY <2>3
    <2>5. \A k \in 0..l : k # l => k \in 0..m
      BY <2>1
    <2>6. h \in [0..l -> D] /\ h[l] = F[<<l, g[m]>>] /\ \A k \in 0..m : h[k] = g[k]
      <3>1. l \in 0..l /\ \A k \in 0..m : k \in 0..l /\ k # l
        BY <2>1
      <3> QED BY <2>4, <2>5, <3>1
    <2> HIDE DEF h
    <2>7. h[0] = d
      BY <2>1, <2>2, <2>6
    <2>8. ASSUME NEW k \in 1..l PROVE h[k] = F[<<k, h[k - 1]>>]
      <3>1. CASE k = l
        <4>1. k - 1 = m /\ m \in 0..m
          BY <2>1, <2>3, <3>1
        <4> QED BY <2>6, <3>1, <4>1
      <3>2. CASE k # l
        <4>1. k \in 1..m /\ k \in 0..m /\ k - 1 \in 0..m
          BY <2>1, <3>2
        <4> QED BY <2>2, <2>6, <4>1
      <3> QED BY <3>1, <3>2
    <2> HIDE DEF l
    <2>9. P(l)
      BY <2>6, <2>7, <2>8
    <2> QED BY <2>3, <2>9 DEF l
  <1>3. I \in SUBSET Nat
    OBVIOUS
  <1> HIDE DEF I
  <1>4. I = Nat
    BY <1>1, <1>2, <1>3, SetInduction
  <1>5. n \in I
    BY <1>4
  <1> QED BY <1>5 DEF I, IsRecursion

\* ... and there is only one.
SameSteps(g, h, n) ==
  g[0] = h[0] /\ \A k \in 1..n : g[k - 1] = h[k - 1] => g[k] = h[k]

LEMMA SameFunction ==
  ASSUME NEW n \in Nat, NEW g, NEW h, SameSteps(g, h, n)
  PROVE  \A k \in 0..n : g[k] = h[k]
  <1> USE DEF SameSteps
  <1> DEFINE I == {k \in Nat : k <= n => g[k] = h[k]}
  <1>1. 0 \in I
    OBVIOUS
  <1>2. ASSUME NEW k \in I PROVE k + 1 \in I
    <2>1. SUFFICES ASSUME k + 1 <= n PROVE g[k + 1] = h[k + 1]
      OBVIOUS
    <2>2. k \in Nat /\ k <= n /\ k + 1 \in 1..n /\ (k + 1) - 1 = k
      BY <2>1
    <2>3. g[k] = h[k]
      BY <2>2
    <2> QED BY <2>2, <2>3
  <1>3. I \in SUBSET Nat
    OBVIOUS
  <1> HIDE DEF I
  <1>4. I = Nat
    BY <1>1, <1>2, <1>3, SetInduction
  <1>5. ASSUME NEW k \in 0..n PROVE g[k] = h[k]
    <2>1. k \in Nat /\ k <= n
      OBVIOUS
    <2> QED BY <1>4, <2>1 DEF I
  <1> QED BY <1>5

LEMMA SplicedIs ==
  ASSUME NEW text \in Seq(Mark), NEW new \in Seq(Mark), NEW i \in 1..(Len(text) + 1), NEW j \in Nat \ {0}
  PROVE  /\ Spliced(text, i, j, new) \in Seq(Mark)
         /\ Len(Spliced(text, i, j, new)) >= i - 1
         /\ Len(Spliced(text, i, j, new)) \in Nat
  <1> DEFINE n == Len(text)
             a == SubSeq(text, 1, i - 1)
             b == SubSeq(text, j, n)
  <1>1. n \in Nat /\ \A k \in 1..n : text[k] \in Mark
    BY LenProperties, ElementOfSeq
  <1>2. i \in 1..(n + 1)
    OBVIOUS
  <1>3. /\ \A m, l \in Int : (\A k \in m..l : text[k] \in Mark) => SubSeq(text, m, l) \in Seq(Mark)
        /\ \A l \in Nat : (\A k \in 1..l : text[k] \in Mark) =>
             Len(SubSeq(text, 1, l)) = IF 1 <= l THEN l - 1 + 1 ELSE 0
    BY SubSeqProperties
  <1>4. Spliced(text, i, j, new) = (a \o new) \o b
    BY DEF Spliced
  <1> HIDE DEF n
  <1>5. a \in Seq(Mark) /\ Len(a) = i - 1
    <2>1. i - 1 \in Nat /\ \A k \in 1..(i - 1) : text[k] \in Mark
      BY <1>1, <1>2
    <2>2. Len(a) = IF 1 <= i - 1 THEN (i - 1) - 1 + 1 ELSE 0
      BY <1>3, <2>1
    <2> QED BY <1>3, <2>1, <2>2
  <1>6. b \in Seq(Mark)
    <2>1. j \in Int /\ n \in Int /\ \A k \in j..n : text[k] \in Mark
      BY <1>1
    <2> QED BY <1>3, <2>1
  <1> HIDE DEF a, b
  <1>7. Len(a) \in Nat /\ Len(new) \in Nat /\ Len(b) \in Nat
    BY <1>5, <1>6, LenProperties
  <1>8. a \o new \in Seq(Mark) /\ Len(a \o new) = Len(a) + Len(new)
    BY <1>5, ConcatProperties
  <1>9. (a \o new) \o b \in Seq(Mark) /\ Len((a \o new) \o b) = Len(a \o new) + Len(b)
    BY <1>6, <1>8, ConcatProperties
  <1>10. Len((a \o new) \o b) = (i - 1) + Len(new) + Len(b)
    BY <1>5, <1>8, <1>9
  <1>11. i - 1 \in Nat
    BY <1>1, <1>2
  <1> QED BY <1>4, <1>7, <1>9, <1>10, <1>11

\* The occurrences are replaced from the last to the first, each before what was
\* replaced already.
LEMMA ReplacedIs ==
  ASSUME NEW text \in Seq(Mark), NEW old \in Seq(Mark), NEW new \in Seq(Mark),
         NEW S \in SUBSET (1..Len(text))
  PROVE  Replaced(text, old, new, S) \in Seq(Mark)
  <1> DEFINE m == Len(text)
             n == Cardinality(S)
             at(k) == Nth(S, n - k + 1)
             d == Len(old)
  <1>1. m \in Nat /\ d \in Nat
    BY LenProperties
  <1>2. S \in SUBSET (1..m)
    OBVIOUS
  <1> HIDE DEF m
  <1>3. n \in Nat
    BY <1>1, <1>2, Finite
  <1>4. ASSUME NEW k \in 1..n
        PROVE  /\ at(k) \in 1..m /\ at(k) + d \in Nat \ {0}
               /\ at(k) \in S /\ Rank(S, at(k)) = n - k + 1
    <2>1. n - k + 1 \in 1..n
      BY <1>3
    <2>2. at(k) \in S /\ Rank(S, at(k)) = n - k + 1
      BY <1>1, <1>2, <2>1, NthIs
    <2> HIDE DEF at
    <2>3. at(k) \in 1..m
      BY <1>2, <2>2
    <2> QED BY <1>1, <2>2, <2>3
  <1>5. ASSUME NEW k \in 1..n, k + 1 \in 1..n
        PROVE  at(k + 1) < at(k)
    <2>1. /\ at(k) \in S /\ Rank(S, at(k)) = n - k + 1 /\ at(k) \in 1..m
          /\ at(k + 1) \in S /\ Rank(S, at(k + 1)) = n - (k + 1) + 1 /\ at(k + 1) \in 1..m
      BY <1>4, <1>5
    <2>2. \A i, j \in Int : i <= j => Rank(S, i) <= Rank(S, j)
      BY <1>1, <1>2, RankIs
    <2> HIDE DEF at
    <2>3. at(k) <= at(k + 1) => Rank(S, at(k)) <= Rank(S, at(k + 1))
      BY <2>1, <2>2
    <2> QED BY <1>3, <2>1, <2>3
  <1> HIDE DEF n, at, d
  <1> DEFINE fits(k, t) == k \in 1..n /\ at(k) <= Len(t) + 1
             F == [p \in Nat \X Seq(Mark) |->
                     IF fits(p[1], p[2]) THEN Spliced(p[2], at(p[1]), at(p[1]) + d, new) ELSE p[2]]
  <1>6. ASSUME NEW k \in 1..n, NEW t \in Seq(Mark), at(k) <= Len(t) + 1
        PROVE  /\ Spliced(t, at(k), at(k) + d, new) \in Seq(Mark)
               /\ Len(Spliced(t, at(k), at(k) + d, new)) >= at(k) - 1
               /\ Len(Spliced(t, at(k), at(k) + d, new)) \in Nat
               /\ F[<<k, t>>] = Spliced(t, at(k), at(k) + d, new)
    <2>1. at(k) \in 1..(Len(t) + 1) /\ at(k) + d \in Nat \ {0}
      <3>1. Len(t) \in Nat /\ at(k) \in 1..m /\ at(k) + d \in Nat \ {0}
        BY <1>4, LenProperties
      <3> QED BY <1>6, <3>1
    <2>2. F[<<k, t>>] = Spliced(t, at(k), at(k) + d, new)
      <3>1. <<k, t>> \in Nat \X Seq(Mark) /\ <<k, t>>[1] = k /\ <<k, t>>[2] = t
        OBVIOUS
      <3> QED BY <1>6, <3>1
    <2> HIDE DEF F
    <2> QED BY <2>1, <2>2, SplicedIs
  <1>7. F \in [Nat \X Seq(Mark) -> Seq(Mark)]
    <2>1. ASSUME NEW p \in Nat \X Seq(Mark)
          PROVE  (IF fits(p[1], p[2]) THEN Spliced(p[2], at(p[1]), at(p[1]) + d, new) ELSE p[2]) \in Seq(Mark)
      <3>1. p[2] \in Seq(Mark)
        OBVIOUS
      <3>2. CASE fits(p[1], p[2])
        BY <1>6, <3>1, <3>2
      <3> QED BY <3>1, <3>2
    <2> QED BY <2>1
  <1> HIDE DEF F
  <1>8. PICK g \in [0..n -> Seq(Mark)] : g[0] = text /\ \A k \in 1..n : g[k] = F[<<k, g[k - 1]>>]
    <2>1. \E g : IsRecursion(g, Seq(Mark), text, F, n)
      BY <1>3, <1>7, Recursion
    <2> QED BY <2>1 DEF IsRecursion
  <1>9. ASSUME NEW k \in 1..n, at(k) <= Len(g[k - 1]) + 1
        PROVE  /\ g[k] = Spliced(g[k - 1], at(k), at(k) + d, new)
               /\ Len(g[k]) >= at(k) - 1 /\ Len(g[k]) \in Nat
    <2>1. g[k - 1] \in Seq(Mark)
      BY <1>3
    <2> QED BY <1>6, <1>8, <1>9, <2>1, ZenonT(30)
  <1>10. \A k \in 1..n : at(k) <= Len(g[k - 1]) + 1
    <2> DEFINE I == {k \in Nat : k + 1 \in 1..n => at(k + 1) <= Len(g[k]) + 1}
    <2>1. 0 \in I
      <3>1. SUFFICES ASSUME 0 + 1 \in 1..n PROVE at(0 + 1) <= Len(g[0]) + 1
        OBVIOUS
      <3>2. at(0 + 1) \in 1..m
        BY <1>4, <3>1
      <3> QED BY <1>1, <1>8, <3>2 DEF m
    <2>2. ASSUME NEW k \in I PROVE k + 1 \in I
      <3>1. k \in Nat /\ (k + 1 \in 1..n => at(k + 1) <= Len(g[k]) + 1)
        OBVIOUS
      <3>2. SUFFICES ASSUME (k + 1) + 1 \in 1..n PROVE at((k + 1) + 1) <= Len(g[k + 1]) + 1
        BY <3>1
      <3> DEFINE l == k + 1
      <3>3. l \in 1..n /\ l + 1 \in 1..n /\ l - 1 = k
        BY <1>3, <3>1, <3>2
      <3>4. at(l) <= Len(g[l - 1]) + 1
        BY <3>1, <3>3
      <3> HIDE DEF l
      <3>5. Len(g[l]) >= at(l) - 1 /\ Len(g[l]) \in Nat
        BY <1>9, <3>3, <3>4
      <3>6. at(l + 1) < at(l) /\ at(l) \in 1..m /\ at(l + 1) \in 1..m
        BY <1>4, <1>5, <3>3
      <3>7. at(l + 1) <= Len(g[l]) + 1
        BY <3>5, <3>6
      <3> QED BY <3>7 DEF l
    <2>3. I \in SUBSET Nat
      OBVIOUS
    <2> HIDE DEF I
    <2>4. I = Nat
      BY <2>1, <2>2, <2>3, SetInduction
    <2>5. ASSUME NEW k \in 1..n PROVE at(k) <= Len(g[k - 1]) + 1
      <3>1. k - 1 \in Nat /\ (k - 1) + 1 = k
        BY <1>3
      <3> QED BY <2>4, <3>1 DEF I
    <2> QED BY <2>5
  <1>11. \A k \in 1..n : g[k] = Spliced(g[k - 1], at(k), at(k) + d, new)
    BY <1>9, <1>10
  <1> DEFINE body(f) == [k \in 0..n |-> IF k = 0 THEN text ELSE Spliced(f[k - 1], at(k), at(k) + d, new)]
             h == ReplacedFrom(text, old, new, S)
  <1>12. g = body(g)
    <2>1. \A k \in 0..n : k = 0 \/ k \in 1..n
      BY <1>3
    <2> QED BY <1>8, <1>11, <2>1
  <1>13. h = CHOOSE f : f = body(f)
    BY DEF ReplacedFrom, at, n, d
  <1>14. h = body(h)
    BY <1>12, <1>13
  <1> HIDE DEF h
  <1>15. h[0] = text /\ \A k \in 1..n : h[k] = Spliced(h[k - 1], at(k), at(k) + d, new)
    <2>1. 0 \in 0..n /\ \A k \in 1..n : k \in 0..n /\ k # 0
      BY <1>3
    <2>2. \A k \in 0..n : body(h)[k] = IF k = 0 THEN text ELSE Spliced(h[k - 1], at(k), at(k) + d, new)
      OBVIOUS
    <2> HIDE DEF body
    <2>3. \A k \in 0..n : h[k] = IF k = 0 THEN text ELSE Spliced(h[k - 1], at(k), at(k) + d, new)
      BY <1>14, <2>2
    <2> QED BY <2>1, <2>3
  <1>16. \A k \in 0..n : h[k] = g[k]
    <2>1. \A k \in 1..n : h[k - 1] = g[k - 1] => h[k] = g[k]
      BY <1>11, <1>15
    <2>2. h[0] = g[0]
      BY <1>8, <1>15
    <2>3. SameSteps(h, g, n)
      BY <2>1, <2>2 DEF SameSteps
    <2> QED BY <1>3, <2>3, SameFunction
  <1>17. h[n] \in Seq(Mark)
    BY <1>3, <1>16
  <1> QED BY <1>17 DEF Replaced, h, n

LEMMA LocatedIs ==
  ASSUME NEW text \in Seq(Mark), NEW old \in Seq(Mark), old # <<>>, NEW strategy,
         NEW x \in Located(text, old, strategy)
  PROVE  x.start \in 1..(Len(text) + 1) /\ x.end \in Nat \ {0}
  <1> DEFINE trailing == Last(old) = "nl"
             u        == IF trailing THEN Front(old) ELSE old
             pattern  == [k \in DOMAIN Split(u) |-> Normalized(strategy, Split(u)[k])]
             at       == Offsets(text)
             line(k)  == SubSeq(text, at[k], LineEnd(text, at[k]))
             matches  == {k \in 1..(Len(at) - Len(pattern) + 1) :
                            \A j \in DOMAIN pattern : Normalized(strategy, line(k + j - 1)) = pattern[j]}
             after(k) == LineEnd(text, at[k + Len(pattern) - 1]) + 1
  <1>1. Located(text, old, strategy) =
          {[start |-> at[k],
            end   |-> IF trailing /\ after(k) <= Len(text) THEN after(k) + 1 ELSE after(k)] : k \in matches}
    BY DEF Located
  <1>2. PICK k \in matches :
          /\ x.start = at[k]
          /\ x.end = IF trailing /\ after(k) <= Len(text) THEN after(k) + 1 ELSE after(k)
    <2> HIDE DEF trailing, at, after, matches
    <2>1. PICK k \in matches :
            x = [start |-> at[k],
                 end   |-> IF trailing /\ after(k) <= Len(text) THEN after(k) + 1 ELSE after(k)]
      BY <1>1
    <2> QED BY <2>1
  <1>3. k \in 1..(Len(at) - Len(pattern) + 1)
    OBVIOUS
  <1>4. Len(pattern) \in Nat \ {0}
    <2>1. u \in Seq(Mark)
      <3>1. Len(old) \in Nat /\ \A i \in 1..Len(old) : old[i] \in Mark
        BY LenProperties, ElementOfSeq
      <3>2. Len(old) - 1 \in Int /\ \A i \in 1..(Len(old) - 1) : old[i] \in Mark
        BY <3>1
      <3>3. Front(old) \in Seq(Mark)
        BY <3>2, SubSeqProperties DEF Front
      <3> QED BY <3>3
    <2> HIDE DEF u
    <2>2. Split(u) \in Seq(Seq(Mark)) /\ Len(Split(u)) = Cardinality(Newlines(u)) + 1
      BY <2>1, SplitIs
    <2>3. Cardinality(Newlines(u)) \in Nat
      <3>1. Len(u) \in Nat /\ Newlines(u) \in SUBSET (1..Len(u))
        BY <2>1, LenProperties DEF Newlines
      <3> QED BY <3>1, Finite
    <2> DEFINE v == Split(u)
    <2>4. Len(v) \in Nat \ {0} /\ DOMAIN v = 1..Len(v)
      BY <2>2, <2>3, LenProperties
    <2> HIDE DEF v
    <2>5. pattern = [i \in 1..Len(v) |-> Normalized(strategy, v[i])]
      BY <2>4 DEF v
    <2>6. Len([i \in 1..Len(v) |-> Normalized(strategy, v[i])]) = Len(v)
      BY <2>4
    <2> QED BY <2>4, <2>5, <2>6
  <1>5. /\ Len(text) \in Nat /\ Len(at) \in Nat
        /\ \A i \in 1..Len(at) : at[i] \in 1..(Len(text) + 1)
    <2> DEFINE n == Len(text)
               S == ({1} \cup {i + 1 : i \in Newlines(text)}) \ {n + 1}
    <2>1. n \in Nat /\ Newlines(text) \in SUBSET (1..n)
      BY LenProperties DEF Newlines
    <2>2. at = InOrder(S)
      BY DEF Offsets
    <2> HIDE DEF n, at
    <2>3. S \in SUBSET (1..(n + 1)) /\ n + 1 \in Nat
      BY <2>1
    <2> HIDE DEF S
    <2>4. at \in [1..Cardinality(S) -> S] /\ Cardinality(S) \in Nat
      BY <2>2, <2>3, InOrderIs
    <2>5. Len(at) = Cardinality(S)
      BY <2>4
    <2>6. Len(at) \in Nat /\ \A i \in 1..Len(at) : at[i] \in 1..(n + 1)
      BY <2>3, <2>4, <2>5
    <2> QED BY <2>1, <2>6 DEF n, at
  <1> DEFINE p == Len(pattern)
             q == Len(at)
  <1>6. k \in 1..(q - p + 1) /\ p \in Nat \ {0} /\ q \in Nat
    BY <1>3, <1>4, <1>5
  <1>7. after(k) = LineEnd(text, at[k + p - 1]) + 1
    OBVIOUS
  <1> HIDE DEF p
  <1>8. k \in 1..q /\ k + p - 1 \in 1..q
    BY <1>6
  <1>9. at[k] \in 1..(Len(text) + 1) /\ at[k + p - 1] \in 1..(Len(text) + 1)
    BY <1>5, <1>8
  <1>10. LineEnd(text, at[k + p - 1]) \in (at[k + p - 1] - 1)..Len(text)
    BY <1>9, LineEndIs
  <1> HIDE DEF at, q, after
  <1>11. after(k) \in Nat \ {0}
    BY <1>5, <1>7, <1>9, <1>10, SMTT(30)
  <1> QED BY <1>2, <1>9, <1>11

LEMMA UnchangedIs ==
  ASSUME NEW t \in Seq(Mark)
  PROVE  Unchanged(t) \in Result /\ Failed \in Result /\ Unchanged(t).ok /\ ~Failed.ok
  BY EmptySeq DEF Unchanged, Failed, Result

\* An edit returns a text again, and what has failed stays failed.
LEMMA ApplyOneIs ==
  ASSUME NEW r \in Result, NEW e \in EditRecord
  PROVE  ApplyOne(r, e) \in Result /\ (~r.ok => ~ApplyOne(r, e).ok)
  <1> DEFINE found == Found(r.text, e.old)
             regions == Located(r.text, e.old, Decisive(r.text, e.old))
  <1>1. /\ r.ok \in BOOLEAN /\ r.text \in Seq(Mark) /\ r.count \in Nat /\ r.fuzzy \in Nat
        /\ e.old \in Seq(Mark) /\ e.new \in Seq(Mark)
    BY DEF Result, EditRecord
  <1>2. Failed \in Result /\ ~Failed.ok
    BY <1>1, UnchangedIs
  <1>3. found \in SUBSET (1..Len(r.text)) /\ Cardinality(found) \in Nat
    <2>1. found \in SUBSET (1..Len(r.text))
      BY DEF Found
    <2>2. Len(r.text) \in Nat
      BY <1>1, LenProperties
    <2> HIDE DEF found
    <2> QED BY <2>1, <2>2, Finite
  <1>4. ApplyOne(r, e) =
          IF ~r.ok \/ e.old = <<>> THEN Failed
          ELSE IF found = {} THEN Fuzzy(r, e)
          ELSE IF Cardinality(found) > 1 /\ ~e.all THEN Failed
          ELSE [ok |-> TRUE, text |-> Replaced(r.text, e.old, e.new, found),
                count |-> r.count + Cardinality(found), fuzzy |-> r.fuzzy]
    BY DEF ApplyOne
  <1>5. [ok |-> TRUE, text |-> Replaced(r.text, e.old, e.new, found),
         count |-> r.count + Cardinality(found), fuzzy |-> r.fuzzy] \in Result
    <2> DEFINE c == Cardinality(found)
               u == Replaced(r.text, e.old, e.new, found)
    <2>1. u \in Seq(Mark) /\ c \in Nat
      BY <1>1, <1>3, ReplacedIs
    <2> HIDE DEF u, c
    <2>2. r.count + c \in Nat
      BY <1>1, <2>1
    <2>3. [ok |-> TRUE, text |-> u, count |-> r.count + c, fuzzy |-> r.fuzzy] \in Result
      BY <1>1, <2>1, <2>2 DEF Result
    <2> QED BY <2>3 DEF u, c
  <1>6. ASSUME e.old # <<>> PROVE Fuzzy(r, e) \in Result
    <2>1. CASE Cardinality(regions) # 1
      BY <1>2, <2>1 DEF Fuzzy
    <2>2. CASE Cardinality(regions) = 1
      <3>1. regions # {}
        BY <2>2, FS_EmptySet
      <3> DEFINE x == CHOOSE y \in regions : TRUE
      <3>2. x \in regions
        BY <3>1
      <3>3. Fuzzy(r, e) = SplicedAt(r, e, x)
        BY <2>2 DEF Fuzzy
      <3> HIDE DEF x
      <3>4. x.start \in 1..(Len(r.text) + 1) /\ x.end \in Nat \ {0}
        BY <1>1, <1>6, <3>2, LocatedIs
      <3> DEFINE u == Spliced(r.text, x.start, x.end, e.new)
      <3>5. u \in Seq(Mark)
        BY <1>1, <3>4, SplicedIs
      <3>6. SplicedAt(r, e, x) = [ok |-> TRUE, text |-> u, count |-> r.count + 1, fuzzy |-> r.fuzzy + 1]
        BY DEF SplicedAt
      <3> HIDE DEF u
      <3> QED BY <1>1, <3>3, <3>5, <3>6 DEF Result
    <2> QED BY <2>1, <2>2
  <1> HIDE DEF found
  <1>7. ApplyOne(r, e) \in Result
    BY <1>2, <1>4, <1>5, <1>6
  <1>8. ~r.ok => ~ApplyOne(r, e).ok
    BY <1>2, <1>4
  <1> QED BY <1>7, <1>8

\* The Results of Apply's loop: they follow from each other, and a failure is final.
LEMMA AppliedIs ==
  ASSUME NEW content \in Seq(Mark), NEW patch \in Seq(EditRecord)
  PROVE  /\ Applied(content, patch)[0] = Unchanged(content)
         /\ \A k \in 1..Len(patch) :
              Applied(content, patch)[k] = ApplyOne(Applied(content, patch)[k - 1], patch[k])
         /\ \A k \in 0..Len(patch) : Applied(content, patch)[k] \in Result
         /\ \A k \in 0..Len(patch) : ~Applied(content, patch)[k].ok => ~Apply(content, patch).ok
  <1> DEFINE n == Len(patch)
             h == Applied(content, patch)
             body(f) == [k \in 0..n |-> IF k = 0 THEN Unchanged(content) ELSE ApplyOne(f[k - 1], patch[k])]
             F == [p \in Nat \X Result |-> IF p[1] \in 1..n THEN ApplyOne(p[2], patch[p[1]]) ELSE p[2]]
  <1>1. n \in Nat /\ \A k \in 1..n : patch[k] \in EditRecord
    BY LenProperties, ElementOfSeq
  <1>2. h = CHOOSE f : f = body(f)
    BY DEF Applied
  <1> HIDE DEF n, h
  <1>3. \A r \in Result, k \in 1..n : ApplyOne(r, patch[k]) \in Result /\ (~r.ok => ~ApplyOne(r, patch[k]).ok)
    BY <1>1, ApplyOneIs
  <1>4. \A r \in Result, k \in 1..n : F[<<k, r>>] = ApplyOne(r, patch[k])
    OBVIOUS
  <1>5. F \in [Nat \X Result -> Result]
    <2>1. ASSUME NEW p \in Nat \X Result
          PROVE  (IF p[1] \in 1..n THEN ApplyOne(p[2], patch[p[1]]) ELSE p[2]) \in Result
      <3>1. p[2] \in Result
        OBVIOUS
      <3> QED BY <1>3, <3>1
    <2> QED BY <2>1
  <1>6. Unchanged(content) \in Result
    BY UnchangedIs
  <1> HIDE DEF F
  <1>7. PICK g \in [0..n -> Result] : g[0] = Unchanged(content) /\ \A k \in 1..n : g[k] = F[<<k, g[k - 1]>>]
    <2>1. \E g : IsRecursion(g, Result, Unchanged(content), F, n)
      BY <1>1, <1>5, <1>6, Recursion
    <2> QED BY <2>1 DEF IsRecursion
  <1>8. \A k \in 1..n : g[k - 1] \in Result /\ g[k] = ApplyOne(g[k - 1], patch[k])
    <2>1. \A k \in 1..n : k - 1 \in 0..n
      BY <1>1
    <2>2. \A k \in 1..n : g[k - 1] \in Result
      BY <1>7, <2>1
    <2> QED BY <1>4, <1>7, <2>2
  <1>9. g = body(g)
    <2>1. \A k \in 0..n : k = 0 \/ k \in 1..n
      BY <1>1
    <2> QED BY <1>7, <1>8, <2>1
  <1>10. h = body(h)
    BY <1>2, <1>9
  <1>11. h[0] = Unchanged(content) /\ \A k \in 1..n : h[k] = ApplyOne(h[k - 1], patch[k])
    <2>1. 0 \in 0..n /\ \A k \in 1..n : k \in 0..n /\ k # 0
      BY <1>1
    <2>2. \A k \in 0..n : body(h)[k] = IF k = 0 THEN Unchanged(content) ELSE ApplyOne(h[k - 1], patch[k])
      OBVIOUS
    <2> HIDE DEF body
    <2>3. \A k \in 0..n : h[k] = IF k = 0 THEN Unchanged(content) ELSE ApplyOne(h[k - 1], patch[k])
      BY <1>10, <2>2
    <2> QED BY <2>1, <2>3
  <1>12. \A k \in 0..n : h[k] = g[k]
    <2>1. SameSteps(h, g, n)
      BY <1>7, <1>8, <1>11 DEF SameSteps
    <2> QED BY <1>1, <2>1, SameFunction
  <1>13. \A k \in 0..n : h[k] \in Result
    BY <1>7, <1>12
  <1>14. ASSUME NEW k \in 0..n, ~h[k].ok PROVE ~h[n].ok
    <2> DEFINE I == {j \in Nat : k + j <= n => ~h[k + j].ok}
    <2>0. k \in Nat /\ k <= n
      BY <1>1
    <2>1. 0 \in I
      <3>1. k + 0 = k
        BY <2>0
      <3> QED BY <1>14, <3>1
    <2>2. ASSUME NEW j \in I PROVE j + 1 \in I
      <3>1. j \in Nat /\ (k + j <= n => ~h[k + j].ok)
        OBVIOUS
      <3>2. SUFFICES ASSUME k + (j + 1) <= n PROVE ~h[k + (j + 1)].ok
        BY <3>1
      <3> DEFINE l == k + (j + 1)
      <3>3. l \in 1..n /\ l - 1 = k + j /\ k + j <= n /\ k + j \in 0..n
        BY <1>1, <2>0, <3>1, <3>2
      <3> HIDE DEF l
      <3>4. ~h[l - 1].ok /\ h[l - 1] \in Result
        BY <1>13, <3>1, <3>3
      <3>5. ~h[l].ok
        BY <1>3, <1>11, <3>3, <3>4
      <3> QED BY <3>5 DEF l
    <2>3. I \in SUBSET Nat
      OBVIOUS
    <2> HIDE DEF I
    <2>4. I = Nat
      BY <2>1, <2>2, <2>3, SetInduction
    <2>5. n - k \in Nat /\ k + (n - k) = n
      BY <1>1, <2>0
    <2>6. k + (n - k) <= n => ~h[k + (n - k)].ok
      BY <2>4, <2>5 DEF I
    <2>7. n <= n
      BY <1>1
    <2> QED BY <2>5, <2>6, <2>7
  <1> QED BY <1>11, <1>13, <1>14 DEF h, n, Apply

(***************************************************************************)
(* Ranks, one number further and one block further                         *)
(***************************************************************************)

LEMMA RankStep ==
  ASSUME NEW n \in Nat, NEW S \in SUBSET (1..n)
  PROVE  /\ Rank(S, 0) = 0
         /\ \A i \in Nat : Rank(S, i) \in Nat
         /\ \A i \in Nat : Rank(S, i + 1) = IF i + 1 \in S THEN Rank(S, i) + 1 ELSE Rank(S, i)
         /\ \A i \in Nat : n <= i => Rank(S, i) = Cardinality(S)
  <1> DEFINE U(i) == {j \in S : j <= i}
  <1>1. \A i : Rank(S, i) = Cardinality(U(i))
    BY DEF Rank
  <1>2. \A i \in Nat : IsFiniteSet(U(i)) /\ Cardinality(U(i)) \in Nat
    <2>1. \A i \in Nat : U(i) \in SUBSET (1..n)
      OBVIOUS
    <2> HIDE DEF U
    <2> QED BY <2>1, Finite
  <1>0. \A j \in S : j \in Nat /\ 1 <= j /\ j <= n
    OBVIOUS
  <1>3. U(0) = {}
    <2>1. \A j \in S : ~(j <= 0)
      BY <1>0
    <2> QED BY <2>1
  <1>4. Cardinality(U(0)) = 0
    BY <1>3, FS_EmptySet
  <1>5. ASSUME NEW i \in Nat
        PROVE  Cardinality(U(i + 1)) = IF i + 1 \in S THEN Cardinality(U(i)) + 1 ELSE Cardinality(U(i))
    <2>0. \A j \in S : j \in Nat /\ (j <= i + 1 <=> j <= i \/ j = i + 1)
      BY <1>5
    <2>1. U(i + 1) = IF i + 1 \in S THEN U(i) \cup {i + 1} ELSE U(i)
      BY <2>0
    <2>2. i + 1 \notin U(i)
      BY <1>5
    <2> HIDE DEF U
    <2> QED BY <1>2, <2>1, <2>2, FS_AddElement
  <1>6. ASSUME NEW i \in Nat, n <= i PROVE U(i) = S
    <2>1. \A j \in S : j <= i
      BY <1>0, <1>6
    <2> QED BY <2>1
  <1> HIDE DEF U
  <1>7. \A i \in Nat : Rank(S, i) \in Nat
    BY <1>1, <1>2
  <1>8. \A i \in Nat : Rank(S, i + 1) = IF i + 1 \in S THEN Rank(S, i) + 1 ELSE Rank(S, i)
    BY <1>1, <1>5
  <1> QED BY <1>1, <1>4, <1>6, <1>7, <1>8

\* A member is the one of its rank.
LEMMA NthOfRank ==
  ASSUME NEW n \in Nat, NEW S \in SUBSET (1..n), NEW i \in S
  PROVE  Nth(S, Rank(S, i)) = i
  <1> DEFINE k == Rank(S, i)
             j == Nth(S, k)
  <1>1. k \in 1..Cardinality(S)
    BY RankIs
  <1>2. j \in S /\ Rank(S, j) = k
    BY <1>1, NthIs
  <1>3. \A x, y \in S : x < y => Rank(S, x) < Rank(S, y)
    BY RankIs
  <1>0. \A x \in S : x \in Nat
    OBVIOUS
  <1>4. \A x \in S : Rank(S, x) \in Int
    <2>1. \A x \in Nat : Rank(S, x) \in Nat
      BY RankStep
    <2> QED BY <1>0, <2>1
  <1> HIDE DEF j
  <1>5. i \in Int /\ j \in Int
    BY <1>0, <1>2
  <1>6. ~(i < j) /\ ~(j < i)
    BY <1>2, <1>3, <1>4
  <1> QED BY <1>5, <1>6 DEF j

\* S and W agree on m numbers, behind d in S.
Agrees(S, d, W, m) == \A s \in 1..m : d + s \in S <=> s \in W
GoesOn(S, d, W, m) == \A s \in 0..m : Rank(S, d + s) = Rank(S, d) + Rank(W, s)

\* ... so the ranks behind d go on from the rank of d.
LEMMA RankShift ==
  ASSUME NEW n \in Nat, NEW S \in SUBSET (1..n), NEW l \in Nat, NEW W \in SUBSET (1..l),
         NEW d \in Nat, NEW m \in Nat, Agrees(S, d, W, m)
  PROVE  GoesOn(S, d, W, m)
  <1> DEFINE I == {s \in Nat : s <= m => Rank(S, d + s) = Rank(S, d) + Rank(W, s)}
  <1>1. /\ \A i \in Nat : Rank(S, i) \in Nat
        /\ \A i \in Nat : Rank(S, i + 1) = IF i + 1 \in S THEN Rank(S, i) + 1 ELSE Rank(S, i)
    BY RankStep, SMTT(30)
  <1>2. /\ Rank(W, 0) = 0
        /\ \A i \in Nat : Rank(W, i) \in Nat
        /\ \A i \in Nat : Rank(W, i + 1) = IF i + 1 \in W THEN Rank(W, i) + 1 ELSE Rank(W, i)
    BY RankStep, SMTT(30)
  <1>3. 0 \in I
    BY <1>1, <1>2
  <1>4. ASSUME NEW s \in I PROVE s + 1 \in I
    <2>1. s \in Nat
      OBVIOUS
    <2>2. SUFFICES ASSUME s + 1 <= m
                   PROVE  Rank(S, d + (s + 1)) = Rank(S, d) + Rank(W, s + 1)
      BY <2>1
    <2>3. Rank(S, d + s) = Rank(S, d) + Rank(W, s)
      BY <2>1, <2>2
    <2>4. d + (s + 1) \in S <=> s + 1 \in W
      <3>1. s + 1 \in 1..m
        BY <2>1, <2>2
      <3> QED BY <3>1 DEF Agrees
    <2>5. d + (s + 1) = (d + s) + 1 /\ d + s \in Nat
      BY <2>1
    <2>6. Rank(S, d) \in Nat /\ Rank(W, s) \in Nat
      BY <1>1, <1>2, <2>1
    <2>7. Rank(S, (d + s) + 1) = IF (d + s) + 1 \in S THEN Rank(S, d + s) + 1 ELSE Rank(S, d + s)
      BY <1>1, <2>5
    <2>8. Rank(W, s + 1) = IF s + 1 \in W THEN Rank(W, s) + 1 ELSE Rank(W, s)
      BY <1>2, <2>1
    <2> QED BY <2>3, <2>4, <2>5, <2>6, <2>7, <2>8
  <1>5. I \in SUBSET Nat
    OBVIOUS
  <1> HIDE DEF I
  <1>6. I = Nat
    BY <1>3, <1>4, <1>5, SetInduction
  <1>7. ASSUME NEW s \in 0..m PROVE Rank(S, d + s) = Rank(S, d) + Rank(W, s)
    <2>1. s \in Nat /\ s <= m
      OBVIOUS
    <2> QED BY <1>6, <2>1 DEF I
  <1> QED BY <1>7 DEF GoesOn

\* Without a member on the way the rank stays.
LEMMA RankStays ==
  ASSUME NEW n \in Nat, NEW S \in SUBSET (1..n), NEW d \in Nat, NEW m \in Nat,
         \A s \in 1..m : d + s \notin S
  PROVE  Rank(S, d + m) = Rank(S, d)
  <1> DEFINE W == {}
  <1>1. W \in SUBSET (1..n) /\ Agrees(S, d, W, m)
    BY DEF Agrees
  <1> HIDE DEF W
  <1>2. GoesOn(S, d, W, m)
    BY <1>1, RankShift
  <1> USE DEF W
  <1>3. \A i \in Nat : Rank({}, i) = 0
    <2>1. \A i \in Nat : {j \in {} : j <= i} = {}
      OBVIOUS
    <2> QED BY <2>1, FS_EmptySet DEF Rank
  <1>4. Rank(S, d) \in Nat
    BY RankStep
  <1>5. m \in 0..m
    OBVIOUS
  <1>6. Rank(S, d + m) = Rank(S, d) + 0
    BY <1>2, <1>3, <1>5 DEF GoesOn
  <1> QED BY <1>4, <1>6

(***************************************************************************)
(* Where lines start and end                                               *)
(***************************************************************************)

Starts(t) == {1} \cup {i + 1 : i \in Newlines(t)}

LEMMA StartsAre ==
  ASSUME NEW t \in Seq(Mark)
  PROVE  /\ Len(t) \in Nat /\ Len(t) + 1 \in Nat
         /\ Starts(t) \in SUBSET (1..(Len(t) + 1)) /\ 1 \in Starts(t)
         /\ \A i \in 1..Len(t) : i + 1 \in Starts(t) <=> t[i] = "nl"
         /\ Cardinality(Starts(t)) \in Nat \ {0}
  <1> DEFINE n == Len(t)
  <1>1. n \in Nat
    BY LenProperties
  <1>2. Newlines(t) = {i \in 1..n : t[i] = "nl"}
    BY DEF Newlines
  <1> HIDE DEF n
  <1>3. Starts(t) \in SUBSET (1..(n + 1)) /\ 1 \in Starts(t)
    BY <1>1, <1>2 DEF Starts
  <1>4. ASSUME NEW i \in 1..n PROVE i + 1 \in Starts(t) <=> t[i] = "nl"
    <2>1. i + 1 # 1
      OBVIOUS
    <2>2. \A j \in Newlines(t) : j + 1 = i + 1 <=> j = i
      BY <1>1, <1>2
    <2> QED BY <1>2, <2>1, <2>2 DEF Starts
  <1>5. n + 1 \in Nat
    BY <1>1
  <1>6. IsFiniteSet(Starts(t)) /\ Cardinality(Starts(t)) \in Nat
    BY <1>3, <1>5, Finite
  <1>7. Cardinality(Starts(t)) # 0
    BY <1>3, <1>6, FS_EmptySet
  <1> QED BY <1>1, <1>3, <1>4, <1>5, <1>6, <1>7 DEF n

\* No newline from i to e, and a newline or the end of the text behind e.
EndsAt(t, i, e) ==
  /\ e \in (i - 1)..Len(t)
  /\ \A k \in i..e : t[k] # "nl"
  /\ e = Len(t) \/ t[e + 1] = "nl"

LEMMA EndIs ==
  ASSUME NEW t \in Seq(Mark), NEW i \in 1..(Len(t) + 1)
  PROVE  /\ EndsAt(t, i, LineEnd(t, i))
         /\ \A e \in Int : EndsAt(t, i, e) => e = LineEnd(t, i)
  <1> DEFINE n == Len(t)
             M == {j \in Newlines(t) : j >= i} \cup {n + 1}
             m == LineEnd(t, i)
  <1>1. n \in Nat /\ i \in 1..(n + 1) /\ Len(t) = n
    BY LenProperties
  <1>2. Newlines(t) = {j \in 1..n : t[j] = "nl"}
    BY DEF Newlines
  <1>3. m = Min(M) - 1
    BY DEF LineEnd
  <1> HIDE DEF n
  <1>4. /\ M \in SUBSET Nat /\ M # {} /\ n + 1 \in M
        /\ \A j \in M : j = n + 1 \/ (j \in i..n /\ t[j] = "nl")
        /\ \A j \in i..n : t[j] = "nl" => j \in M
    BY <1>1, <1>2
  <1> HIDE DEF M
  <1>5. Min(M) \in M /\ \A x \in M : Min(M) <= x
    BY <1>4, MinIs
  <1>6. Min(M) \in Nat /\ Min(M) = m + 1
    <2>1. Min(M) \in Nat
      BY <1>4, <1>5
    <2> HIDE DEF m
    <2> QED BY <1>3, <2>1
  <1> HIDE DEF m
  <1>7. m \in Int
    BY <1>3, <1>6
  <1>8. m + 1 \in M /\ \A x \in M : m + 1 <= x
    BY <1>5, <1>6
  <1>9. m \in (i - 1)..n
    <2>1. m + 1 = n + 1 \/ m + 1 \in i..n
      BY <1>4, <1>8
    <2> QED BY <1>1, <1>7, <2>1
  <1>10. \A k \in i..m : t[k] # "nl"
    <2>1. ASSUME NEW k \in i..m, t[k] = "nl" PROVE FALSE
      <3>1. k \in i..n
        BY <1>1, <1>9
      <3>2. m + 1 <= k
        BY <1>4, <1>8, <2>1, <3>1
      <3> QED BY <1>7, <3>2
    <2> QED BY <2>1
  <1>11. m = n \/ t[m + 1] = "nl"
    <2>1. m + 1 = n + 1 => m = n
      BY <1>1, <1>7
    <2> QED BY <1>4, <1>8, <2>1
  <1>12. ASSUME NEW e \in Int, EndsAt(t, i, e) PROVE e = m
    <2>1. e \in (i - 1)..n /\ (\A k \in i..e : t[k] # "nl") /\ (e = n \/ t[e + 1] = "nl")
      BY <1>1, <1>12 DEF EndsAt
    <2>2. ~(e < m)
      <3>1. SUFFICES ASSUME e < m PROVE FALSE
        OBVIOUS
      <3>2. e # n /\ e + 1 \in i..m
        BY <1>1, <1>7, <1>9, <2>1, <3>1
      <3> QED BY <1>10, <2>1, <3>2
    <2>3. ~(m < e)
      <3>1. SUFFICES ASSUME m < e PROVE FALSE
        OBVIOUS
      <3>2. m # n /\ m + 1 \in i..e
        BY <1>1, <1>7, <1>9, <2>1, <3>1
      <3> QED BY <1>11, <2>1, <3>2
    <2> QED BY <1>7, <2>2, <2>3
  <1> QED BY <1>1, <1>9, <1>10, <1>11, <1>12 DEF EndsAt, m

\* Split gives the lines in the order of their starts.
LEMMA SplitLine ==
  ASSUME NEW t \in Seq(Mark)
  PROVE  /\ Split(t) \in Seq(Seq(Mark)) /\ Len(Split(t)) = Cardinality(Starts(t))
         /\ DOMAIN Split(t) = 1..Cardinality(Starts(t))
         /\ \A s \in Starts(t) : Split(t)[Rank(Starts(t), s)] = SubSeq(t, s, LineEnd(t, s))
  <1> DEFINE S == Starts(t)
             a == InOrder(S)
             n == Len(t)
  <1>1. n + 1 \in Nat /\ S \in SUBSET (1..(n + 1)) /\ Cardinality(S) \in Nat
    BY StartsAre
  <1>2. Split(t) = [k \in DOMAIN a |-> SubSeq(t, a[k], LineEnd(t, a[k]))]
    BY DEF Split, Starts
  <1> HIDE DEF S, n
  <1>3. DOMAIN a = 1..Cardinality(S) /\ \A k \in 1..Cardinality(S) : a[k] = Nth(S, k)
    BY DEF InOrder
  <1>4. Split(t) \in Seq(Seq(Mark))
    BY SplitIs
  <1>5. DOMAIN Split(t) = 1..Cardinality(S)
    BY <1>2, <1>3
  <1>6. Len(Split(t)) = Cardinality(S)
    BY <1>1, <1>4, <1>5, LenProperties
  <1>7. ASSUME NEW s \in S PROVE Split(t)[Rank(S, s)] = SubSeq(t, s, LineEnd(t, s))
    <2>1. Rank(S, s) \in 1..Cardinality(S)
      BY <1>1, RankIs
    <2>2. Nth(S, Rank(S, s)) = s
      BY <1>1, NthOfRank
    <2> HIDE DEF a
    <2> QED BY <1>2, <1>3, <2>1, <2>2
  <1> QED BY <1>4, <1>5, <1>6, <1>7 DEF S

(***************************************************************************)
(* A block: whole lines of a text                                          *)
(***************************************************************************)

\* g is what lies behind position d of t, from the start of a line to the end of one.
Block(t, d, g) ==
  /\ g \in Seq(Mark) /\ d \in Nat /\ d + Len(g) <= Len(t)
  /\ \A i \in 1..Len(g) : g[i] = t[d + i]
  /\ d = 0 \/ t[d] = "nl"
  /\ d + Len(g) = Len(t) \/ t[d + Len(g) + 1] = "nl"

\* Numbers for a block.
LEMMA BlockNumbers ==
  ASSUME NEW t \in Seq(Mark), NEW d, NEW g, Block(t, d, g)
  PROVE  /\ g \in Seq(Mark) /\ Len(t) \in Nat /\ Len(g) \in Nat /\ d \in 0..Len(t)
         /\ d + Len(g) <= Len(t)
         /\ \A i \in 1..Len(g) : g[i] = t[d + i] /\ d + i \in 1..Len(t)
         /\ \A i \in 1..(Len(g) + 1) : d + i \in 1..(Len(t) + 1)
  <1>1. Len(t) \in Nat /\ Len(g) \in Nat /\ d \in Nat /\ d + Len(g) <= Len(t)
    BY LenProperties DEF Block
  <1>2. \A i \in 1..Len(g) : g[i] = t[d + i]
    BY DEF Block
  <1>3. g \in Seq(Mark)
    BY DEF Block
  <1>4. \A i \in 1..Len(g) : d + i \in 1..Len(t)
    BY <1>1
  <1>5. \A i \in 1..(Len(g) + 1) : d + i \in 1..(Len(t) + 1)
    BY <1>1
  <1>6. d \in 0..Len(t)
    BY <1>1
  <1> QED BY <1>1, <1>2, <1>3, <1>4, <1>5, <1>6

LEMMA SameSubSeq ==
  ASSUME NEW t \in Seq(Mark), NEW g \in Seq(Mark), NEW d \in Nat, NEW s \in Nat \ {0}, NEW e \in Int,
         e <= Len(g), d + e <= Len(t), \A k \in s..e : t[d + k] = g[k]
  PROVE  SubSeq(t, d + s, d + e) = SubSeq(g, s, e)
  <1> DEFINE a == SubSeq(t, d + s, d + e)
             b == SubSeq(g, s, e)
  <1>1. /\ \A k \in 1..Len(g) : g[k] \in Mark
        /\ Len(g) \in Nat
    BY LenProperties, ElementOfSeq
  <1>2. \A k \in s..e : g[k] \in Mark /\ t[d + k] = g[k]
    BY <1>1
  <1>3. \A k \in (d + s)..(d + e) : t[k] \in Mark
    <2>1. ASSUME NEW k \in (d + s)..(d + e) PROVE t[k] \in Mark
      <3>1. k - d \in s..e /\ d + (k - d) = k
        OBVIOUS
      <3> QED BY <1>2, <3>1
    <2> QED BY <2>1
  <1>4. /\ b \in Seq(Mark) /\ Len(b) = (IF s <= e THEN e - s + 1 ELSE 0)
        /\ \A i \in 1..(e - s + 1) : b[i] = g[s + i - 1]
    <2>1. s \in Int /\ \A k \in s..e : g[k] \in Mark
      BY <1>2
    <2> QED BY <2>1, SubSeqProperties
  <1>5. /\ a \in Seq(Mark)
        /\ Len(a) = (IF d + s <= d + e THEN (d + e) - (d + s) + 1 ELSE 0)
        /\ \A i \in 1..((d + e) - (d + s) + 1) : a[i] = t[(d + s) + i - 1]
    <2> DEFINE x == d + s
               y == d + e
    <2>1. x \in Int /\ y \in Int /\ \A k \in x..y : t[k] \in Mark
      BY <1>3
    <2> HIDE DEF x, y
    <2>2. /\ SubSeq(t, x, y) \in Seq(Mark)
          /\ Len(SubSeq(t, x, y)) = (IF x <= y THEN y - x + 1 ELSE 0)
          /\ \A i \in 1..(y - x + 1) : SubSeq(t, x, y)[i] = t[x + i - 1]
      BY <2>1, SubSeqProperties, SMTT(30)
    <2> QED BY <2>2 DEF x, y
  <1> HIDE DEF a, b
  <1>6. Len(a) = Len(b)
    BY <1>4, <1>5
  <1>7. ASSUME NEW i \in 1..Len(a) PROVE a[i] = b[i]
    <2>1. i \in 1..(e - s + 1) /\ i \in 1..((d + e) - (d + s) + 1)
      BY <1>4, <1>5, <1>6
    <2>2. s + i - 1 \in s..e /\ (d + s) + i - 1 = d + (s + i - 1)
      BY <2>1
    <2> QED BY <1>2, <1>4, <1>5, <2>1, <2>2
  <1>8. a = b
    BY <1>4, <1>5, <1>6, <1>7, SeqEqual
  <1> QED BY <1>8 DEF a, b

LEMMA BlockStarts ==
  ASSUME NEW t \in Seq(Mark), NEW d, NEW g, Block(t, d, g)
  PROVE  /\ Agrees(Starts(t), d, Starts(g), Len(g) + 1)
         /\ GoesOn(Starts(t), d, Starts(g), Len(g) + 1)
  <1> DEFINE n == Len(t)
             m == Len(g)
             S == Starts(t)
             W == Starts(g)
  <1>1. /\ g \in Seq(Mark) /\ n \in Nat /\ m \in Nat /\ d \in 0..n /\ d + m <= n
        /\ \A i \in 1..m : g[i] = t[d + i] /\ d + i \in 1..n
    BY BlockNumbers
  <1>2. d = 0 \/ t[d] = "nl"
    BY DEF Block
  <1>3. /\ S \in SUBSET (1..(n + 1)) /\ 1 \in S /\ n + 1 \in Nat
        /\ \A i \in 1..n : i + 1 \in S <=> t[i] = "nl"
    BY StartsAre
  <1>4. /\ W \in SUBSET (1..(m + 1)) /\ 1 \in W /\ m + 1 \in Nat
        /\ \A i \in 1..m : i + 1 \in W <=> g[i] = "nl"
    BY <1>1, StartsAre
  <1> HIDE DEF n, m, S, W
  <1>5. ASSUME NEW s \in 1..(m + 1) PROVE d + s \in S <=> s \in W
    <2>1. CASE s = 1
      <3>1. CASE d = 0
        BY <1>3, <1>4, <2>1, <3>1
      <3>2. CASE d # 0
        <4>1. d \in 1..n /\ t[d] = "nl"
          BY <1>1, <1>2, <3>2
        <4> QED BY <1>3, <1>4, <2>1, <4>1
      <3> QED BY <3>1, <3>2
    <2>2. CASE s # 1
      <3> DEFINE i == s - 1
      <3>1. i \in 1..m /\ i + 1 = s /\ (d + i) + 1 = d + s
        BY <1>1, <2>2
      <3> HIDE DEF i
      <3>2. g[i] = t[d + i] /\ d + i \in 1..n
        BY <1>1, <3>1
      <3>3. (d + i) + 1 \in S <=> t[d + i] = "nl"
        BY <1>3, <3>2
      <3>4. i + 1 \in W <=> g[i] = "nl"
        BY <1>4, <3>1
      <3> QED BY <3>1, <3>2, <3>3, <3>4
    <2> QED BY <2>1, <2>2
  <1>6. Agrees(S, d, W, m + 1)
    BY <1>5 DEF Agrees
  <1>7. d \in Nat
    BY <1>1
  <1>8. GoesOn(S, d, W, m + 1)
    BY <1>3, <1>4, <1>6, <1>7, RankShift
  <1> QED BY <1>6, <1>8 DEF S, W, m

LEMMA BlockEnds ==
  ASSUME NEW t \in Seq(Mark), NEW d, NEW g, Block(t, d, g), NEW i \in 1..(Len(g) + 1)
  PROVE  LineEnd(t, d + i) = d + LineEnd(g, i)
  <1> DEFINE n == Len(t)
             m == Len(g)
             e == LineEnd(g, i)
  <1>1. /\ g \in Seq(Mark) /\ n \in Nat /\ m \in Nat /\ d \in 0..n /\ d + m <= n
        /\ \A j \in 1..m : g[j] = t[d + j] /\ d + j \in 1..n
        /\ d + i \in 1..(n + 1)
    BY BlockNumbers
  <1>2. d + m = n \/ t[d + m + 1] = "nl"
    BY DEF Block
  <1>3. EndsAt(g, i, e)
    BY <1>1, EndIs
  <1>4. e \in (i - 1)..m /\ (\A k \in i..e : g[k] # "nl") /\ (e = m \/ g[e + 1] = "nl")
    BY <1>3 DEF EndsAt
  <1> HIDE DEF n, m, e
  <1>5. i \in 1..(m + 1)
    BY DEF m
  <1>6. d + e \in ((d + i) - 1)..n /\ e \in Int /\ d + e \in Int
    BY <1>1, <1>4, <1>5
  <1>7. ASSUME NEW k \in (d + i)..(d + e) PROVE t[k] # "nl"
    <2> DEFINE j == k - d
    <2>1. j \in i..e /\ j \in 1..m /\ d + j = k
      BY <1>1, <1>4, <1>5
    <2> HIDE DEF j
    <2> QED BY <1>1, <1>4, <2>1
  <1>8. d + e = n \/ t[(d + e) + 1] = "nl"
    <2>1. CASE e = m
      BY <1>2, <2>1
    <2>2. CASE e # m
      <3>1. e + 1 \in 1..m /\ d + (e + 1) = (d + e) + 1
        BY <1>1, <1>4, <1>5, <2>2
      <3> QED BY <1>1, <1>4, <2>2, <3>1
    <2> QED BY <2>1, <2>2
  <1>9. EndsAt(t, d + i, d + e)
    BY <1>6, <1>7, <1>8 DEF EndsAt, n
  <1>10. d + i \in 1..(Len(t) + 1)
    BY <1>1 DEF n
  <1>11. d + e = LineEnd(t, d + i)
    BY <1>6, <1>9, <1>10, EndIs
  <1> QED BY <1>11 DEF e

\* The lines of a block are lines of the text.
LEMMA BlockLines ==
  ASSUME NEW t \in Seq(Mark), NEW d, NEW g, Block(t, d, g)
  PROVE  /\ Rank(Starts(t), d) \in Nat
         /\ Rank(Starts(t), d + Len(g) + 1) = Rank(Starts(t), d) + Len(Split(g))
         /\ \A j \in 1..Len(Split(g)) :
              /\ Rank(Starts(t), d) + j \in 1..Len(Split(t))
              /\ Split(t)[Rank(Starts(t), d) + j] = Split(g)[j]
              /\ Nth(Starts(g), j) \in Starts(g)
              /\ d + Nth(Starts(g), j) \in Starts(t)
              /\ Rank(Starts(t), d + Nth(Starts(g), j)) = Rank(Starts(t), d) + j
  <1> DEFINE n == Len(t)
             m == Len(g)
             S == Starts(t)
             W == Starts(g)
  <1>1. /\ g \in Seq(Mark) /\ n \in Nat /\ m \in Nat /\ d \in 0..n /\ d + m <= n
        /\ \A j \in 1..m : g[j] = t[d + j] /\ d + j \in 1..n
    BY BlockNumbers
  <1>2. S \in SUBSET (1..(n + 1)) /\ n + 1 \in Nat /\ Cardinality(S) \in Nat
    BY StartsAre
  <1>3. W \in SUBSET (1..(m + 1)) /\ m + 1 \in Nat /\ Cardinality(W) \in Nat \ {0}
    BY <1>1, StartsAre
  <1>4. Agrees(S, d, W, m + 1) /\ GoesOn(S, d, W, m + 1)
    BY BlockStarts
  <1>5. /\ Len(Split(t)) = Cardinality(S)
        /\ \A s \in S : Split(t)[Rank(S, s)] = SubSeq(t, s, LineEnd(t, s))
    BY SplitLine
  <1>6. /\ Len(Split(g)) = Cardinality(W)
        /\ \A s \in W : Split(g)[Rank(W, s)] = SubSeq(g, s, LineEnd(g, s))
    BY <1>1, SplitLine
  <1>7. \A s \in W : LineEnd(t, d + s) = d + LineEnd(g, s)
    BY <1>3, BlockEnds
  <1>8. \A s \in W : EndsAt(g, s, LineEnd(g, s))
    BY <1>1, <1>3, EndIs
  <1> HIDE DEF S, W, n, m
  <1> DEFINE c == Rank(S, d)
  <1>9. c \in Nat
    <2>1. d \in Nat
      BY <1>1
    <2> QED BY <1>2, <2>1, RankStep
  <1>10. Rank(S, d + m + 1) = c + Len(Split(g))
    <2>1. m + 1 \in 0..(m + 1) /\ d + (m + 1) = d + m + 1
      BY <1>1
    <2>2. Rank(S, d + (m + 1)) = c + Rank(W, m + 1)
      BY <1>4, <2>1 DEF GoesOn
    <2>3. m + 1 <= m + 1
      BY <1>1
    <2>4. Rank(W, m + 1) = Cardinality(W)
      BY <1>3, <2>3, RankStep
    <2> QED BY <1>6, <2>1, <2>2, <2>4
  <1> HIDE DEF c
  <1>11. ASSUME NEW j \in 1..Len(Split(g))
         PROVE  /\ c + j \in 1..Len(Split(t))
                /\ Split(t)[c + j] = Split(g)[j]
                /\ Nth(W, j) \in W
                /\ d + Nth(W, j) \in S
                /\ Rank(S, d + Nth(W, j)) = c + j
    <2> DEFINE s == Nth(W, j)
    <2>1. s \in W /\ Rank(W, s) = j
      BY <1>3, <1>6, NthIs
    <2> HIDE DEF s
    <2>2. s \in 1..(m + 1) /\ s \in 0..(m + 1)
      BY <1>3, <2>1
    <2>3. d + s \in S
      BY <1>4, <2>1, <2>2 DEF Agrees
    <2>4. Rank(S, d + s) = c + j
      BY <1>4, <2>1, <2>2 DEF GoesOn, c
    <2>5. Rank(S, d + s) \in 1..Cardinality(S)
      BY <1>2, <2>3, RankIs
    <2> DEFINE e == LineEnd(g, s)
    <2>6. Split(t)[c + j] = SubSeq(t, d + s, d + e)
      BY <1>5, <1>7, <2>1, <2>3, <2>4
    <2>7. Split(g)[j] = SubSeq(g, s, e)
      BY <1>6, <2>1
    <2>8. e \in (s - 1)..m
      BY <1>8, <2>1 DEF EndsAt, m
    <2> HIDE DEF e
    <2>9. SubSeq(t, d + s, d + e) = SubSeq(g, s, e)
      <3>1. e \in Int /\ s \in 1..(m + 1) /\ e <= m
        BY <1>1, <2>2, <2>8
      <3>2. \A k \in s..e : k \in 1..m
        BY <1>1, <3>1
      <3>3. \A k \in s..e : t[d + k] = g[k]
        BY <1>1, <3>2
      <3>4. e \in Int /\ s \in Nat \ {0} /\ d \in Nat /\ e <= Len(g) /\ d + e <= Len(t)
        BY <1>1, <3>1 DEF m, n
      <3> QED BY <1>1, <3>3, <3>4, SameSubSeq
    <2> QED BY <2>1, <2>3, <2>4, <2>5, <2>6, <2>7, <2>9, <1>5 DEF s
  <1> QED BY <1>9, <1>10, <1>11 DEF S, W, c, m

(***************************************************************************)
(* What a strategy keeps of a text                                         *)
(***************************************************************************)

Places(t, strategy) == (1..Len(t)) \ Ignored(t, strategy)

LEMMA KeptIs ==
  ASSUME NEW t \in Seq(Mark), NEW strategy
  PROVE  /\ Len(t) \in Nat /\ Places(t, strategy) \in SUBSET (1..Len(t))
         /\ Kept(t, strategy) \in Seq(Mark)
         /\ Len(Kept(t, strategy)) \in Nat
         /\ Len(Kept(t, strategy)) = Rank(Places(t, strategy), Len(t))
         /\ \A i \in Places(t, strategy) :
              /\ Rank(Places(t, strategy), i) \in 1..Len(Kept(t, strategy))
              /\ Kept(t, strategy)[Rank(Places(t, strategy), i)] = t[i]
         /\ \A k \in 1..Len(Kept(t, strategy)) :
              \E i \in Places(t, strategy) : Rank(Places(t, strategy), i) = k /\ Kept(t, strategy)[k] = t[i]
         /\ \A i \in 1..Len(t) : t[i] # "sp" => i \in Places(t, strategy)
  <1> DEFINE n == Len(t)
             P == Places(t, strategy)
             K == Kept(t, strategy)
             a == InOrder(P)
             c == Cardinality(P)
  <1>1. n \in Nat /\ \A i \in 1..n : t[i] \in Mark
    BY LenProperties, ElementOfSeq
  <1>2. K = [k \in DOMAIN a |-> t[a[k]]]
    BY DEF Kept, Places
  <1>3. P \in SUBSET (1..n)
    BY DEF Places
  <1>4. \A i \in 1..n : t[i] # "sp" => i \in P
    BY DEF Places, Ignored
  <1> HIDE DEF n, P, K
  <1>5. c \in Nat /\ DOMAIN a = 1..c /\ \A k \in 1..c : a[k] = Nth(P, k)
    BY <1>1, <1>3, Finite DEF InOrder
  <1>6. \A k \in 1..c : Nth(P, k) \in P /\ Rank(P, Nth(P, k)) = k
    BY <1>1, <1>3, NthIs
  <1> HIDE DEF a, c
  <1>7. DOMAIN K = 1..c /\ \A k \in 1..c : K[k] = t[Nth(P, k)]
    BY <1>2, <1>5
  <1>8. K \in [1..c -> Mark]
    <2>1. \A k \in 1..c : t[Nth(P, k)] \in Mark
      BY <1>1, <1>3, <1>6
    <2> QED BY <1>2, <1>5, <2>1
  <1>9. K \in Seq(Mark) /\ Len(K) = c
    BY <1>5, <1>8
  <1>10. Rank(P, n) = c
    <2>1. n <= n
      BY <1>1
    <2> QED BY <1>1, <1>3, <2>1, RankStep DEF c
  <1>11. ASSUME NEW i \in P PROVE Rank(P, i) \in 1..c /\ K[Rank(P, i)] = t[i]
    <2>1. Rank(P, i) \in 1..c
      BY <1>1, <1>3, RankIs DEF c
    <2>2. Nth(P, Rank(P, i)) = i
      BY <1>1, <1>3, NthOfRank
    <2> QED BY <1>7, <2>1, <2>2
  <1>12. \A k \in 1..c : \E i \in P : Rank(P, i) = k /\ K[k] = t[i]
    BY <1>6, <1>7
  <1> HIDE DEF a, c
  <1> QED BY <1>1, <1>3, <1>4, <1>5, <1>9, <1>10, <1>11, <1>12 DEF n, P, K

\* Whether a place of a block is kept depends on the block alone.
LEMMA BlockPlaces ==
  ASSUME NEW t \in Seq(Mark), NEW d, NEW g, Block(t, d, g), NEW strategy
  PROVE  Agrees(Places(t, strategy), d, Places(g, strategy), Len(g))
  <1> DEFINE n == Len(t)
             m == Len(g)
             blank(x, i) == \A j \in i..LineEnd(x, i) : x[j] = "sp"
             first(x, i) == \A j \in 1..i : (\A k \in j..i : x[k] # "nl") => x[j] = "sp"
  <1>1. /\ g \in Seq(Mark) /\ n \in Nat /\ m \in Nat /\ d \in 0..n /\ d + m <= n
        /\ \A i \in 1..m : g[i] = t[d + i] /\ d + i \in 1..n
    BY BlockNumbers
  <1>2. d = 0 \/ t[d] = "nl"
    BY DEF Block
  <1>3. \A i \in 1..m : LineEnd(t, d + i) = d + LineEnd(g, i)
    <2>1. \A i \in 1..m : i \in 1..(m + 1)
      BY <1>1
    <2> QED BY <2>1, BlockEnds
  <1>4. \A i \in 1..m : LineEnd(g, i) \in (i - 1)..m
    <2>1. \A i \in 1..m : i \in 1..(m + 1)
      BY <1>1
    <2> QED BY <1>1, <2>1, LineEndIs
  <1>5. \A i \in 1..n : i \in Places(t, strategy) <=>
                          ~ (t[i] = "sp" /\ (blank(t, i) \/ (strategy = "indentation" /\ first(t, i))))
    <2>1. Ignored(t, strategy) =
            {i \in 1..n : t[i] = "sp" /\ (blank(t, i) \/ (strategy = "indentation" /\ first(t, i)))}
      BY DEF Ignored
    <2> HIDE DEF blank, first, n
    <2> QED BY <2>1 DEF Places, n
  <1>6. \A i \in 1..m : i \in Places(g, strategy) <=>
                          ~ (g[i] = "sp" /\ (blank(g, i) \/ (strategy = "indentation" /\ first(g, i))))
    <2>1. Ignored(g, strategy) =
            {i \in 1..m : g[i] = "sp" /\ (blank(g, i) \/ (strategy = "indentation" /\ first(g, i)))}
      BY DEF Ignored
    <2> HIDE DEF blank, first, m
    <2> QED BY <2>1 DEF Places, m
  <1> HIDE DEF n, m
  <1>7. ASSUME NEW i \in 1..m
        PROVE  /\ d + i \in 1..n /\ t[d + i] = g[i]
               /\ blank(t, d + i) <=> blank(g, i)
               /\ first(t, d + i) <=> first(g, i)
    <2>1. d + i \in 1..n /\ t[d + i] = g[i]
      BY <1>1
    <2>2. blank(t, d + i) <=> blank(g, i)
      <3> DEFINE e == LineEnd(g, i)
      <3>1. e \in (i - 1)..m /\ LineEnd(t, d + i) = d + e
        BY <1>3, <1>4
      <3> HIDE DEF e
      <3>2. ASSUME blank(t, d + i), NEW j \in i..e PROVE g[j] = "sp"
        <4>1. d + j \in (d + i)..(d + e) /\ j \in 1..m
          BY <1>1, <3>1
        <4> QED BY <1>1, <3>1, <3>2, <4>1
      <3>3. ASSUME blank(g, i), NEW j \in (d + i)..(d + e) PROVE t[j] = "sp"
        <4> DEFINE l == j - d
        <4>0. e \in Int /\ i \in Int /\ 1 <= i /\ e <= m /\ d \in Int /\ m \in Int
          BY <1>1, <3>1
        <4>1. l \in i..e /\ l \in 1..m /\ d + l = j
          BY <4>0
        <4> HIDE DEF l
        <4>2. g[l] = "sp"
          BY <3>3, <4>1 DEF e
        <4> QED BY <1>1, <4>1, <4>2
      <3>4. blank(g, i) <=> \A j \in i..e : g[j] = "sp"
        BY DEF e
      <3>5. blank(t, d + i) <=> \A j \in (d + i)..(d + e) : t[j] = "sp"
        BY <3>1
      <3> QED BY <3>2, <3>3, <3>4, <3>5
    <2>3. ASSUME first(t, d + i), NEW j \in 1..i, \A k \in j..i : g[k] # "nl" PROVE g[j] = "sp"
      <3>1. \A k \in (d + j)..(d + i) : t[k] # "nl"
        <4>1. ASSUME NEW k \in (d + j)..(d + i) PROVE t[k] # "nl"
          <5> DEFINE l == k - d
          <5>1. l \in j..i /\ l \in 1..m /\ d + l = k
            BY <1>1
          <5> HIDE DEF l
          <5> QED BY <1>1, <2>3, <5>1
        <4> QED BY <4>1
      <3>2. d + j \in 1..(d + i) /\ j \in 1..m
        BY <1>1
      <3>3. t[d + j] = "sp"
        BY <2>3, <3>1, <3>2
      <3> QED BY <1>1, <3>2, <3>3
    <2>4. ASSUME first(g, i), NEW j \in 1..(d + i), \A k \in j..(d + i) : t[k] # "nl" PROVE t[j] = "sp"
      <3>1. ~ (j <= d)
        <4>1. SUFFICES ASSUME j <= d PROVE FALSE
          OBVIOUS
        <4>2. d # 0 /\ d \in j..(d + i)
          BY <1>1, <4>1
        <4> QED BY <1>2, <2>4, <4>2
      <3> DEFINE l == j - d
      <3>2. l \in 1..i /\ l \in 1..m /\ d + l = j
        BY <1>1, <3>1
      <3> HIDE DEF l
      <3>3. \A k \in l..i : g[k] # "nl"
        <4>1. ASSUME NEW k \in l..i PROVE g[k] # "nl"
          <5>1. d + k \in j..(d + i) /\ k \in 1..m
            BY <1>1, <3>2
          <5>2. t[d + k] # "nl"
            BY <2>4, <5>1
          <5> QED BY <1>1, <5>1, <5>2
        <4> QED BY <4>1
      <3>4. g[l] = "sp"
        BY <2>4, <3>2, <3>3
      <3> QED BY <1>1, <3>2, <3>4
    <2> QED BY <2>1, <2>2, <2>3, <2>4
  <1> HIDE DEF blank, first
  <1>8. \A i \in 1..m : d + i \in Places(t, strategy) <=> i \in Places(g, strategy)
    BY <1>5, <1>6, <1>7
  <1> QED BY <1>8 DEF Agrees, m

\* What is kept of a block is a piece of what is kept of the text.
LEMMA BlockKept ==
  ASSUME NEW t \in Seq(Mark), NEW d, NEW g, Block(t, d, g), NEW strategy
  PROVE  /\ Rank(Places(t, strategy), d) \in Nat
         /\ Rank(Places(t, strategy), d + Len(g)) =
              Rank(Places(t, strategy), d) + Len(Kept(g, strategy))
         /\ \A k \in 1..Len(Kept(g, strategy)) :
              Kept(t, strategy)[Rank(Places(t, strategy), d) + k] = Kept(g, strategy)[k]
  <1> DEFINE n == Len(t)
             m == Len(g)
             P == Places(t, strategy)
             Q == Places(g, strategy)
             c == Rank(P, d)
             K == Kept(t, strategy)
             L == Kept(g, strategy)
  <1>1. /\ g \in Seq(Mark) /\ n \in Nat /\ m \in Nat /\ d \in 0..n /\ d + m <= n
        /\ \A i \in 1..m : g[i] = t[d + i] /\ d + i \in 1..n
    BY BlockNumbers
  <1>2. Agrees(P, d, Q, m)
    BY BlockPlaces
  <1>3. P \in SUBSET (1..n) /\ \A i \in P : K[Rank(P, i)] = t[i]
    BY KeptIs
  <1>4. /\ Q \in SUBSET (1..m)
        /\ Len(L) \in Nat /\ Len(L) = Rank(Q, m)
        /\ \A k \in 1..Len(L) : \E i \in Q : Rank(Q, i) = k /\ L[k] = g[i]
    BY <1>1, KeptIs
  <1> HIDE DEF n, m, P, Q, K, L
  <1>0. d \in Nat
    BY <1>1
  <1>5. GoesOn(P, d, Q, m)
    BY <1>0, <1>1, <1>2, <1>3, <1>4, RankShift
  <1>6. c \in Nat
    BY <1>0, <1>1, <1>3, RankStep
  <1>7. Rank(P, d + m) = c + Len(L)
    <2>1. m \in 0..m
      BY <1>1
    <2> QED BY <1>4, <1>5, <2>1 DEF GoesOn
  <1> HIDE DEF c
  <1>8. ASSUME NEW k \in 1..Len(L) PROVE K[c + k] = L[k]
    <2>1. PICK i \in Q : Rank(Q, i) = k /\ L[k] = g[i]
      BY <1>4
    <2>2. i \in 1..m /\ i \in 0..m
      BY <1>4
    <2>3. d + i \in P
      BY <1>2, <2>1, <2>2 DEF Agrees
    <2>4. Rank(P, d + i) = c + k
      BY <1>5, <2>1, <2>2 DEF GoesOn, c
    <2>5. K[c + k] = t[d + i] /\ g[i] = t[d + i]
      BY <1>1, <1>3, <2>2, <2>3, <2>4
    <2> QED BY <2>1, <2>5
  <1> QED BY <1>6, <1>7, <1>8 DEF c, P, m, K, L

(***************************************************************************)
(* A text in two parts with a newline between them                         *)
(***************************************************************************)

Parts(a, x, y) ==
  /\ x \in Seq(Mark) /\ y \in Seq(Mark)
  /\ Len(a) = Len(x) + 1 + Len(y)
  /\ \A i \in 1..Len(x) : a[i] = x[i]
  /\ a[Len(x) + 1] = "nl"
  /\ \A j \in 1..Len(y) : a[Len(x) + 1 + j] = y[j]

OneLine(x) == \A i \in 1..Len(x) : x[i] # "nl"

LEMMA PartsEqual ==
  ASSUME NEW a \in Seq(Mark), NEW b \in Seq(Mark), NEW x, NEW y, NEW u, NEW v,
         Parts(a, x, y), Parts(b, u, v), OneLine(x), OneLine(u)
  PROVE  a = b <=> x = u /\ y = v
  <1>1. /\ x \in Seq(Mark) /\ y \in Seq(Mark) /\ u \in Seq(Mark) /\ v \in Seq(Mark)
        /\ Len(x) \in Nat /\ Len(y) \in Nat /\ Len(u) \in Nat /\ Len(v) \in Nat
    BY LenProperties DEF Parts
  <1>2. ASSUME a = b PROVE x = u /\ y = v
    <2>1. ~(Len(x) < Len(u))
      <3>1. SUFFICES ASSUME Len(x) < Len(u) PROVE FALSE
        OBVIOUS
      <3>2. Len(x) + 1 \in 1..Len(u)
        BY <1>1, <3>1
      <3>3. u[Len(x) + 1] = "nl"
        BY <1>2, <3>2 DEF Parts
      <3> QED BY <3>2, <3>3 DEF OneLine
    <2>2. ~(Len(u) < Len(x))
      <3>1. SUFFICES ASSUME Len(u) < Len(x) PROVE FALSE
        OBVIOUS
      <3>2. Len(u) + 1 \in 1..Len(x)
        BY <1>1, <3>1
      <3>3. x[Len(u) + 1] = "nl"
        BY <1>2, <3>2 DEF Parts
      <3> QED BY <3>2, <3>3 DEF OneLine
    <2>3. Len(x) = Len(u)
      BY <1>1, <2>1, <2>2
    <2>4. Len(x) + 1 + Len(y) = Len(u) + 1 + Len(v)
      BY <1>2 DEF Parts
    <2>5. Len(y) = Len(v)
      BY <1>1, <2>3, <2>4
    <2>6. \A i \in 1..Len(x) : x[i] = u[i]
      BY <1>2, <2>3 DEF Parts
    <2>7. \A i \in 1..Len(y) : y[i] = v[i]
      BY <1>2, <2>3, <2>5 DEF Parts
    <2>8. x = u
      BY <1>1, <2>3, <2>6, SeqEqual
    <2>9. y = v
      BY <1>1, <2>5, <2>7, SeqEqual
    <2> QED BY <2>8, <2>9
  <1>3. ASSUME x = u, y = v PROVE a = b
    <2>1. Len(a) = Len(b) /\ Len(a) = Len(x) + 1 + Len(y)
      BY <1>3 DEF Parts
    <2>2. ASSUME NEW i \in 1..Len(a) PROVE a[i] = b[i]
      <3> DEFINE j == i - (Len(x) + 1)
      <3>0. i \in Int /\ 1 <= i /\ i <= Len(x) + 1 + Len(y)
        BY <1>1, <2>1
      <3>1. i \in 1..Len(x) \/ i = Len(x) + 1 \/ (j \in 1..Len(y) /\ Len(x) + 1 + j = i)
        <4>1. CASE i <= Len(x)
          BY <1>1, <3>0, <4>1
        <4>2. CASE i = Len(x) + 1
          BY <4>2
        <4>3. CASE i > Len(x) + 1
          BY <1>1, <3>0, <4>3
        <4> QED BY <1>1, <3>0, <4>1, <4>2, <4>3
      <3> HIDE DEF j
      <3>2. CASE i \in 1..Len(x)
        BY <1>3, <3>2 DEF Parts
      <3>3. CASE i = Len(x) + 1
        BY <1>3, <3>3 DEF Parts
      <3>4. CASE j \in 1..Len(y) /\ Len(x) + 1 + j = i
        BY <1>3, <3>4 DEF Parts
      <3> QED BY <3>1, <3>2, <3>3, <3>4
    <2> QED BY <2>1, <2>2, SeqEqual
  <1> QED BY <1>2, <1>3

\* The parts are blocks.
LEMMA PartsBlocks ==
  ASSUME NEW t \in Seq(Mark), NEW x, NEW y, Parts(t, x, y)
  PROVE  /\ Len(t) \in Nat /\ Len(x) \in Nat /\ Len(y) \in Nat
         /\ Block(t, 0, x) /\ Block(t, Len(x) + 1, y)
  <1>1. Len(t) \in Nat /\ Len(x) \in Nat /\ Len(y) \in Nat
    BY LenProperties DEF Parts
  <1>2. \A i \in 1..Len(x) : 0 + i = i
    BY <1>1
  <1>3. 0 + Len(x) <= Len(t) /\ 0 + Len(x) + 1 = Len(x) + 1
    BY <1>1 DEF Parts
  <1>4. Block(t, 0, x)
    BY <1>2, <1>3 DEF Parts, Block
  <1>5. Block(t, Len(x) + 1, y)
    <2> DEFINE d == Len(x) + 1
    <2>1. d \in Nat /\ d + Len(y) = Len(t) /\ d + Len(y) <= Len(t) /\ t[d] = "nl"
      BY <1>1 DEF Parts
    <2>2. \A i \in 1..Len(y) : y[i] = t[d + i]
      BY DEF Parts
    <2> HIDE DEF d
    <2>3. Block(t, d, y)
      BY <2>1, <2>2 DEF Block, Parts
    <2> QED BY <2>3 DEF d
  <1> QED BY <1>1, <1>4, <1>5

\* What is kept of a text in two parts has two parts.
LEMMA KeptParts ==
  ASSUME NEW t \in Seq(Mark), NEW x, NEW y, Parts(t, x, y), NEW strategy
  PROVE  Parts(Kept(t, strategy), Kept(x, strategy), Kept(y, strategy))
  <1> DEFINE d == Len(x) + 1
             P == Places(t, strategy)
             K == Kept(t, strategy)
             X == Kept(x, strategy)
             Y == Kept(y, strategy)
  <1>1. /\ x \in Seq(Mark) /\ y \in Seq(Mark)
        /\ Len(t) \in Nat /\ Len(x) \in Nat /\ Len(y) \in Nat
        /\ Len(t) = d + Len(y) /\ t[d] = "nl"
    BY PartsBlocks DEF Parts
  <1>2. X \in Seq(Mark) /\ Len(X) \in Nat /\ Y \in Seq(Mark) /\ Len(Y) \in Nat
    BY <1>1, KeptIs
  <1>3. /\ P \in SUBSET (1..Len(t)) /\ Len(K) = Rank(P, Len(t))
        /\ \A i \in P : K[Rank(P, i)] = t[i]
        /\ \A i \in 1..Len(t) : t[i] # "sp" => i \in P
    BY KeptIs
  <1>4. /\ Rank(P, 0 + Len(x)) = Rank(P, 0) + Len(X)
        /\ \A k \in 1..Len(X) : K[Rank(P, 0) + k] = X[k]
    BY PartsBlocks, BlockKept
  <1>5. /\ Rank(P, d + Len(y)) = Rank(P, d) + Len(Y)
        /\ \A k \in 1..Len(Y) : K[Rank(P, d) + k] = Y[k]
    <2>1. Block(t, d, y)
      BY PartsBlocks
    <2> HIDE DEF d
    <2> QED BY <2>1, BlockKept
  <1>6. /\ Rank(P, 0) = 0
        /\ \A i \in Nat : Rank(P, i + 1) = IF i + 1 \in P THEN Rank(P, i) + 1 ELSE Rank(P, i)
    BY <1>1, <1>3, RankStep
  <1>7. d \in P
    <2>1. d \in 1..Len(t)
      BY <1>1
    <2> HIDE DEF d
    <2> QED BY <1>1, <1>3, <2>1
  <1> HIDE DEF P, K, X, Y
  <1>8. Rank(P, Len(x)) = Len(X) /\ \A k \in 1..Len(X) : K[k] = X[k]
    <2>1. \A k \in 1..Len(X) : Rank(P, 0) + k = k
      BY <1>2, <1>6
    <2>2. 0 + Len(x) = Len(x) /\ 0 + Len(X) = Len(X)
      BY <1>1, <1>2
    <2> QED BY <1>4, <1>6, <2>1, <2>2
  <1>9. Rank(P, d) = Len(X) + 1
    BY <1>1, <1>6, <1>7, <1>8
  <1>10. K[Len(X) + 1] = "nl"
    <2> HIDE DEF d
    <2> QED BY <1>1, <1>3, <1>7, <1>9
  <1>11. Len(K) = Len(X) + 1 + Len(Y)
    <2> HIDE DEF d
    <2> QED BY <1>1, <1>3, <1>5, <1>9
  <1>12. \A k \in 1..Len(Y) : K[Len(X) + 1 + k] = Y[k]
    <2> HIDE DEF d
    <2> QED BY <1>5, <1>9
  <1> QED BY <1>2, <1>8, <1>10, <1>11, <1>12 DEF Parts, K, X, Y

LEMMA SplitOne ==
  ASSUME NEW t \in Seq(Mark), OneLine(t)
  PROVE  /\ LineEnd(t, 1) = Len(t) /\ Len(Split(t)) = 1 /\ Split(t)[1] = t
  <1> DEFINE n == Len(t)
             S == Starts(t)
  <1>1. /\ n \in Nat /\ S \in SUBSET (1..(n + 1)) /\ 1 \in S
        /\ \A i \in 1..n : i + 1 \in S <=> t[i] = "nl"
    BY StartsAre
  <1>2. S = {1}
    <2>1. ASSUME NEW s \in S, s # 1 PROVE FALSE
      <3>1. s - 1 \in 1..n /\ (s - 1) + 1 = s
        BY <1>1, <2>1
      <3>2. t[s - 1] = "nl"
        <4> HIDE DEF S
        <4> QED BY <1>1, <3>1
      <3> QED BY <3>1, <3>2 DEF OneLine
    <2> QED BY <1>1, <2>1
  <1>3. LineEnd(t, 1) = n
    <2>1. 1 \in 1..(n + 1)
      BY <1>1
    <2>2. EndsAt(t, 1, n)
      BY <1>1 DEF EndsAt, OneLine
    <2>3. n \in Int
      BY <1>1
    <2> QED BY <2>1, <2>2, <2>3, EndIs
  <1>4. Cardinality(S) = 1 /\ Rank(S, 1) = 1
    <2>1. {j \in {1} : j <= 1} = {1}
      OBVIOUS
    <2> HIDE DEF S
    <2> QED BY <1>2, <2>1, FS_Singleton DEF Rank
  <1>5. Len(Split(t)) = Cardinality(S) /\ \A s \in S : Split(t)[Rank(S, s)] = SubSeq(t, s, LineEnd(t, s))
    BY SplitLine
  <1>6. SubSeq(t, 1, n) = t
    <2>1. \A k \in 1..n : t[k] \in Mark
      BY ElementOfSeq
    <2>2. /\ SubSeq(t, 1, n) \in Seq(Mark) /\ Len(SubSeq(t, 1, n)) = (IF 1 <= n THEN n - 1 + 1 ELSE 0)
          /\ \A i \in 1..(n - 1 + 1) : SubSeq(t, 1, n)[i] = t[1 + i - 1]
      BY <1>1, <2>1, SubSeqProperties
    <2>3. Len(SubSeq(t, 1, n)) = n
      BY <1>1, <2>2
    <2>4. \A i \in 1..n : SubSeq(t, 1, n)[i] = t[i]
      <3>1. n - 1 + 1 = n /\ \A i \in 1..n : 1 + i - 1 = i
        BY <1>1
      <3> QED BY <2>2, <3>1
    <2> QED BY <2>2, <2>3, <2>4, SeqEqual
  <1>7. Split(t)[1] = SubSeq(t, 1, n)
    <2> HIDE DEF S, n
    <2> QED BY <1>1, <1>3, <1>4, <1>5
  <1> QED BY <1>3, <1>4, <1>5, <1>6, <1>7

LEMMA SplitParts ==
  ASSUME NEW t \in Seq(Mark), NEW x, NEW y, Parts(t, x, y), OneLine(x)
  PROVE  /\ Len(Split(y)) \in Nat /\ Len(Split(t)) = 1 + Len(Split(y))
         /\ Split(t)[1] = x
         /\ \A j \in 1..Len(Split(y)) : Split(t)[1 + j] = Split(y)[j]
  <1> DEFINE d == Len(x) + 1
             S == Starts(t)
  <1>1. /\ x \in Seq(Mark) /\ y \in Seq(Mark)
        /\ Len(t) \in Nat /\ Len(x) \in Nat /\ Len(y) \in Nat
        /\ Len(t) = d + Len(y)
    BY PartsBlocks DEF Parts
  <1>2. Len(Split(x)) = 1 /\ Split(x)[1] = x
    BY <1>1, SplitOne
  <1>3. /\ Rank(S, 0 + Len(x) + 1) = Rank(S, 0) + Len(Split(x))
        /\ \A j \in 1..Len(Split(x)) : Split(t)[Rank(S, 0) + j] = Split(x)[j]
    BY PartsBlocks, BlockLines
  <1>4. /\ Rank(S, d + Len(y) + 1) = Rank(S, d) + Len(Split(y))
        /\ \A j \in 1..Len(Split(y)) : Split(t)[Rank(S, d) + j] = Split(y)[j]
    BY PartsBlocks, BlockLines
  <1>5. S \in SUBSET (1..(Len(t) + 1)) /\ Len(t) + 1 \in Nat
    BY StartsAre
  <1>6. Rank(S, 0) = 0 /\ Rank(S, Len(t) + 1) = Cardinality(S)
    <2>1. Len(t) + 1 <= Len(t) + 1
      BY <1>1
    <2> HIDE DEF S
    <2> QED BY <1>5, <2>1, RankStep
  <1>7. Len(Split(t)) = Cardinality(S)
    BY SplitLine
  <1>8. Len(Split(y)) \in Nat
    <2>1. Split(y) \in Seq(Seq(Mark))
      BY <1>1, SplitLine
    <2> QED BY <2>1, LenProperties
  <1>9. Rank(S, d) = 1
    <2>1. 0 + Len(x) + 1 = d
      BY <1>1
    <2> HIDE DEF d, S
    <2> QED BY <1>2, <1>3, <1>6, <2>1
  <1>10. Split(t)[1] = x
    <2>1. 1 \in 1..1 /\ 0 + 1 = 1
      OBVIOUS
    <2> HIDE DEF S
    <2> QED BY <1>2, <1>3, <1>6, <2>1
  <1> HIDE DEF d, S
  <1>11. Len(Split(t)) = 1 + Len(Split(y))
    BY <1>1, <1>4, <1>6, <1>7, <1>9
  <1>12. \A j \in 1..Len(Split(y)) : Split(t)[1 + j] = Split(y)[j]
    BY <1>4, <1>9
  <1> QED BY <1>8, <1>10, <1>11, <1>12

\* The first line and what lies behind it.
LEMMA FirstLine ==
  ASSUME NEW t \in Seq(Mark), ~OneLine(t)
  PROVE  \E x, y \in Seq(Mark) : Parts(t, x, y) /\ OneLine(x) /\ Len(y) < Len(t)
  <1> DEFINE n == Len(t)
             e == LineEnd(t, 1)
             x == SubSeq(t, 1, e)
             y == SubSeq(t, e + 2, n)
  <1>1. n \in Nat /\ \A i \in 1..n : t[i] \in Mark
    BY LenProperties, ElementOfSeq
  <1>2. EndsAt(t, 1, e)
    <2>1. 1 \in 1..(n + 1)
      BY <1>1
    <2> QED BY <2>1, EndIs
  <1>3. /\ e \in 0..n /\ \A k \in 1..e : t[k] # "nl"
        /\ e = n \/ t[e + 1] = "nl"
    BY <1>1, <1>2 DEF EndsAt
  <1> HIDE DEF e
  <1>4. e # n
    BY <1>1, <1>3 DEF OneLine
  <1>5. e \in Nat /\ e + 1 <= n /\ t[e + 1] = "nl" /\ e + 2 \in Nat
    BY <1>1, <1>3, <1>4
  <1>6. /\ x \in Seq(Mark) /\ Len(x) = (IF 1 <= e THEN e - 1 + 1 ELSE 0)
        /\ \A i \in 1..(e - 1 + 1) : x[i] = t[1 + i - 1]
    <2>1. \A i \in 1..e : t[i] \in Mark
      BY <1>1, <1>3
    <2> QED BY <1>5, <2>1, SubSeqProperties
  <1>7. /\ y \in Seq(Mark) /\ Len(y) = (IF e + 2 <= n THEN n - (e + 2) + 1 ELSE 0)
        /\ \A i \in 1..(n - (e + 2) + 1) : y[i] = t[(e + 2) + i - 1]
    <2> DEFINE s == e + 2
    <2>1. s \in Nat /\ \A i \in s..n : t[i] \in Mark
      BY <1>1, <1>5
    <2> HIDE DEF s, n
    <2>2. /\ SubSeq(t, s, n) \in Seq(Mark) /\ Len(SubSeq(t, s, n)) = (IF s <= n THEN n - s + 1 ELSE 0)
          /\ \A i \in 1..(n - s + 1) : SubSeq(t, s, n)[i] = t[s + i - 1]
      BY <1>1, <2>1, SubSeqProperties
    <2> QED BY <2>2 DEF s
  <1> HIDE DEF n, x, y
  <1>8. Len(x) = e /\ \A i \in 1..e : x[i] = t[i]
    <2>1. e - 1 + 1 = e /\ \A i \in 1..e : 1 + i - 1 = i
      BY <1>5
    <2>2. Len(x) = e
      BY <1>5, <1>6
    <2> QED BY <1>6, <2>1, <2>2
  <1>9. Len(y) = n - e - 1 /\ \A i \in 1..Len(y) : t[e + 1 + i] = y[i]
    <2>1. n - (e + 2) + 1 = n - e - 1 /\ \A i \in 1..(n - e - 1) : (e + 2) + i - 1 = e + 1 + i
      BY <1>1, <1>5
    <2>2. Len(y) = n - e - 1
      BY <1>1, <1>5, <1>7
    <2> QED BY <1>7, <2>1, <2>2
  <1>10. n = e + 1 + Len(y) /\ Len(y) < n
    BY <1>1, <1>5, <1>9
  <1>11. Parts(t, x, y)
    BY <1>5, <1>6, <1>7, <1>8, <1>9, <1>10 DEF Parts, n
  <1>12. OneLine(x)
    BY <1>3, <1>8 DEF OneLine
  <1> QED BY <1>6, <1>7, <1>10, <1>11, <1>12 DEF n

(***************************************************************************)
(* What is kept of a line is the line as the strategy normalizes it        *)
(***************************************************************************)

LEMMA MaxIs ==
  ASSUME NEW n \in Nat, NEW S \in SUBSET (0..n), S # {}
  PROVE  Max(S) \in S /\ \A x \in S : x <= Max(S)
  <1> DEFINE V == {n - x : x \in S}
  <1>1. \A x \in S : x \in Nat /\ x <= n
    OBVIOUS
  <1>2. V \in SUBSET Nat /\ V # {}
    BY <1>1
  <1>3. PICK v \in V : \A w \in V : v <= w
    <2> HIDE DEF V
    <2> QED BY <1>2, Smallest
  <1>4. PICK x \in S : v = n - x
    OBVIOUS
  <1>5. ASSUME NEW y \in S PROVE x >= y
    <2>1. n - y \in V
      OBVIOUS
    <2>2. n - x <= n - y
      BY <1>3, <1>4, <2>1
    <2> QED BY <1>1, <2>2
  <1>6. \E z \in S : \A y \in S : z >= y
    BY <1>5
  <1>7. Max(S) \in S /\ \A y \in S : Max(S) >= y
    BY <1>6 DEF Max
  <1>8. \A y \in S : Max(S) >= y => y <= Max(S)
    <2> DEFINE m == Max(S)
    <2>1. m \in S
      BY <1>7
    <2> HIDE DEF m
    <2>2. m \in Int /\ \A y \in S : y \in Int
      BY <1>1, <2>1
    <2>3. \A y \in S : m >= y => y <= m
      BY <2>2
    <2> QED BY <2>3 DEF m
  <1> QED BY <1>7, <1>8

LEMMA KeptRange ==
  ASSUME NEW t \in Seq(Mark), NEW strategy, NEW a \in Nat \ {0}, NEW b \in Nat, b <= Len(t),
         Places(t, strategy) = a..b
  PROVE  Kept(t, strategy) = SubSeq(t, a, b)
  <1> DEFINE K == Kept(t, strategy)
             P == Places(t, strategy)
             s == SubSeq(t, a, b)
             l == IF a <= b THEN b - a + 1 ELSE 0
  <1>1. /\ Len(t) \in Nat /\ \A i \in 1..Len(t) : t[i] \in Mark
    BY LenProperties, ElementOfSeq
  <1>2. /\ K \in Seq(Mark) /\ Len(K) \in Nat /\ Len(K) = Rank(P, Len(t))
        /\ \A i \in P : K[Rank(P, i)] = t[i]
    BY KeptIs
  <1>3. /\ s \in Seq(Mark) /\ Len(s) = l /\ \A i \in 1..(b - a + 1) : s[i] = t[a + i - 1]
    <2>1. \A i \in a..b : t[i] \in Mark
      BY <1>1
    <2> QED BY <2>1, SubSeqProperties
  <1> HIDE DEF s, K
  <1>4. P = a..b
    OBVIOUS
  <1> HIDE DEF P
  <1>5. Rank(P, Len(t)) = l
    <2>1. {j \in a..b : j <= Len(t)} = a..b
      BY <1>1
    <2>2. Cardinality(a..b) = l
      BY FS_Interval
    <2> QED BY <1>4, <2>1, <2>2 DEF Rank
  <1>6. ASSUME NEW k \in 1..l PROVE K[k] = s[k]
    <2> DEFINE i == a + k - 1
    <2>1. i \in a..b /\ k \in 1..(b - a + 1) /\ i - a + 1 = k /\ i \in Int /\ a <= i
      OBVIOUS
    <2> HIDE DEF i
    <2>2. Rank(P, i) = k
      <3>1. {j \in a..b : j <= i} = a..i
        BY <2>1
      <3>2. Cardinality(a..i) = i - a + 1
        BY <2>1, FS_Interval
      <3> QED BY <1>4, <2>1, <3>1, <3>2 DEF Rank
    <2>3. K[k] = t[i]
      BY <1>2, <1>4, <2>1, <2>2
    <2>4. s[k] = t[a + k - 1]
      BY <1>3, <2>1
    <2> QED BY <2>3, <2>4 DEF i
  <1>7. Len(K) = Len(s) /\ \A k \in 1..Len(K) : K[k] = s[k]
    BY <1>2, <1>3, <1>5, <1>6
  <1>8. K = s
    BY <1>2, <1>3, <1>7, SeqEqual
  <1> QED BY <1>8 DEF K, s

\* Where the marks of a line lie.
LEMMA MarksAre ==
  ASSUME NEW t \in Seq(Mark), NEW lo, NEW hi,
         lo = Min(Marks(t) \cup {Len(t) + 1}), hi = Max(Marks(t) \cup {0})
  PROVE  /\ hi \in 0..Len(t) /\ lo \in 1..(Len(t) + 1)
         /\ \A i \in 1..Len(t) : i <= hi <=> \E j \in i..Len(t) : t[j] # "sp"
         /\ \A i \in 1..Len(t) : lo <= i <=> \E j \in 1..i : t[j] # "sp"
  <1> DEFINE n == Len(t)
             M == Marks(t)
             H == M \cup {0}
             L == M \cup {n + 1}
  <1>1. n \in Nat
    BY LenProperties
  <1>2. \A i : i \in M <=> i \in 1..n /\ t[i] # "sp"
    BY DEF Marks
  <1>0. lo = Min(L) /\ hi = Max(H)
    OBVIOUS
  <1> HIDE DEF n, M
  <1>3. H \in SUBSET (0..n) /\ H # {} /\ \A i : i \in H <=> i = 0 \/ i \in M
    BY <1>1, <1>2
  <1>4. L \in SUBSET Nat /\ L # {} /\ \A i : i \in L <=> i = n + 1 \/ i \in M
    BY <1>1, <1>2
  <1> HIDE DEF H, L
  <1>5. hi \in H /\ \A x \in H : x <= hi
    BY <1>0, <1>1, <1>3, MaxIs
  <1>6. lo \in L /\ \A x \in L : lo <= x
    <2>1. Min(L) \in L /\ \A x \in L : Min(L) <= x
      BY <1>4, MinIs
    <2> QED BY <1>0, <2>1, ZenonT(30)
  <1>7. hi \in 0..n
    BY <1>1, <1>3, <1>5
  <1>8. lo \in 1..(n + 1)
    <2>1. lo = n + 1 \/ lo \in 1..n
      BY <1>2, <1>4, <1>6
    <2> QED BY <1>1, <2>1
  <1>9. ASSUME NEW i \in 1..n PROVE i <= hi <=> \E j \in i..n : t[j] # "sp"
    <2>1. ASSUME i <= hi PROVE \E j \in i..n : t[j] # "sp"
      <3>1. hi # 0 /\ hi \in i..n
        BY <1>1, <1>7, <2>1
      <3> QED BY <1>2, <1>3, <1>5, <3>1
    <2>2. ASSUME NEW j \in i..n, t[j] # "sp" PROVE i <= hi
      <3>1. j \in 1..n /\ i <= j
        BY <1>1, <2>2
      <3>2. j <= hi
        BY <1>2, <1>3, <1>5, <2>2, <3>1
      <3> QED BY <1>1, <1>7, <3>1, <3>2
    <2> QED BY <2>1, <2>2
  <1>10. ASSUME NEW i \in 1..n PROVE lo <= i <=> \E j \in 1..i : t[j] # "sp"
    <2>1. ASSUME lo <= i PROVE \E j \in 1..i : t[j] # "sp"
      <3>1. lo # n + 1 /\ lo \in 1..i
        BY <1>1, <1>8, <2>1
      <3> QED BY <1>2, <1>4, <1>6, <3>1
    <2>2. ASSUME NEW j \in 1..i, t[j] # "sp" PROVE lo <= i
      <3>1. j \in 1..n /\ j <= i
        BY <1>1, <2>2
      <3>2. lo <= j
        BY <1>2, <1>4, <1>6, <2>2, <3>1
      <3> QED BY <1>1, <1>8, <3>1, <3>2
    <2> QED BY <2>1, <2>2
  <1> QED BY <1>7, <1>8, <1>9, <1>10 DEF n

LEMMA KeptLine ==
  ASSUME NEW t \in Seq(Mark), OneLine(t), NEW strategy \in Strategies
  PROVE  Kept(t, strategy) = Normalized(strategy, t)
  <1> DEFINE n == Len(t)
             lo == Min(Marks(t) \cup {n + 1})
             hi == Max(Marks(t) \cup {0})
             blank(i) == \A j \in i..LineEnd(t, i) : t[j] = "sp"
             first(i) == \A j \in 1..i : (\A k \in j..i : t[k] # "nl") => t[j] = "sp"
  <1>0. strategy = "whitespace" \/ strategy = "indentation"
    BY DEF Strategies
  <1>1. n \in Nat /\ \A i \in 1..n : t[i] \in Mark
    BY LenProperties, ElementOfSeq
  <1>2. /\ hi \in 0..n /\ lo \in 1..(n + 1)
        /\ \A i \in 1..n : i <= hi <=> \E j \in i..n : t[j] # "sp"
        /\ \A i \in 1..n : lo <= i <=> \E j \in 1..i : t[j] # "sp"
    BY MarksAre
  <1>3. Normalized("whitespace", t) = SubSeq(t, 1, hi)
    BY DEF Normalized, TrimRight
  <1>4. Normalized("indentation", t) = SubSeq(SubSeq(t, 1, hi), lo, Len(SubSeq(t, 1, hi)))
    BY DEF Normalized, TrimRight, TrimSpace
  <1>5. Ignored(t, strategy) = {i \in 1..n : t[i] = "sp" /\ (blank(i) \/ (strategy = "indentation" /\ first(i)))}
    BY DEF Ignored
  <1> HIDE DEF lo, hi
  <1>6. \A i \in 1..n : LineEnd(t, i) = n
    <2>1. ASSUME NEW i \in 1..n PROVE LineEnd(t, i) = n
      <3>1. i \in 1..(n + 1) /\ n \in Int
        BY <1>1
      <3>2. EndsAt(t, i, n)
        BY <1>1 DEF EndsAt, OneLine
      <3> QED BY <3>1, <3>2, EndIs
    <2> QED BY <2>1
  <1>7. \A i \in 1..n : blank(i) <=> ~(i <= hi)
    <2>1. \A i \in 1..n : blank(i) <=> \A j \in i..n : t[j] = "sp"
      BY <1>6
    <2> HIDE DEF blank
    <2> QED BY <1>2, <2>1
  <1>8. ASSUME NEW i \in 1..n PROVE first(i) <=> ~(lo <= i)
    <2>1. \A j \in 1..i : \A k \in j..i : k \in 1..n
      BY <1>1
    <2>2. \A j \in 1..i : \A k \in j..i : t[k] # "nl"
      BY <2>1 DEF OneLine
    <2>3. first(i) <=> \A j \in 1..i : t[j] = "sp"
      BY <2>2
    <2> HIDE DEF first
    <2> QED BY <1>2, <2>3
  <1>9. \A i \in 1..n : t[i] # "sp" => i <= hi /\ lo <= i
    <2>1. \A i \in 1..n : i \in i..n /\ i \in 1..i
      BY <1>1
    <2> QED BY <1>2, <2>1
  <1> HIDE DEF blank, first
  <1>10. \A i \in 1..n : i \in Places(t, strategy) <=>
                           i <= hi /\ (strategy = "indentation" => lo <= i)
    <2>1. \A i \in 1..n : i \in Ignored(t, strategy) <=>
                            t[i] = "sp" /\ (blank(i) \/ (strategy = "indentation" /\ first(i)))
      <3> HIDE DEF n
      <3> QED BY <1>5
    <2>2. \A i \in 1..n : i \in Places(t, strategy) <=> i \notin Ignored(t, strategy)
      <3>1. Places(t, strategy) = (1..n) \ Ignored(t, strategy)
        BY DEF Places
      <3> HIDE DEF n
      <3> QED BY <3>1
    <2> QED BY <1>7, <1>8, <1>9, <2>1, <2>2
  <1>11. Places(t, strategy) \in SUBSET (1..n)
    BY DEF Places
  <1>12. hi \in Nat /\ hi <= n /\ lo \in Nat \ {0}
    BY <1>1, <1>2
  <1> HIDE DEF n
  <1>13. CASE strategy = "whitespace"
    <2>1. Places(t, strategy) = 1..hi
      <3>1. \A i \in 1..n : i \in Places(t, strategy) <=> i <= hi
        BY <1>10, <1>13
      <3>2. \A i \in 1..hi : i \in 1..n
        BY <1>1, <1>12
      <3>3. \A i \in 1..n : i <= hi => i \in 1..hi
        BY <1>1, <1>12
      <3>4. \A i \in 1..hi : i <= hi
        BY <1>12
      <3> QED BY <1>11, <3>1, <3>2, <3>3, <3>4
    <2>2. 1 \in Nat \ {0}
      OBVIOUS
    <2>3. Kept(t, strategy) = SubSeq(t, 1, hi)
      BY <1>12, <2>1, <2>2, KeptRange DEF n
    <2> QED BY <1>3, <1>13, <2>3
  <1>14. CASE strategy = "indentation"
    <2>1. Places(t, strategy) = lo..hi
      <3>1. \A i \in 1..n : i \in Places(t, strategy) <=> i <= hi /\ lo <= i
        BY <1>10, <1>14
      <3>2. \A i \in lo..hi : i \in 1..n /\ i <= hi /\ lo <= i
        BY <1>1, <1>12
      <3>3. \A i \in 1..n : i <= hi /\ lo <= i => i \in lo..hi
        BY <1>1, <1>12
      <3> QED BY <1>11, <3>1, <3>2, <3>3
    <2>2. Kept(t, strategy) = SubSeq(t, lo, hi)
      BY <1>12, <2>1, KeptRange DEF n
    <2> DEFINE g == SubSeq(t, 1, hi)
    <2>3. /\ g \in Seq(Mark) /\ Len(g) = (IF 1 <= hi THEN hi - 1 + 1 ELSE 0)
          /\ \A i \in 1..(hi - 1 + 1) : g[i] = t[1 + i - 1]
      <3>1. \A i \in 1..hi : t[i] \in Mark
        BY <1>1, <1>12
      <3> QED BY <1>12, <3>1, SubSeqProperties
    <2> HIDE DEF g
    <2>4. Len(g) = hi /\ \A k \in lo..hi : t[0 + k] = g[k]
      <3>1. hi - 1 + 1 = hi /\ \A i \in 1..hi : 1 + i - 1 = i /\ 0 + i = i
        BY <1>12
      <3>2. Len(g) = hi
        BY <1>12, <2>3
      <3>3. \A k \in lo..hi : k \in 1..hi
        BY <1>12
      <3> QED BY <2>3, <3>1, <3>2, <3>3
    <2>5. SubSeq(t, 0 + lo, 0 + hi) = SubSeq(g, lo, hi)
      <3>1. hi \in Int /\ hi <= Len(g) /\ 0 + hi <= Len(t) /\ 0 \in Nat
        BY <1>12, <2>4 DEF n
      <3> QED BY <1>12, <2>3, <2>4, <3>1, SameSubSeq
    <2>6. 0 + lo = lo /\ 0 + hi = hi
      BY <1>12
    <2> QED BY <1>4, <1>14, <2>2, <2>4, <2>5, <2>6 DEF g
  <1> QED BY <1>0, <1>13, <1>14

LEMMA KeptOneLine ==
  ASSUME NEW t \in Seq(Mark), OneLine(t), NEW strategy
  PROVE  OneLine(Kept(t, strategy))
  <1> DEFINE K == Kept(t, strategy)
             P == Places(t, strategy)
  <1>1. /\ P \in SUBSET (1..Len(t))
        /\ \A k \in 1..Len(K) : \E i \in P : Rank(P, i) = k /\ K[k] = t[i]
    BY KeptIs
  <1> HIDE DEF K, P
  <1>2. \A k \in 1..Len(K) : K[k] # "nl"
    BY <1>1 DEF OneLine
  <1> QED BY <1>2 DEF OneLine, K

(***************************************************************************)
(* Lines that are alike one by one, and texts of which the same is kept    *)
(***************************************************************************)

LinesLike(strategy, t, u) ==
  /\ Len(Split(t)) = Len(Split(u))
  /\ \A k \in 1..Len(Split(t)) : Normalized(strategy, Split(t)[k]) = Normalized(strategy, Split(u)[k])

LikeIsKept(strategy, t, u) == LinesLike(strategy, t, u) <=> Kept(t, strategy) = Kept(u, strategy)

LikeBelow(strategy, n) == \A t, u \in Seq(Mark) : Len(t) < n => LikeIsKept(strategy, t, u)

LEMMA SomeLine ==
  ASSUME NEW t \in Seq(Mark)
  PROVE  Len(Split(t)) \in Nat \ {0}
  BY SplitLine, StartsAre

\* A text of one line is like no text of more.
LEMMA OneAndMore ==
  ASSUME NEW strategy \in Strategies, NEW t \in Seq(Mark), OneLine(t), NEW u \in Seq(Mark), ~OneLine(u)
  PROVE  /\ ~LinesLike(strategy, t, u) /\ Kept(t, strategy) # Kept(u, strategy)
         /\ ~LinesLike(strategy, u, t)
  <1>1. PICK x, y \in Seq(Mark) : Parts(u, x, y) /\ OneLine(x)
    BY FirstLine
  <1>2. Len(Split(t)) = 1
    BY SplitOne
  <1>3. Len(Split(u)) = 1 + Len(Split(y)) /\ Len(Split(y)) \in Nat \ {0}
    BY <1>1, SplitParts, SomeLine
  <1>4. Len(Split(t)) # Len(Split(u))
    BY <1>2, <1>3
  <1> DEFINE K == Kept(t, strategy)
             U == Kept(u, strategy)
             X == Kept(x, strategy)
             Y == Kept(y, strategy)
  <1>5. OneLine(K)
    BY KeptOneLine
  <1>6. Parts(U, X, Y) /\ Len(X) \in Nat /\ Len(Y) \in Nat
    BY <1>1, KeptParts, KeptIs
  <1> HIDE DEF K, U, X, Y
  <1>7. K # U
    <2>1. Len(X) + 1 \in 1..Len(U) /\ U[Len(X) + 1] = "nl"
      <3>1. Len(U) = Len(X) + 1 + Len(Y) /\ U[Len(X) + 1] = "nl"
        BY <1>6 DEF Parts
      <3> QED BY <1>6, <3>1
    <2> QED BY <1>5, <2>1 DEF OneLine
  <1> QED BY <1>4, <1>7 DEF LinesLike, K, U

LEMMA LikeParts ==
  ASSUME NEW strategy \in Strategies, NEW n \in Nat, LikeBelow(strategy, n),
         NEW t \in Seq(Mark), NEW u \in Seq(Mark), Len(t) < n + 1, ~OneLine(t), ~OneLine(u)
  PROVE  LikeIsKept(strategy, t, u)
  <1> DEFINE K(s) == Kept(s, strategy)
             N(s) == Normalized(strategy, s)
  <1>1. PICK x, y \in Seq(Mark) : Parts(t, x, y) /\ OneLine(x) /\ Len(y) < Len(t)
    BY FirstLine
  <1>2. PICK v, w \in Seq(Mark) : Parts(u, v, w) /\ OneLine(v)
    BY FirstLine
  <1>3. Len(y) < n
    BY <1>1, LenProperties
  <1>4. LinesLike(strategy, y, w) <=> K(y) = K(w)
    BY <1>3 DEF LikeBelow, LikeIsKept
  <1>5. K(x) = N(x) /\ K(v) = N(v) /\ OneLine(K(x)) /\ OneLine(K(v))
    BY <1>1, <1>2, KeptLine, KeptOneLine
  <1>6. K(t) = K(u) <=> K(x) = K(v) /\ K(y) = K(w)
    <2>1. Parts(K(t), K(x), K(y)) /\ Parts(K(u), K(v), K(w)) /\ K(t) \in Seq(Mark) /\ K(u) \in Seq(Mark)
      BY <1>1, <1>2, KeptParts, KeptIs
    <2> HIDE DEF K
    <2> QED BY <1>5, <2>1, PartsEqual
  <1> DEFINE a == Split(t)
             b == Split(u)
             c == Split(y)
             d == Split(w)
  <1>7. /\ Len(c) \in Nat /\ Len(a) = 1 + Len(c) /\ a[1] = x
        /\ \A j \in 1..Len(c) : a[1 + j] = c[j]
    BY <1>1, SplitParts
  <1>8. /\ Len(d) \in Nat /\ Len(b) = 1 + Len(d) /\ b[1] = v
        /\ \A j \in 1..Len(d) : b[1 + j] = d[j]
    BY <1>2, SplitParts
  <1>9. /\ LinesLike(strategy, t, u) <=> Len(a) = Len(b) /\ \A k \in 1..Len(a) : N(a[k]) = N(b[k])
        /\ LinesLike(strategy, y, w) <=> Len(c) = Len(d) /\ \A k \in 1..Len(c) : N(c[k]) = N(d[k])
    BY DEF LinesLike
  <1> HIDE DEF a, b, c, d, N, K
  <1>10. ASSUME LinesLike(strategy, t, u) PROVE N(x) = N(v) /\ LinesLike(strategy, y, w)
    <2>1. Len(c) = Len(d)
      BY <1>7, <1>8, <1>9, <1>10
    <2>2. N(x) = N(v)
      <3>1. 1 \in 1..Len(a)
        BY <1>7
      <3> QED BY <1>7, <1>8, <1>9, <1>10, <3>1
    <2>3. ASSUME NEW k \in 1..Len(c) PROVE N(c[k]) = N(d[k])
      <3>1. 1 + k \in 1..Len(a) /\ k \in 1..Len(d)
        BY <1>7, <2>1
      <3>2. N(a[1 + k]) = N(b[1 + k])
        BY <1>9, <1>10, <3>1
      <3> QED BY <1>7, <1>8, <3>1, <3>2
    <2> QED BY <1>9, <2>1, <2>2, <2>3
  <1>11. ASSUME N(x) = N(v), LinesLike(strategy, y, w) PROVE LinesLike(strategy, t, u)
    <2>1. Len(a) = Len(b) /\ Len(c) = Len(d)
      BY <1>7, <1>8, <1>9, <1>11
    <2>2. ASSUME NEW k \in 1..Len(a) PROVE N(a[k]) = N(b[k])
      <3>1. k = 1 \/ (k - 1 \in 1..Len(c) /\ 1 + (k - 1) = k)
        BY <1>7
      <3>2. CASE k = 1
        BY <1>7, <1>8, <1>11, <3>2
      <3>3. CASE k - 1 \in 1..Len(c) /\ 1 + (k - 1) = k
        <4>1. N(c[k - 1]) = N(d[k - 1]) /\ k - 1 \in 1..Len(d)
          BY <1>9, <1>11, <2>1, <3>3
        <4>2. a[1 + (k - 1)] = c[k - 1] /\ b[1 + (k - 1)] = d[k - 1]
          BY <1>7, <1>8, <3>3, <4>1
        <4> QED BY <3>3, <4>1, <4>2
      <3> QED BY <3>1, <3>2, <3>3
    <2> QED BY <1>9, <2>1, <2>2
  <1> QED BY <1>4, <1>5, <1>6, <1>10, <1>11 DEF LikeIsKept, K

LEMMA LikeStep ==
  ASSUME NEW strategy \in Strategies, NEW n \in Nat, LikeBelow(strategy, n)
  PROVE  LikeBelow(strategy, n + 1)
  <1>1. SUFFICES ASSUME NEW t \in Seq(Mark), NEW u \in Seq(Mark), Len(t) < n + 1
                 PROVE  LikeIsKept(strategy, t, u)
    BY DEF LikeBelow
  <1>2. CASE OneLine(t) /\ OneLine(u)
    <2>1. Len(Split(t)) = 1 /\ Split(t)[1] = t /\ Len(Split(u)) = 1 /\ Split(u)[1] = u
      BY <1>2, SplitOne
    <2>2. \A k \in 1..1 : k = 1
      OBVIOUS
    <2>3. LinesLike(strategy, t, u) <=> Normalized(strategy, t) = Normalized(strategy, u)
      BY <2>1, <2>2 DEF LinesLike
    <2>4. Kept(t, strategy) = Normalized(strategy, t) /\ Kept(u, strategy) = Normalized(strategy, u)
      BY <1>2, KeptLine
    <2> QED BY <2>3, <2>4 DEF LikeIsKept
  <1>3. CASE OneLine(t) /\ ~OneLine(u)
    BY <1>3, OneAndMore DEF LikeIsKept
  <1>4. CASE ~OneLine(t) /\ OneLine(u)
    BY <1>4, OneAndMore DEF LikeIsKept
  <1>5. CASE ~OneLine(t) /\ ~OneLine(u)
    BY <1>1, <1>5, LikeParts
  <1> QED BY <1>2, <1>3, <1>4, <1>5

LEMMA KeptAlike ==
  ASSUME NEW strategy \in Strategies, NEW t \in Seq(Mark), NEW u \in Seq(Mark)
  PROVE  LinesLike(strategy, t, u) <=> Kept(t, strategy) = Kept(u, strategy)
  <1> DEFINE I == {n \in Nat : LikeBelow(strategy, n)}
  <1>1. 0 \in I
    <2>1. \A s \in Seq(Mark) : ~(Len(s) < 0)
      BY LenProperties
    <2>2. LikeBelow(strategy, 0)
      BY <2>1 DEF LikeBelow
    <2> QED BY <2>2
  <1>2. ASSUME NEW n \in I PROVE n + 1 \in I
    <2>1. n \in Nat /\ LikeBelow(strategy, n)
      OBVIOUS
    <2>2. LikeBelow(strategy, n + 1) /\ n + 1 \in Nat
      BY <2>1, LikeStep
    <2> QED BY <2>2
  <1>3. I \in SUBSET Nat
    OBVIOUS
  <1> HIDE DEF I
  <1>4. I = Nat
    BY <1>1, <1>2, <1>3, SetInduction
  <1>5. Len(t) + 1 \in Nat /\ Len(t) < Len(t) + 1
    BY LenProperties
  <1>6. LikeBelow(strategy, Len(t) + 1)
    BY <1>4, <1>5 DEF I
  <1> QED BY <1>5, <1>6 DEF LikeBelow, LikeIsKept

(***************************************************************************)
(* Texts with the same lines                                               *)
(***************************************************************************)

SameBelow(n) == \A t, u \in Seq(Mark) : Len(t) < n /\ Split(t) = Split(u) => t = u

\* Texts whose segments are the same are the same, if shorter ones are.
LEMMA SameStep ==
  ASSUME NEW n \in Nat, SameBelow(n)
  PROVE  SameBelow(n + 1)
  <1>1. SUFFICES ASSUME NEW t \in Seq(Mark), NEW u \in Seq(Mark), Len(t) < n + 1, Split(t) = Split(u)
                 PROVE  t = u
    BY DEF SameBelow
  <1>2. CASE OneLine(t) /\ OneLine(u)
    BY <1>1, <1>2, SplitOne
  <1>3. OneLine(t) <=> OneLine(u)
    <2>1. ASSUME NEW v \in Seq(Mark), ~OneLine(v) PROVE Len(Split(v)) # 1
      <3>1. PICK x, y \in Seq(Mark) : Parts(v, x, y) /\ OneLine(x)
        BY <2>1, FirstLine
      <3>2. Len(Split(v)) = 1 + Len(Split(y)) /\ Len(Split(y)) \in Nat \ {0}
        BY <3>1, SplitParts, SomeLine
      <3> QED BY <3>2
    <2> QED BY <1>1, <2>1, SplitOne
  <1>4. CASE ~OneLine(t) /\ ~OneLine(u)
    <2>1. PICK x, y \in Seq(Mark) : Parts(t, x, y) /\ OneLine(x) /\ Len(y) < Len(t)
      BY <1>4, FirstLine
    <2>2. PICK v, w \in Seq(Mark) : Parts(u, v, w) /\ OneLine(v)
      BY <1>4, FirstLine
    <2> DEFINE a == Split(t)
               c == Split(y)
               d == Split(w)
    <2>3. /\ Len(c) \in Nat /\ Len(a) = 1 + Len(c) /\ a[1] = x
          /\ \A j \in 1..Len(c) : a[1 + j] = c[j]
      BY <2>1, SplitParts
    <2>4. /\ Len(d) \in Nat /\ Len(a) = 1 + Len(d) /\ a[1] = v
          /\ \A j \in 1..Len(d) : a[1 + j] = d[j]
      BY <1>1, <2>2, SplitParts
    <2>5. c \in Seq(Seq(Mark)) /\ d \in Seq(Seq(Mark))
      BY SplitLine
    <2> HIDE DEF a, c, d
    <2>6. c = d
      <3>1. Len(c) = Len(d)
        BY <2>3, <2>4
      <3>2. \A j \in 1..Len(c) : c[j] = d[j]
        BY <2>3, <2>4, <3>1
      <3> QED BY <2>5, <3>1, <3>2, SeqEqual
    <2>7. Len(y) < n
      BY <1>1, <2>1, LenProperties
    <2>8. y = w
      BY <2>6, <2>7 DEF SameBelow, c, d
    <2> QED BY <2>1, <2>2, <2>3, <2>4, <2>8, PartsEqual
  <1> QED BY <1>2, <1>3, <1>4

\* A text is given by its segments.
LEMMA SplitTells ==
  ASSUME NEW t \in Seq(Mark), NEW u \in Seq(Mark), Split(t) = Split(u)
  PROVE  t = u
  <1> DEFINE I == {n \in Nat : SameBelow(n)}
  <1>1. 0 \in I
    <2>1. \A s \in Seq(Mark) : ~(Len(s) < 0)
      BY LenProperties
    <2>2. SameBelow(0)
      BY <2>1 DEF SameBelow
    <2> QED BY <2>2
  <1>2. ASSUME NEW n \in I PROVE n + 1 \in I
    <2>1. n \in Nat /\ SameBelow(n)
      OBVIOUS
    <2>2. SameBelow(n + 1) /\ n + 1 \in Nat
      BY <2>1, SameStep
    <2> QED BY <2>2
  <1>3. I \in SUBSET Nat
    OBVIOUS
  <1> HIDE DEF I
  <1>4. I = Nat
    BY <1>1, <1>2, <1>3, SetInduction
  <1>5. Len(t) + 1 \in Nat /\ Len(t) < Len(t) + 1
    BY LenProperties
  <1>6. SameBelow(Len(t) + 1)
    BY <1>4, <1>5 DEF I
  <1> QED BY <1>5, <1>6 DEF SameBelow

\* What DiffLines splits, and what it drops.
Stripped(t) == IF Last(t) = "nl" THEN Front(t) ELSE t

LEMMA StrippedIs ==
  ASSUME NEW t \in Seq(Mark), t # <<>>
  PROVE  /\ Stripped(t) \in Seq(Mark) /\ DiffLines(t) = Split(Stripped(t))
         /\ DiffLines(t) # <<>>
         /\ t = Stripped(t) \/ t = Append(Stripped(t), "nl")
  <1> DEFINE n == Len(t)
             u == SubSeq(t, 1, n - 1)
  <1>1. n \in Nat /\ n >= 1 /\ \A k \in 1..n : t[k] \in Mark
    BY EmptySeq, LenProperties, ElementOfSeq
  <1>2. u \in Seq(Mark) /\ Len(u) = n - 1 /\ \A k \in 1..(n - 1) : u[k] = t[k]
    <2>1. n - 1 \in Int /\ \A k \in 1..(n - 1) : t[k] \in Mark
      BY <1>1
    <2>2. /\ u \in Seq(Mark)
          /\ Len(u) = IF 1 <= n - 1 THEN (n - 1) - 1 + 1 ELSE 0
          /\ \A k \in 1..((n - 1) - 1 + 1) : u[k] = t[1 + k - 1]
      BY <2>1, SubSeqProperties
    <2> HIDE DEF n, u
    <2> QED BY <1>1, <2>2
  <1>3. Front(t) = u /\ Last(t) = t[n]
    BY DEF Front, Last
  <1>4. Stripped(t) \in Seq(Mark)
    BY <1>2, <1>3 DEF Stripped
  <1>5. DiffLines(t) = Split(Stripped(t))
    BY DEF DiffLines, Stripped
  <1>6. DiffLines(t) # <<>>
    BY <1>4, <1>5, SomeLine, EmptySeq
  <1>7. CASE t[n] = "nl"
    <2>1. "nl" \in Mark
      BY <1>1, <1>7
    <2> HIDE DEF u, n
    <2>2. /\ Append(u, "nl") \in Seq(Mark) /\ Len(Append(u, "nl")) = n
          /\ \A k \in 1..(n - 1) : Append(u, "nl")[k] = u[k]
          /\ Append(u, "nl")[n] = "nl"
      BY <1>1, <1>2, <2>1, AppendProperties
    <2>3. \A k \in 1..n : Append(u, "nl")[k] = t[k]
      BY <1>1, <1>2, <1>7, <2>2
    <2>4. Append(u, "nl") = t
      BY <2>2, <2>3, SeqEqual DEF n
    <2> QED BY <1>3, <1>4, <1>5, <1>6, <1>7, <2>4 DEF Stripped
  <1>8. CASE t[n] # "nl"
    BY <1>3, <1>4, <1>5, <1>6, <1>8 DEF Stripped
  <1> QED BY <1>7, <1>8

\* Two texts with the same lines differ in a final newline at most.
LEMMA LinesTell ==
  ASSUME NEW t \in Seq(Mark), NEW u \in Seq(Mark), DiffLines(t) = DiffLines(u), t # u
  PROVE  FinalNewlineOnly(t, u)
  <1>1. t # <<>> /\ u # <<>>
    <2>1. DiffLines(<<>>) = <<>>
      BY DEF DiffLines
    <2> QED BY <2>1, StrippedIs
  <1>2. Stripped(t) = Stripped(u)
    BY <1>1, StrippedIs, SplitTells
  <1> QED BY <1>1, <1>2, StrippedIs DEF FinalNewlineOnly

(***************************************************************************)
(* Regions of whole lines                                                  *)
(***************************************************************************)

LEMMA PieceIs ==
  ASSUME NEW t \in Seq(Mark), NEW i \in 1..(Len(t) + 1), NEW e \in (i - 1)..Len(t)
  PROVE  /\ SubSeq(t, i, e) \in Seq(Mark) /\ Len(SubSeq(t, i, e)) = e - i + 1
         /\ \A k \in 1..(e - i + 1) : SubSeq(t, i, e)[k] = t[(i - 1) + k]
  <1>1. Len(t) \in Nat /\ \A k \in 1..Len(t) : t[k] \in Mark
    BY LenProperties, ElementOfSeq
  <1>2. i \in Nat /\ e \in Int /\ 1 <= i /\ e <= Len(t) /\ i - 1 <= e
    BY <1>1
  <1>3. \A k \in i..e : t[k] \in Mark
    BY <1>1, <1>2
  <1>4. /\ SubSeq(t, i, e) \in Seq(Mark)
        /\ Len(SubSeq(t, i, e)) = (IF i <= e THEN e - i + 1 ELSE 0)
        /\ \A k \in 1..(e - i + 1) : SubSeq(t, i, e)[k] = t[i + k - 1]
    BY <1>2, <1>3, SubSeqProperties
  <1>5. Len(SubSeq(t, i, e)) = e - i + 1
    BY <1>2, <1>4
  <1>6. \A k \in 1..(e - i + 1) : i + k - 1 = (i - 1) + k
    BY <1>2
  <1> QED BY <1>4, <1>5, <1>6

\* The offsets are the starts of lines inside the text.
LEMMA OffsetsAre ==
  ASSUME NEW t \in Seq(Mark)
  PROVE  /\ Len(Offsets(t)) \in Nat /\ Len(Offsets(t)) = Rank(Starts(t), Len(t))
         /\ \A k \in 1..Len(Offsets(t)) :
              /\ Offsets(t)[k] \in Starts(t) /\ Offsets(t)[k] \in 1..Len(t)
              /\ Rank(Starts(t), Offsets(t)[k]) = k
         /\ \A s \in Starts(t) : s <= Len(t) =>
              Rank(Starts(t), s) \in 1..Len(Offsets(t)) /\ Offsets(t)[Rank(Starts(t), s)] = s
  <1> DEFINE n == Len(t)
             S == Starts(t)
             O == S \ {n + 1}
             a == Offsets(t)
  <1>1. n \in Nat /\ S \in SUBSET (1..(n + 1))
    BY StartsAre
  <1>2. a = InOrder(O)
    BY DEF Offsets, Starts
  <1> HIDE DEF n, S, a
  <1>3. O \in SUBSET (1..n) /\ \A s : s \in O <=> s \in S /\ s <= n
    <2>1. \A s \in S : s \in 1..(n + 1) /\ (s # n + 1 <=> s <= n) /\ (s <= n => s \in 1..n)
      BY <1>1
    <2>2. \A s \in O : s \in 1..n
      BY <2>1
    <2>3. \A s \in S : s \in O <=> s <= n
      BY <2>1
    <2> QED BY <2>2, <2>3
  <1>4. \A i \in Nat : i <= n => Rank(O, i) = Rank(S, i)
    <2>1. ASSUME NEW i \in Nat, i <= n PROVE {j \in O : j <= i} = {j \in S : j <= i}
      <3>1. \A j \in S : j <= i => j <= n
        BY <1>1, <2>1
      <3> HIDE DEF O
      <3> QED BY <1>3, <3>1
    <2> HIDE DEF O
    <2> QED BY <2>1 DEF Rank
  <1> HIDE DEF O
  <1> DEFINE c == Cardinality(O)
  <1>5. c \in Nat /\ a \in [1..c -> O]
    BY <1>1, <1>2, <1>3, InOrderIs
  <1>6. \A k \in 1..c : a[k] = Nth(O, k)
    BY <1>2 DEF InOrder
  <1>7. \A k \in 1..c : a[k] \in O /\ Rank(O, a[k]) = k
    BY <1>1, <1>3, <1>6, NthIs
  <1>8. c = Rank(O, n)
    <2>1. n <= n
      BY <1>1
    <2> QED BY <1>1, <1>3, <2>1, RankStep
  <1>9. \A s \in O : Rank(O, s) \in 1..c /\ a[Rank(O, s)] = s
    <2>1. ASSUME NEW s \in O PROVE Rank(O, s) \in 1..c /\ a[Rank(O, s)] = s
      <3>1. Rank(O, s) \in 1..c
        BY <1>1, <1>3, RankIs
      <3>2. Nth(O, Rank(O, s)) = s
        BY <1>1, <1>3, NthOfRank
      <3> QED BY <1>6, <3>1, <3>2
    <2> QED BY <2>1
  <1> HIDE DEF c
  <1>10. Len(a) = c
    BY <1>5
  <1>11. \A s \in O : s \in Nat /\ s <= n /\ s \in 1..n /\ Rank(O, s) = Rank(S, s)
    BY <1>1, <1>3, <1>4
  <1>12. Rank(O, n) = Rank(S, n)
    BY <1>1, <1>4
  <1>13. \A k \in 1..c : a[k] \in S /\ a[k] \in 1..n /\ Rank(S, a[k]) = k
    BY <1>3, <1>7, <1>11
  <1>14. \A s \in S : s <= n => Rank(S, s) \in 1..c /\ a[Rank(S, s)] = s
    BY <1>3, <1>9, <1>11
  <1> QED BY <1>5, <1>8, <1>10, <1>12, <1>13, <1>14 DEF n, S, a

\* The last line of a block ends where the block does.
LEMMA LastOfBlock ==
  ASSUME NEW t \in Seq(Mark), NEW d, NEW g, Block(t, d, g)
  PROVE  \E s \in Starts(t) : /\ s \in (d + 1)..(d + Len(g) + 1)
                              /\ Rank(Starts(t), s) = Rank(Starts(t), d) + Len(Split(g))
                              /\ LineEnd(t, s) = d + Len(g)
  <1> DEFINE m == Len(g)
             S == Starts(t)
             W == Starts(g)
             p == Len(Split(g))
             i == Nth(W, p)
  <1>1. /\ g \in Seq(Mark) /\ Len(t) \in Nat /\ m \in Nat /\ d \in 0..Len(t) /\ d + m <= Len(t)
    BY BlockNumbers
  <1>2. p \in Nat \ {0} /\ p = Cardinality(W)
    BY <1>1, SomeLine, SplitLine
  <1>3. W \in SUBSET (1..(m + 1)) /\ \A k \in 1..m : g[k] = "nl" => k + 1 \in W
    BY <1>1, StartsAre
  <1>4. p \in 1..p /\ p \in 1..Cardinality(W)
    BY <1>2
  <1>5. i \in W /\ d + i \in S /\ Rank(S, d + i) = Rank(S, d) + p
    <2>1. \A j \in 1..p :
              /\ Nth(W, j) \in W
              /\ d + Nth(W, j) \in S
              /\ Rank(S, d + Nth(W, j)) = Rank(S, d) + j
      BY BlockLines
    <2> HIDE DEF W, S, p
    <2> QED BY <1>4, <2>1
  <1>6. Rank(W, i) = p
    <2>1. m + 1 \in Nat
      BY <1>1
    <2> HIDE DEF W, p
    <2> QED BY <1>3, <1>4, <2>1, NthIs
  <1> HIDE DEF W, S, p, i
  <1>7. i \in 1..(m + 1)
    BY <1>3, <1>5
  <1>8. ASSUME NEW k \in i..m, g[k] = "nl" PROVE FALSE
    <2>1. k \in 1..m /\ i < k + 1
      BY <1>1, <1>7
    <2>2. k + 1 \in W
      BY <1>3, <1>8, <2>1
    <2>3. m + 1 \in Nat
      BY <1>1
    <2>4. Rank(W, k + 1) \in 1..p /\ Rank(W, i) < Rank(W, k + 1)
      BY <1>2, <1>3, <1>5, <2>1, <2>2, <2>3, RankIs
    <2> QED BY <1>2, <1>6, <2>4
  <1>9. LineEnd(g, i) = m
    <2>1. EndsAt(g, i, m)
      BY <1>1, <1>7, <1>8 DEF EndsAt, m
    <2>2. m \in Int
      BY <1>1
    <2> QED BY <1>1, <1>7, <2>1, <2>2, EndIs DEF m
  <1>10. LineEnd(t, d + i) = d + m
    BY <1>7, <1>9, BlockEnds DEF m
  <1>11. d + i \in (d + 1)..(d + m + 1)
    BY <1>1, <1>7
  <1> QED BY <1>5, <1>10, <1>11 DEF S, p, m

\* From the start of the k-th line to the end of the p-th from there: a block of p lines.
LEMMA BlockFrom ==
  ASSUME NEW t \in Seq(Mark), NEW k \in Nat \ {0}, NEW p \in Nat \ {0}, k + p - 1 <= Len(Offsets(t)),
         NEW i, NEW e, i = Offsets(t)[k], e = LineEnd(t, Offsets(t)[k + p - 1])
  PROVE  /\ Len(t) \in Nat /\ i \in 1..Len(t) /\ e \in (i - 1)..Len(t)
         /\ Block(t, i - 1, SubSeq(t, i, e))
         /\ e = Len(t) => t[e] # "nl"
         /\ Rank(Starts(t), i - 1) = k - 1
         /\ Len(Split(SubSeq(t, i, e))) = p
  <1> DEFINE n == Len(t)
             S == Starts(t)
             a == Offsets(t)
             q == Len(a)
             l == a[k + p - 1]
             g == SubSeq(t, i, e)
             d == i - 1
  <1>1. /\ q \in Nat /\ n \in Nat
        /\ \A j \in 1..q : a[j] \in S /\ a[j] \in 1..n /\ Rank(S, a[j]) = j
    BY OffsetsAre, LenProperties
  <1>2. /\ n + 1 \in Nat /\ S \in SUBSET (1..(n + 1)) /\ 1 \in S
        /\ \A j \in 1..n : j + 1 \in S <=> t[j] = "nl"
    BY StartsAre
  <1>0. i = a[k] /\ e = LineEnd(t, l) /\ k + p - 1 <= q
    OBVIOUS
  <1> HIDE DEF n, S, a, q
  <1>3. k \in 1..q /\ k + p - 1 \in 1..q /\ k <= k + p - 1
    BY <1>0, <1>1
  <1>4. /\ i \in S /\ i \in 1..n /\ Rank(S, i) = k
        /\ l \in S /\ l \in 1..n /\ Rank(S, l) = k + p - 1
    BY <1>0, <1>1, <1>3
  <1> HIDE DEF l
  <1>5. i <= l
    <2>1. l < i => Rank(S, l) < Rank(S, i)
      BY <1>2, <1>4, RankIs
    <2> QED BY <1>3, <1>4, <2>1
  <1>6. /\ e \in (l - 1)..n /\ \A j \in l..e : t[j] # "nl"
        /\ e = n \/ t[e + 1] = "nl"
    <2>1. l \in 1..(n + 1)
      BY <1>1, <1>4
    <2>2. EndsAt(t, l, e)
      BY <1>0, <2>1, EndIs DEF n
    <2> QED BY <2>2 DEF EndsAt, n
  <1>7. e \in Int /\ e \in (i - 1)..n /\ e \in Nat
    BY <1>1, <1>4, <1>5, <1>6
  <1>8. e = n => t[e] # "nl"
    <2>1. e = n => e \in l..e
      BY <1>1, <1>4, <1>7
    <2> QED BY <1>6, <2>1
  <1>9. g \in Seq(Mark) /\ Len(g) = e - i + 1 /\ \A j \in 1..(e - i + 1) : g[j] = t[d + j]
    <2>1. i \in 1..(n + 1)
      BY <1>1, <1>4
    <2> QED BY <1>7, <2>1, PieceIs DEF n
  <1>10. d \in Nat /\ d + Len(g) = e
    <2>1. i \in Int /\ 1 <= i /\ e \in Int
      BY <1>1, <1>4, <1>7
    <2>2. i - 1 \in Nat /\ (i - 1) + (e - i + 1) = e
      BY <2>1
    <2> QED BY <1>9, <2>2
  <1>11. Rank(S, d) = k - 1 /\ (d = 0 \/ t[d] = "nl")
    <2>1. Rank(S, d) \in Nat /\ Rank(S, d + 1) = (IF d + 1 \in S THEN Rank(S, d) + 1 ELSE Rank(S, d))
      <3> HIDE DEF d
      <3> QED BY <1>2, <1>10, RankStep
    <2>2. d + 1 = i
      BY <1>4
    <2>3. Rank(S, d) = k - 1
      BY <1>4, <2>1, <2>2
    <2>4. d = 0 \/ d \in 1..n
      BY <1>1, <1>4
    <2> HIDE DEF d
    <2> QED BY <1>2, <1>4, <2>2, <2>3, <2>4
  <1>12. Block(t, d, g)
    <2>1. d + Len(g) <= n /\ (d + Len(g) = n \/ t[d + Len(g) + 1] = "nl")
      <3>1. e <= n
        BY <1>1, <1>7
      <3> HIDE DEF d, g
      <3> QED BY <1>6, <1>10, <3>1
    <2> HIDE DEF d, g
    <2> QED BY <1>9, <1>10, <1>11, <2>1, <1>7 DEF Block, n
  <1> HIDE DEF d, g
  <1>13. Rank(S, e + 1) = Rank(S, d) + Len(Split(g))
    <2>1. Rank(S, d + Len(g) + 1) = Rank(S, d) + Len(Split(g))
      BY <1>12, BlockLines DEF S
    <2> QED BY <1>10, <2>1
  <1>14. Rank(S, e + 1) = k + p - 1
    <2> DEFINE m == e + 1 - l
    <2>1. m \in Nat /\ l + m = e + 1 /\ l \in Nat
      BY <1>4, <1>6, <1>7
    <2>2. ASSUME NEW s \in 1..m PROVE l + s \notin S
      <3> DEFINE j == l + s - 1
      <3>1. j \in l..e /\ j \in 1..n /\ j + 1 = l + s
        <4>1. l \in Int /\ 1 <= l /\ e \in Int /\ e <= n /\ s \in Int /\ 1 <= s /\ s <= e + 1 - l
          BY <1>1, <1>4, <1>7, <2>1
        <4> QED BY <1>1, <4>1
      <3> HIDE DEF j
      <3> QED BY <1>2, <1>6, <3>1
    <2> HIDE DEF m
    <2>3. Rank(S, l + m) = Rank(S, l)
      BY <1>2, <2>1, <2>2, RankStays
    <2> QED BY <1>4, <2>1, <2>3
  <1>15. Len(Split(g)) = p
    <2>1. Len(Split(g)) \in Nat
      BY <1>9, SomeLine
    <2> QED BY <1>11, <1>13, <1>14, <2>1
  <1> QED BY <1>1, <1>4, <1>7, <1>8, <1>11, <1>12, <1>15 DEF n, S, g, d

\* A region of t from the start of a line to the end of one, of which the same is kept
\* as of o; a newline at the end of the text begins no line.
IsRegion(t, o, strategy, i, e) ==
  /\ i \in 1..Len(t) /\ e \in (i - 1)..Len(t)
  /\ Block(t, i - 1, SubSeq(t, i, e))
  /\ e = Len(t) => t[e] # "nl"
  /\ Kept(SubSeq(t, i, e), strategy) = Kept(o, strategy)

\* ... with the newline behind it, if that is part of what is looked for.
RegionAt(t, trailing, i, e) ==
  [start |-> i, end |-> IF trailing /\ e + 1 <= Len(t) THEN e + 2 ELSE e + 1]

Trailing(old) == Last(old) = "nl"
Body(old) == IF Trailing(old) THEN Front(old) ELSE old

LEMMA BodyIs ==
  ASSUME NEW old \in Seq(Mark), old # <<>>
  PROVE  /\ Len(old) \in Nat \ {0} /\ Body(old) \in Seq(Mark)
         /\ Trailing(old) <=> old[Len(old)] = "nl"
         /\ Trailing(old) => Parts(old, Body(old), <<>>)
         /\ ~Trailing(old) => Body(old) = old
  <1> DEFINE n == Len(old)
             f == SubSeq(old, 1, n - 1)
  <1>1. n \in Nat \ {0} /\ \A i \in 1..n : old[i] \in Mark
    <2>1. n \in Nat /\ \A i \in 1..n : old[i] \in Mark
      BY LenProperties, ElementOfSeq
    <2>2. n # 0
      BY EmptySeq
    <2> QED BY <2>1, <2>2
  <1>2. Front(old) = f /\ Last(old) = old[n]
    BY DEF Front, Last
  <1>3. f \in Seq(Mark) /\ Len(f) = n - 1 /\ \A k \in 1..(n - 1) : f[k] = old[k]
    <2>1. 1 \in 1..(n + 1) /\ n - 1 \in (1 - 1)..n
      BY <1>1
    <2>2. /\ f \in Seq(Mark) /\ Len(f) = (n - 1) - 1 + 1
          /\ \A k \in 1..((n - 1) - 1 + 1) : f[k] = old[(1 - 1) + k]
      BY <2>1, PieceIs
    <2>3. (n - 1) - 1 + 1 = n - 1 /\ \A k \in 1..(n - 1) : (1 - 1) + k = k
      BY <1>1
    <2> HIDE DEF n, f
    <2> QED BY <2>2, <2>3
  <1> HIDE DEF n, f
  <1>4. Trailing(old) <=> old[n] = "nl"
    BY <1>2 DEF Trailing
  <1>5. ASSUME Trailing(old) PROVE Body(old) = f /\ Parts(old, f, <<>>)
    <2>1. <<>> \in Seq(Mark) /\ Len(<<>>) = 0
      BY EmptySeq
    <2>2. Len(f) + 1 = n /\ n = Len(f) + 1 + Len(<<>>)
      BY <1>1, <1>3, <2>1
    <2>3. \A j \in 1..Len(<<>>) : FALSE
      BY <2>1
    <2>4. Body(old) = f
      BY <1>2, <1>5 DEF Body
    <2>5. \A i \in 1..Len(f) : old[i] = f[i]
      BY <1>3
    <2>6. old[Len(f) + 1] = "nl"
      BY <1>4, <1>5, <2>2
    <2>7. \A j \in 1..Len(<<>>) : old[Len(f) + 1 + j] = <<>>[j]
      BY <2>3
    <2>8. Parts(old, f, <<>>)
      BY <1>3, <2>1, <2>2, <2>5, <2>6, <2>7 DEF Parts, n
    <2> QED BY <2>4, <2>8
  <1>6. ~Trailing(old) => Body(old) = old
    BY DEF Body
  <1> QED BY <1>1, <1>3, <1>4, <1>5, <1>6 DEF n

\* Where old is found by its lines: its regions.
LEMMA LocatedRegions ==
  ASSUME NEW t \in Seq(Mark), NEW old \in Seq(Mark), old # <<>>, NEW strategy \in Strategies, NEW x
  PROVE  x \in Located(t, old, strategy) <=>
           \E i, e \in Nat : IsRegion(t, Body(old), strategy, i, e) /\ x = RegionAt(t, Trailing(old), i, e)
  <1> DEFINE N(s)     == Normalized(strategy, s)
             o        == Body(old)
             v        == Split(o)
             p        == Len(v)
             pattern  == [k \in DOMAIN v |-> N(v[k])]
             at       == Offsets(t)
             q        == Len(at)
             S        == Starts(t)
             n        == Len(t)
             line(k)  == SubSeq(t, at[k], LineEnd(t, at[k]))
             matches  == {k \in 1..(Len(at) - Len(pattern) + 1) :
                            \A j \in DOMAIN pattern : N(line(k + j - 1)) = pattern[j]}
             after(k) == LineEnd(t, at[k + Len(pattern) - 1]) + 1
             e(k)     == LineEnd(t, at[k + p - 1])
             hits     == {k \in 1..(q - p + 1) : \A j \in 1..p : N(line(k + j - 1)) = N(v[j])}
  <1>1. Located(t, old, strategy) =
          {[start |-> at[k],
            end   |-> IF Last(old) = "nl" /\ after(k) <= Len(t) THEN after(k) + 1 ELSE after(k)] : k \in matches}
    BY DEF Located, Body, Trailing
  <1>2. o \in Seq(Mark)
    BY BodyIs
  <1>3. p \in Nat \ {0} /\ v \in Seq(Seq(Mark)) /\ DOMAIN v = 1..p
    <2> HIDE DEF o
    <2>1. p \in Nat \ {0} /\ v \in Seq(Seq(Mark))
      BY <1>2, SomeLine, SplitLine
    <2> QED BY <2>1, LenProperties
  <1>4. Len(pattern) = p /\ DOMAIN pattern = 1..p /\ \A j \in 1..p : pattern[j] = N(v[j])
    <2> HIDE DEF v, p, N
    <2> QED BY <1>3
  <1>5. matches = hits
    <2> HIDE DEF pattern, line, N, at, v, p
    <2> QED BY <1>4 DEF q
  <1>6. \A k : RegionAt(t, Trailing(old), at[k], e(k)) =
          [start |-> at[k],
           end   |-> IF Last(old) = "nl" /\ e(k) + 1 <= Len(t) THEN e(k) + 2 ELSE e(k) + 1]
    BY DEF RegionAt, Trailing
  <1>7. /\ q \in Nat /\ n \in Nat
        /\ \A k \in 1..q : at[k] \in S /\ at[k] \in 1..n /\ Rank(S, at[k]) = k
        /\ \A s \in S : s <= n => Rank(S, s) \in 1..q /\ at[Rank(S, s)] = s
    BY OffsetsAre, LenProperties
  <1>8. \A k \in 1..q : Split(t)[k] = line(k)
    <2>1. \A s \in S : Split(t)[Rank(S, s)] = SubSeq(t, s, LineEnd(t, s))
      BY SplitLine
    <2> HIDE DEF S, at, q
    <2> QED BY <1>7, <2>1
  <1> HIDE DEF line, N, o, v, pattern
  <1>9. ASSUME NEW k \in hits
        PROVE  /\ at[k] \in Nat /\ e(k) \in Nat /\ IsRegion(t, o, strategy, at[k], e(k))
               /\ after(k) = e(k) + 1 /\ e(k) + 2 = e(k) + 1 + 1
    <2>1. k \in Nat \ {0} /\ k + p - 1 <= q /\ \A j \in 1..p : k + j - 1 \in 1..q /\ k - 1 + j = k + j - 1
      BY <1>3, <1>7
    <2> DEFINE i == at[k]
               g == SubSeq(t, i, e(k))
    <2>2. /\ i \in 1..n /\ e(k) \in (i - 1)..n
          /\ Block(t, i - 1, g)
          /\ e(k) = n => t[e(k)] # "nl"
          /\ Rank(S, i - 1) = k - 1
          /\ Len(Split(g)) = p
      <3> HIDE DEF p
      <3> QED BY <1>3, <2>1, BlockFrom
    <2>3. g \in Seq(Mark)
      BY <2>2 DEF Block
    <2>4. \A j \in 1..p : Split(t)[(k - 1) + j] = Split(g)[j]
      <3>1. \A j \in 1..Len(Split(g)) : Split(t)[Rank(S, i - 1) + j] = Split(g)[j]
        <4>1. Block(t, i - 1, g)
          BY <2>2
        <4> HIDE DEF i, g
        <4> QED BY <4>1, BlockLines
      <3> HIDE DEF i, g, S, p, at
      <3> QED BY <2>2, <3>1
    <2> HIDE DEF g
    <2>5. LinesLike(strategy, g, o)
      <3>1. ASSUME NEW j \in 1..p PROVE N(Split(g)[j]) = N(v[j])
        <4>1. Split(g)[j] = line(k + j - 1)
          BY <1>8, <2>1, <2>4
        <4>2. N(line(k + j - 1)) = N(v[j])
          OBVIOUS
        <4> QED BY <4>1, <4>2
      <3> QED BY <2>2, <3>1 DEF LinesLike, N, v
    <2>6. Kept(g, strategy) = Kept(o, strategy)
      BY <1>2, <2>3, <2>5, KeptAlike
    <2>7. IsRegion(t, o, strategy, i, e(k))
      BY <2>2, <2>6 DEF IsRegion, g
    <2>8. i \in Nat /\ e(k) \in Nat
      BY <1>7, <2>2
    <2>9. after(k) = e(k) + 1
      BY <1>4
    <2> HIDE DEF i
    <2> QED BY <2>7, <2>8, <2>9 DEF i
  <1>10. ASSUME NEW i \in Nat, NEW c \in Nat, IsRegion(t, o, strategy, i, c)
         PROVE  \E k \in hits : at[k] = i /\ e(k) = c
    <2> DEFINE d == i - 1
               g == SubSeq(t, i, c)
               k == Rank(S, i)
    <2>1. /\ i \in 1..n /\ c \in (i - 1)..n /\ Block(t, d, g)
          /\ c = n => t[c] # "nl"
          /\ Kept(g, strategy) = Kept(o, strategy)
      BY <1>10 DEF IsRegion
    <2>2. g \in Seq(Mark) /\ Len(g) = c - i + 1
      <3>1. i \in 1..(n + 1)
        BY <1>7, <2>1
      <3> QED BY <2>1, <3>1, PieceIs
    <2> HIDE DEF g
    <2>3. LinesLike(strategy, g, o)
      BY <1>2, <2>1, <2>2, KeptAlike
    <2>4. Len(Split(g)) = p /\ \A j \in 1..p : N(Split(g)[j]) = N(v[j])
      BY <2>3 DEF LinesLike, N, v
    <2>5. /\ n + 1 \in Nat /\ S \in SUBSET (1..(n + 1)) /\ 1 \in S
          /\ \A j \in 1..n : j + 1 \in S <=> t[j] = "nl"
      BY StartsAre
    <2>6. d \in Nat /\ d + 1 = i /\ d + Len(g) = c
      BY <1>7, <2>1, <2>2
    <2> HIDE DEF d
    <2>7. i \in S
      <3>1. d = 0 \/ t[d] = "nl"
        BY <2>1 DEF Block
      <3>2. d = 0 \/ d \in 1..n
        BY <1>7, <2>1, <2>6
      <3> QED BY <2>5, <2>6, <3>1, <3>2
    <2>8. k \in 1..q /\ at[k] = i
      <3>1. i <= n
        BY <1>7, <2>1
      <3> HIDE DEF S, at, q
      <3> QED BY <1>7, <2>7, <3>1
    <2>9. Rank(S, d) = k - 1
      <3>1. Rank(S, d) \in Nat /\ Rank(S, d + 1) = IF d + 1 \in S THEN Rank(S, d) + 1 ELSE Rank(S, d)
        <4> HIDE DEF S
        <4> QED BY <2>5, <2>6, RankStep
      <3>2. k = Rank(S, d) + 1
        BY <2>6, <2>7, <3>1
      <3> QED BY <3>1, <3>2
    <2> HIDE DEF k
    <2>10. PICK l \in S : /\ l \in (d + 1)..(d + Len(g) + 1)
                          /\ Rank(S, l) = Rank(S, d) + Len(Split(g))
                          /\ LineEnd(t, l) = d + Len(g)
      BY <2>1, LastOfBlock
    <2>11. l \in i..(c + 1) /\ Rank(S, l) = k - 1 + p /\ LineEnd(t, l) = c
      BY <2>4, <2>6, <2>9, <2>10
    <2>12. l <= n
      <3>1. SUFFICES ASSUME ~(l <= n) PROVE FALSE
        OBVIOUS
      <3>2. l = n + 1 /\ c = n /\ n \in 1..n
        BY <1>7, <2>1, <2>11, <3>1
      <3> QED BY <2>1, <2>5, <3>2
    <2>13. k - 1 + p \in 1..q /\ at[k - 1 + p] = l
      <3> HIDE DEF S, at, q, p
      <3> QED BY <1>7, <2>11, <2>12
    <2>14. k \in 1..(q - p + 1) /\ k + p - 1 = k - 1 + p
      BY <1>3, <1>7, <2>8, <2>13
    <2>15. e(k) = c
      BY <2>11, <2>13, <2>14
    <2>16. ASSUME NEW j \in 1..p PROVE N(line(k + j - 1)) = N(v[j])
      <3>1. \A r \in 1..Len(Split(g)) : Split(t)[Rank(S, d) + r] = Split(g)[r]
        BY <2>1, BlockLines
      <3>2. Split(t)[(k - 1) + j] = Split(g)[j]
        BY <2>4, <2>9, <3>1
      <3>3. (k - 1) + j = k + j - 1 /\ k + j - 1 \in 1..q
        BY <1>3, <1>7, <2>8, <2>14
      <3> QED BY <1>8, <2>4, <3>2, <3>3
    <2>17. k \in hits
      BY <2>14, <2>16
    <2> QED BY <2>8, <2>15, <2>17
  <1> HIDE DEF hits, e, after, at
  <1>11. ASSUME x \in Located(t, old, strategy)
         PROVE  \E i, c \in Nat : IsRegion(t, o, strategy, i, c) /\ x = RegionAt(t, Trailing(old), i, c)
    <2>1. PICK k \in hits :
            x = [start |-> at[k],
                 end   |-> IF Last(old) = "nl" /\ after(k) <= Len(t) THEN after(k) + 1 ELSE after(k)]
      BY <1>1, <1>5, <1>11
    <2>2. /\ at[k] \in Nat /\ e(k) \in Nat /\ IsRegion(t, o, strategy, at[k], e(k))
          /\ after(k) = e(k) + 1 /\ e(k) + 2 = e(k) + 1 + 1
      BY <1>9
    <2>3. x = RegionAt(t, Trailing(old), at[k], e(k))
      BY <1>6, <2>1, <2>2
    <2> QED BY <2>2, <2>3
  <1>12. ASSUME NEW i \in Nat, NEW c \in Nat, IsRegion(t, o, strategy, i, c),
                x = RegionAt(t, Trailing(old), i, c)
         PROVE  x \in Located(t, old, strategy)
    <2>1. PICK k \in hits : at[k] = i /\ e(k) = c
      BY <1>10, <1>12
    <2>2. after(k) = e(k) + 1 /\ e(k) + 2 = e(k) + 1 + 1
      BY <1>9
    <2>3. x = [start |-> at[k],
               end   |-> IF Last(old) = "nl" /\ after(k) <= Len(t) THEN after(k) + 1 ELSE after(k)]
      BY <1>6, <1>12, <2>1, <2>2
    <2> QED BY <1>1, <1>5, <2>3
  <1> QED BY <1>11, <1>12 DEF o

\* What Similar asks of the region from i up to, not including, j.
Matches(t, old, strategy, i, j) ==
  LET region == SubSeq(t, i, j - 1)
      alike  == Kept(region, strategy) = Kept(old, strategy)
      atEnd  == j = Len(t) + 1
  IN /\ i <= j
     /\ i > 1 => t[i - 1] = "nl"
     /\ \/ ~Trailing(old) /\ atEnd /\ t[Len(t)] # "nl" /\ alike
        \/ ~Trailing(old) /\ ~atEnd /\ t[j] = "nl" /\ alike
        \/ Trailing(old) /\ region # <<>> /\ Last(region) = "nl" /\ alike
        \/ /\ Trailing(old) /\ atEnd /\ region # <<>> /\ Last(region) # "nl"
           /\ Append(Kept(region, strategy), "nl") = Kept(old, strategy)

LEMMA SimilarIs ==
  ASSUME NEW t, NEW old, NEW strategy, NEW x
  PROVE  x \in Similar(t, old, strategy) <=>
           \E i \in 1..Len(t), j \in 1..(Len(t) + 1) :
             x = [start |-> i, end |-> j] /\ Matches(t, old, strategy, i, j)
  <1> DEFINE n == Len(t)
             R == [start : 1..n, end : 1..(n + 1)]
             m(y) == Matches(t, old, strategy, y.start, y.end)
  <1>1. Similar(t, old, strategy) = {y \in R : m(y)}
    BY DEF Similar, Matches, Trailing, Last
  <1> HIDE DEF n, m
  <1>2. ASSUME x \in R PROVE x.start \in 1..n /\ x.end \in 1..(n + 1) /\ x = [start |-> x.start, end |-> x.end]
    BY <1>2
  <1>3. ASSUME NEW i \in 1..n, NEW j \in 1..(n + 1), x = [start |-> i, end |-> j]
        PROVE  x \in R /\ x.start = i /\ x.end = j
    BY <1>3
  <1> HIDE DEF R
  <1> QED BY <1>1, <1>2, <1>3 DEF m, n

\* Texts that end in a newline are equal if they are equal before it.
LEMMA TailEqual ==
  ASSUME NEW a \in Seq(Mark), NEW b \in Seq(Mark), NEW x, NEW u, Parts(a, x, <<>>), Parts(b, u, <<>>)
  PROVE  a = b <=> x = u
  <1>1. Len(<<>>) = 0
    OBVIOUS
  <1>2. /\ x \in Seq(Mark) /\ Len(x) \in Nat /\ Len(a) = Len(x) + 1
        /\ \A i \in 1..Len(x) : a[i] = x[i]
        /\ a[Len(x) + 1] = "nl"
    <2>1. Len(x) \in Nat
      BY LenProperties DEF Parts
    <2>2. Len(x) + 1 + 0 = Len(x) + 1
      BY <2>1
    <2> QED BY <1>1, <2>1, <2>2 DEF Parts
  <1>3. /\ u \in Seq(Mark) /\ Len(u) \in Nat /\ Len(b) = Len(u) + 1
        /\ \A i \in 1..Len(u) : b[i] = u[i]
        /\ b[Len(u) + 1] = "nl"
    <2>1. Len(u) \in Nat
      BY LenProperties DEF Parts
    <2>2. Len(u) + 1 + 0 = Len(u) + 1
      BY <2>1
    <2> QED BY <1>1, <2>1, <2>2 DEF Parts
  <1>4. ASSUME a = b PROVE x = u
    <2>1. Len(x) = Len(u)
      BY <1>2, <1>3, <1>4
    <2>2. \A i \in 1..Len(x) : x[i] = u[i]
      BY <1>2, <1>3, <1>4, <2>1
    <2> QED BY <1>2, <1>3, <2>1, <2>2, SeqEqual
  <1>5. ASSUME x = u PROVE a = b
    <2>1. Len(a) = Len(b)
      BY <1>2, <1>3, <1>5
    <2>2. ASSUME NEW i \in 1..Len(a) PROVE a[i] = b[i]
      <3>1. i \in 1..Len(x) \/ i = Len(x) + 1
        BY <1>2
      <3> QED BY <1>2, <1>3, <1>5, <3>1
    <2> QED BY <2>1, <2>2, SeqEqual
  <1> QED BY <1>4, <1>5

LEMMA AppendParts ==
  ASSUME NEW a \in Seq(Mark), "nl" \in Mark
  PROVE  Append(a, "nl") \in Seq(Mark) /\ Parts(Append(a, "nl"), a, <<>>)
  <1> DEFINE b == Append(a, "nl")
  <1>1. /\ b \in Seq(Mark) /\ Len(b) = Len(a) + 1
        /\ \A i \in 1..Len(a) : b[i] = a[i]
        /\ b[Len(a) + 1] = "nl"
    BY AppendProperties
  <1>2. <<>> \in Seq(Mark) /\ Len(<<>>) = 0 /\ Len(a) \in Nat
    BY EmptySeq, LenProperties
  <1> HIDE DEF b
  <1>3. Len(b) = Len(a) + 1 + Len(<<>>)
    BY <1>1, <1>2
  <1>4. \A j \in 1..Len(<<>>) : b[Len(a) + 1 + j] = <<>>[j]
    <2>1. \A j \in 1..0 : FALSE
      OBVIOUS
    <2> QED BY <1>2, <2>1
  <1> QED BY <1>1, <1>2, <1>3, <1>4 DEF Parts, b

LEMMA KeptNothing ==
  ASSUME NEW strategy
  PROVE  Kept(<<>>, strategy) = <<>>
  <1> DEFINE P == Places(<<>>, strategy)
             K == Kept(<<>>, strategy)
  <1>1. <<>> \in Seq(Mark) /\ Len(<<>>) = 0
    BY EmptySeq
  <1>2. K \in Seq(Mark) /\ P \in SUBSET (1..0) /\ Len(K) = Rank(P, 0)
    BY <1>1, KeptIs
  <1> HIDE DEF K, P
  <1>3. Rank(P, 0) = 0
    BY <1>2, RankStep
  <1> QED BY <1>2, <1>3, EmptySeq DEF K

\* A text that ends in a newline is kept as what is before it, and the newline.
LEMMA KeptBody ==
  ASSUME NEW old \in Seq(Mark), old # <<>>, Trailing(old), NEW strategy
  PROVE  Parts(Kept(old, strategy), Kept(Body(old), strategy), <<>>) /\ Kept(old, strategy) \in Seq(Mark)
  BY BodyIs, KeptParts, KeptNothing, KeptIs

\* Without a newline at the end of old.
LEMMA MatchesPlain ==
  ASSUME NEW t \in Seq(Mark), NEW old \in Seq(Mark), old # <<>>, ~Trailing(old), NEW strategy,
         NEW i \in 1..Len(t), NEW e \in Int
  PROVE  e + 1 \in 1..(Len(t) + 1) /\ Matches(t, old, strategy, i, e + 1) <=>
           e \in Nat /\ IsRegion(t, Body(old), strategy, i, e)
  <1> DEFINE n == Len(t)
             g == SubSeq(t, i, e)
             alike == Kept(g, strategy) = Kept(old, strategy)
             up == i > 1 => t[i - 1] = "nl"
             down == e = n \/ t[e + 1] = "nl"
             inside == e \in (i - 1)..n
  <1>0. Body(old) = old
    BY BodyIs
  <1>1. n \in Nat /\ i \in 1..n /\ i \in Nat /\ 1 <= i /\ i <= n /\ (e + 1) - 1 = e
    BY LenProperties
  <1>2. Matches(t, old, strategy, i, e + 1) <=>
          /\ i <= e + 1 /\ up
          /\ \/ e + 1 = n + 1 /\ t[n] # "nl" /\ alike
             \/ e + 1 # n + 1 /\ t[e + 1] = "nl" /\ alike
    BY <1>1 DEF Matches
  <1>3. IsRegion(t, Body(old), strategy, i, e) <=>
          /\ inside /\ Block(t, i - 1, g)
          /\ e = n => t[e] # "nl"
          /\ alike
    BY <1>0 DEF IsRegion
  <1>4. ASSUME inside PROVE Block(t, i - 1, g) <=> up /\ down
    <2>1. g \in Seq(Mark) /\ Len(g) = e - i + 1 /\ \A k \in 1..(e - i + 1) : g[k] = t[(i - 1) + k]
      <3>1. i \in 1..(n + 1)
        BY <1>1
      <3> QED BY <1>4, <3>1, PieceIs
    <2> HIDE DEF g, n
    <2>2. (i - 1) + Len(g) = e /\ i - 1 \in Nat /\ (i - 1 = 0 <=> ~(i > 1))
      BY <1>1, <2>1
    <2>3. e <= n
      BY <1>1, <1>4
    <2> QED BY <2>1, <2>2, <2>3 DEF Block, n
  <1> HIDE DEF n, alike, up, g
  <1>5. inside <=> i <= e + 1 /\ e + 1 <= n + 1
    BY <1>1
  <1>6. inside => e \in Nat /\ e + 1 \in 1..(n + 1)
    BY <1>1
  <1>7. e + 1 = n + 1 <=> e = n
    BY <1>1
  <1>8. e + 1 \in 1..(n + 1) => e + 1 <= n + 1
    BY <1>1
  <1> HIDE DEF inside
  <1> QED BY <1>2, <1>3, <1>4, <1>5, <1>6, <1>7, <1>8 DEF n

LEMMA BlockIs ==
  ASSUME NEW t \in Seq(Mark), NEW i \in 1..Len(t), NEW e \in (i - 1)..Len(t)
  PROVE  Block(t, i - 1, SubSeq(t, i, e)) <=>
           (i > 1 => t[i - 1] = "nl") /\ (e = Len(t) \/ t[e + 1] = "nl")
  <1> DEFINE n == Len(t)
             g == SubSeq(t, i, e)
  <1>1. n \in Nat /\ i \in 1..n /\ i \in Nat /\ 1 <= i /\ i <= n /\ e \in (i - 1)..n
    BY LenProperties
  <1>2. g \in Seq(Mark) /\ Len(g) = e - i + 1 /\ \A k \in 1..(e - i + 1) : g[k] = t[(i - 1) + k]
    <2>1. i \in 1..(n + 1)
      BY <1>1
    <2> QED BY <2>1, PieceIs
  <1> HIDE DEF g, n
  <1>3. (i - 1) + Len(g) = e /\ i - 1 \in Nat /\ (i - 1 = 0 <=> ~(i > 1))
    BY <1>1, <1>2
  <1>4. e <= n
    BY <1>1
  <1>5. Block(t, i - 1, g) <=> (i > 1 => t[i - 1] = "nl") /\ (e = n \/ t[e + 1] = "nl")
    BY <1>2, <1>3, <1>4 DEF Block, n
  <1> QED BY <1>5 DEF n, g

\* A piece of a text that ends in a newline.
LEMMA PieceEnds ==
  ASSUME NEW t \in Seq(Mark), NEW i \in 1..Len(t), NEW e \in (i - 1)..(Len(t) - 1)
  PROVE  /\ SubSeq(t, i, e + 1) \in Seq(Mark) /\ SubSeq(t, i, e + 1) # <<>>
         /\ Last(SubSeq(t, i, e + 1)) = t[e + 1]
         /\ SubSeq(t, i, e) \in Seq(Mark)
         /\ t[e + 1] = "nl" => Parts(SubSeq(t, i, e + 1), SubSeq(t, i, e), <<>>)
  <1> DEFINE n == Len(t)
             g == SubSeq(t, i, e)
             w == SubSeq(t, i, e + 1)
             m == e - i + 1
  <1>1. n \in Nat /\ i \in Nat /\ 1 <= i /\ i <= n /\ e \in Int /\ i - 1 <= e /\ e <= n - 1
    BY LenProperties
  <1>2. i \in 1..(n + 1) /\ e \in (i - 1)..n /\ e + 1 \in (i - 1)..n
    BY <1>1
  <1>3. g \in Seq(Mark) /\ Len(g) = m /\ \A k \in 1..m : g[k] = t[(i - 1) + k]
    BY <1>2, PieceIs
  <1>4. /\ w \in Seq(Mark) /\ Len(w) = (e + 1) - i + 1
        /\ \A k \in 1..((e + 1) - i + 1) : w[k] = t[(i - 1) + k]
    BY <1>2, PieceIs
  <1>5. m \in Nat /\ (e + 1) - i + 1 = m + 1 /\ (i - 1) + (m + 1) = e + 1 /\ m + 1 \in 1..(m + 1)
    BY <1>1
  <1> HIDE DEF m, g, w, n
  <1>6. Len(w) = m + 1 /\ w[m + 1] = t[e + 1] /\ \A k \in 1..m : w[k] = g[k]
    <2>1. \A k \in 1..m : k \in 1..(m + 1)
      BY <1>5
    <2> QED BY <1>3, <1>4, <1>5, <2>1
  <1>7. w # <<>> /\ Last(w) = t[e + 1]
    <2>1. Len(w) # 0
      BY <1>5, <1>6
    <2> QED BY <1>6, <2>1 DEF Last
  <1>8. ASSUME t[e + 1] = "nl" PROVE Parts(w, g, <<>>)
    <2>1. <<>> \in Seq(Mark) /\ Len(<<>>) = 0
      BY EmptySeq
    <2>2. Len(w) = Len(g) + 1 + Len(<<>>)
      BY <1>3, <1>5, <1>6, <2>1
    <2>3. \A j \in 1..Len(<<>>) : w[Len(g) + 1 + j] = <<>>[j]
      <3>1. \A j \in 1..0 : FALSE
        OBVIOUS
      <3> QED BY <2>1, <3>1
    <2>4. w[Len(g) + 1] = "nl"
      BY <1>3, <1>6, <1>8
    <2>5. \A k \in 1..Len(g) : w[k] = g[k]
      BY <1>3, <1>6
    <2> QED BY <1>3, <2>1, <2>2, <2>3, <2>4, <2>5 DEF Parts
  <1> QED BY <1>3, <1>4, <1>7, <1>8 DEF w, g

\* With a newline at the end of old.
LEMMA MatchesTrailing ==
  ASSUME NEW t \in Seq(Mark), NEW old \in Seq(Mark), old # <<>>, Trailing(old), NEW strategy,
         NEW i \in 1..Len(t), NEW j \in 1..(Len(t) + 1)
  PROVE  Matches(t, old, strategy, i, j) <=>
           \E e \in Nat : /\ IsRegion(t, Body(old), strategy, i, e)
                          /\ j = IF e + 1 <= Len(t) THEN e + 2 ELSE e + 1
  <1> DEFINE n == Len(t)
             K(s) == Kept(s, strategy)
             o == Body(old)
             p(e) == SubSeq(t, i, e)
             w == p(j - 1)
             up == i > 1 => t[i - 1] = "nl"
  <1>1. n \in Nat /\ i \in Int /\ 1 <= i /\ i <= n /\ j \in Int /\ 1 <= j /\ j <= n + 1
    BY LenProperties
  <1>2. /\ o \in Seq(Mark) /\ Parts(K(old), K(o), <<>>) /\ K(old) \in Seq(Mark)
        /\ "nl" \in Mark
    <2>1. "nl" \in Mark
      <3>1. Len(old) \in 1..Len(old) /\ old[Len(old)] = "nl"
        BY BodyIs
      <3> QED BY <3>1, ElementOfSeq
    <2> QED BY <2>1, BodyIs, KeptBody
  <1>3. Matches(t, old, strategy, i, j) <=>
          /\ i <= j /\ up
          /\ \/ w # <<>> /\ Last(w) = "nl" /\ K(w) = K(old)
             \/ j = n + 1 /\ w # <<>> /\ Last(w) # "nl" /\ Append(K(w), "nl") = K(old)
    BY DEF Matches
  <1>4. \A e \in Nat : IsRegion(t, o, strategy, i, e) <=>
          /\ e \in (i - 1)..n /\ Block(t, i - 1, p(e))
          /\ e = n => t[e] # "nl"
          /\ K(p(e)) = K(o)
    BY DEF IsRegion
  <1>5. \A e \in (i - 1)..n : Block(t, i - 1, p(e)) <=> up /\ (e = n \/ t[e + 1] = "nl")
    BY BlockIs
  <1>6. \A e \in (i - 1)..(n - 1) :
          /\ p(e + 1) \in Seq(Mark) /\ p(e + 1) # <<>>
          /\ Last(p(e + 1)) = t[e + 1]
          /\ p(e) \in Seq(Mark)
          /\ t[e + 1] = "nl" => Parts(p(e + 1), p(e), <<>>)
    BY PieceEnds
  <1>7. j - 1 = i - 1 => w = <<>>
    <2>1. ASSUME j - 1 = i - 1 PROVE w = <<>>
      <3>1. i \in 1..(n + 1) /\ j - 1 \in (i - 1)..n /\ (j - 1) - i + 1 = 0
        BY <1>1, <2>1
      <3>2. w \in Seq(Mark) /\ Len(w) = 0
        BY <3>1, PieceIs
      <3> QED BY <3>2, EmptySeq
    <2> QED BY <2>1
  <1> HIDE DEF n, o, p, K, up
  <1>8. ASSUME NEW e \in (i - 1)..(n - 1), t[e + 1] = "nl"
        PROVE  K(p(e + 1)) = K(old) <=> K(p(e)) = K(o)
    <2>1. p(e + 1) \in Seq(Mark) /\ p(e) \in Seq(Mark) /\ Parts(p(e + 1), p(e), <<>>)
      BY <1>6, <1>8
    <2>2. Parts(K(p(e + 1)), K(p(e)), <<>>) /\ K(p(e + 1)) \in Seq(Mark)
      BY <2>1, KeptParts, KeptNothing, KeptIs DEF K
    <2> QED BY <1>2, <2>2, TailEqual
  <1>9. ASSUME NEW s \in Seq(Mark)
        PROVE  Append(K(s), "nl") = K(old) <=> K(s) = K(o)
    <2>1. K(s) \in Seq(Mark)
      BY KeptIs DEF K
    <2>2. Append(K(s), "nl") \in Seq(Mark) /\ Parts(Append(K(s), "nl"), K(s), <<>>)
      BY <1>2, <2>1, AppendParts
    <2> QED BY <1>2, <2>2, TailEqual
  <1>10. ASSUME Matches(t, old, strategy, i, j)
         PROVE  \E e \in Nat : /\ IsRegion(t, o, strategy, i, e)
                               /\ j = IF e + 1 <= n THEN e + 2 ELSE e + 1
    <2>1. i <= j /\ up /\ w # <<>>
      BY <1>3, <1>10
    <2>2. i < j
      BY <1>1, <1>7, <2>1
    <2> DEFINE e == j - 2
    <2>3. e \in (i - 1)..(n - 1) /\ e + 1 = j - 1 /\ e \in Nat /\ e \in (i - 1)..n
      BY <1>1, <2>2
    <2>4. CASE Last(w) = "nl" /\ K(w) = K(old)
      <3> HIDE DEF e
      <3>1. t[e + 1] = "nl"
        BY <1>6, <2>3, <2>4
      <3>2. K(p(e)) = K(o)
        BY <1>8, <2>3, <2>4, <3>1
      <3>3. e # n
        BY <1>1, <2>3
      <3>4. IsRegion(t, o, strategy, i, e)
        BY <1>4, <1>5, <2>1, <2>3, <3>1, <3>2, <3>3
      <3>5. j = IF e + 1 <= n THEN e + 2 ELSE e + 1
        BY <1>1, <2>3
      <3> QED BY <2>3, <3>4, <3>5
    <2>5. CASE j = n + 1 /\ Last(w) # "nl" /\ Append(K(w), "nl") = K(old)
      <3>1. j - 1 = n /\ n \in (i - 1)..n /\ n = IF n + 1 <= n THEN n + 2 ELSE n
        BY <1>1, <2>5
      <3>2. t[n] # "nl" /\ w \in Seq(Mark)
        <4> HIDE DEF e
        <4> QED BY <1>6, <2>3, <2>5, <3>1
      <3>3. K(p(n)) = K(o)
        BY <1>9, <2>5, <3>1, <3>2
      <3>4. IsRegion(t, o, strategy, i, n)
        BY <1>1, <1>4, <1>5, <2>1, <3>1, <3>2, <3>3
      <3>5. j = IF n + 1 <= n THEN n + 2 ELSE n + 1
        BY <1>1, <2>5
      <3> QED BY <1>1, <3>4, <3>5
    <2> QED BY <1>3, <1>10, <2>4, <2>5
  <1>11. ASSUME NEW e \in Nat, IsRegion(t, o, strategy, i, e), j = IF e + 1 <= n THEN e + 2 ELSE e + 1
         PROVE  Matches(t, old, strategy, i, j)
    <2>1. /\ e \in (i - 1)..n /\ up /\ (e = n \/ t[e + 1] = "nl")
          /\ e = n => t[e] # "nl"
          /\ K(p(e)) = K(o)
      BY <1>4, <1>5, <1>11
    <2>2. CASE e + 1 <= n
      <3>1. e \in (i - 1)..(n - 1) /\ e # n /\ j - 1 = e + 1 /\ i <= j
        BY <1>1, <1>11, <2>1, <2>2
      <3>2. t[e + 1] = "nl" /\ w # <<>> /\ Last(w) = "nl"
        BY <1>6, <2>1, <3>1
      <3>3. K(w) = K(old)
        BY <1>8, <2>1, <3>1, <3>2
      <3> QED BY <1>3, <2>1, <3>1, <3>2, <3>3
    <2>3. CASE ~(e + 1 <= n)
      <3>1. e = n /\ j = n + 1 /\ j - 1 = e /\ i <= j /\ n - 1 \in (i - 1)..(n - 1) /\ (n - 1) + 1 = n
        BY <1>1, <1>11, <2>1, <2>3
      <3>2. t[n] # "nl" /\ w \in Seq(Mark) /\ w # <<>> /\ Last(w) = t[n]
        BY <1>6, <2>1, <3>1
      <3>3. Append(K(w), "nl") = K(old)
        BY <1>9, <2>1, <3>1, <3>2
      <3> QED BY <1>3, <2>1, <3>1, <3>2, <3>3
    <2> QED BY <2>2, <2>3
  <1> QED BY <1>10, <1>11 DEF n, o

\* What Located finds is what Similar says.
LEMMA LocatedIsSimilar ==
  ASSUME NEW t \in Seq(Mark), NEW old \in Seq(Mark), old # <<>>, NEW strategy \in Strategies
  PROVE  Located(t, old, strategy) = Similar(t, old, strategy)
  <1> DEFINE n == Len(t)
             region(i, e) == IsRegion(t, Body(old), strategy, i, e)
             match(i, j) == Matches(t, old, strategy, i, j)
             end(e) == IF Trailing(old) /\ e + 1 <= n THEN e + 2 ELSE e + 1
  <1>1. \A x : x \in Located(t, old, strategy) <=>
                 \E i, e \in Nat : region(i, e) /\ x = [start |-> i, end |-> end(e)]
    BY LocatedRegions DEF RegionAt
  <1>2. \A x : x \in Similar(t, old, strategy) <=>
                 \E i \in 1..n, j \in 1..(n + 1) : x = [start |-> i, end |-> j] /\ match(i, j)
    BY SimilarIs
  <1>3. n \in Nat
    BY LenProperties
  <1>4. \A i, e \in Nat : region(i, e) => i \in 1..n /\ e \in (i - 1)..n
    BY DEF IsRegion
  <1>5. ASSUME NEW i \in 1..n, NEW j \in 1..(n + 1)
        PROVE  match(i, j) <=> \E e \in Nat : region(i, e) /\ j = end(e)
    <2>1. CASE Trailing(old)
      <3>1. match(i, j) <=> \E e \in Nat : region(i, e) /\ j = IF e + 1 <= n THEN e + 2 ELSE e + 1
        BY <2>1, MatchesTrailing
      <3> HIDE DEF match, region, n
      <3> QED BY <2>1, <3>1
    <2>2. CASE ~Trailing(old)
      <3>1. \A e \in Int : e + 1 \in 1..(n + 1) /\ match(i, e + 1) <=> e \in Nat /\ region(i, e)
        BY <2>2, MatchesPlain
      <3>2. \A e : end(e) = e + 1
        BY <2>2
      <3>3. j - 1 \in Int /\ (j - 1) + 1 = j
        BY <1>3
      <3>4. \A e \in Nat : j = e + 1 => e = j - 1
        OBVIOUS
      <3> HIDE DEF match, region, n, end
      <3> QED BY <3>1, <3>2, <3>3, <3>4
    <2> QED BY <2>1, <2>2
  <1>6. ASSUME NEW i \in Nat, NEW e \in Nat, region(i, e) PROVE end(e) \in 1..(n + 1)
    <2>1. e \in Nat /\ e <= n
      BY <1>3, <1>4, <1>6
    <2> QED BY <1>3, <2>1
  <1>7. \A i \in 1..n : i \in Nat
    BY <1>3
  <1> HIDE DEF region, match, end, n
  <1>8. \A x : x \in Located(t, old, strategy) <=> x \in Similar(t, old, strategy)
    <2>1. ASSUME NEW x, x \in Located(t, old, strategy) PROVE x \in Similar(t, old, strategy)
      <3>1. PICK i \in Nat, e \in Nat : region(i, e) /\ x = [start |-> i, end |-> end(e)]
        BY <1>1, <2>1
      <3>2. i \in 1..n /\ end(e) \in 1..(n + 1)
        BY <1>4, <1>6, <3>1
      <3>3. match(i, end(e))
        BY <1>5, <3>1, <3>2
      <3> QED BY <1>2, <3>1, <3>2, <3>3
    <2>2. ASSUME NEW x, x \in Similar(t, old, strategy) PROVE x \in Located(t, old, strategy)
      <3>1. PICK i \in 1..n, j \in 1..(n + 1) : x = [start |-> i, end |-> j] /\ match(i, j)
        BY <1>2, <2>2
      <3>2. PICK e \in Nat : region(i, e) /\ j = end(e)
        BY <1>5, <3>1
      <3> QED BY <1>1, <1>7, <3>1, <3>2
    <2> QED BY <2>1, <2>2
  <1> QED BY <1>8

(***************************************************************************)
(* The occurrences that are replaced                                       *)
(***************************************************************************)

\* The search from left to right, as far as k.
TakenUpTo(text, old, g, n) ==
  /\ g \in [0..n -> SUBSET (1..n)] /\ g[0] = {}
  /\ \A k \in 1..n : g[k] = IF OccursAt(old, text, k) /\ \A j \in g[k - 1] : j + Len(old) <= k
                            THEN g[k - 1] \cup {k} ELSE g[k - 1]

LEMMA TakenExists ==
  ASSUME NEW text, NEW old, NEW n \in Nat
  PROVE  \E g : TakenUpTo(text, old, g, n)
  <1> DEFINE D == SUBSET (1..n)
             fits(k, T) == k \in 1..n /\ OccursAt(old, text, k) /\ \A j \in T : j + Len(old) <= k
             F == [p \in Nat \X D |-> IF fits(p[1], p[2]) THEN p[2] \cup {p[1]} ELSE p[2]]
  <1>1. F \in [Nat \X D -> D]
    <2>1. ASSUME NEW p \in Nat \X D PROVE (IF fits(p[1], p[2]) THEN p[2] \cup {p[1]} ELSE p[2]) \in D
      <3>1. p[2] \in D
        OBVIOUS
      <3>2. fits(p[1], p[2]) => p[1] \in 1..n
        OBVIOUS
      <3> HIDE DEF fits
      <3> QED BY <3>1, <3>2
    <2> HIDE DEF fits, D
    <2> QED BY <2>1
  <1>2. ASSUME NEW k \in 1..n, NEW T \in D
        PROVE  F[<<k, T>>] = IF OccursAt(old, text, k) /\ \A j \in T : j + Len(old) <= k
                             THEN T \cup {k} ELSE T
    <2>1. <<k, T>> \in Nat \X D /\ <<k, T>>[1] = k /\ <<k, T>>[2] = T
      <3>1. k \in Nat
        OBVIOUS
      <3> HIDE DEF D
      <3> QED BY <3>1
    <2>2. F[<<k, T>>] = IF fits(k, T) THEN T \cup {k} ELSE T
      <3> HIDE DEF fits, D
      <3> QED BY <2>1
    <2>3. fits(k, T) <=> OccursAt(old, text, k) /\ \A j \in T : j + Len(old) <= k
      OBVIOUS
    <2> HIDE DEF F, fits
    <2> QED BY <2>2, <2>3
  <1>3. {} \in D
    OBVIOUS
  <1> HIDE DEF F
  <1>4. PICK g : IsRecursion(g, D, {}, F, n)
    <2> HIDE DEF D
    <2> QED BY <1>1, <1>3, Recursion
  <1>5. g \in [0..n -> D] /\ g[0] = {} /\ \A k \in 1..n : g[k] = F[<<k, g[k - 1]>>]
    BY <1>4 DEF IsRecursion
  <1>6. \A k \in 1..n : g[k - 1] \in D
    <2>1. \A k \in 1..n : k - 1 \in 0..n
      OBVIOUS
    <2> HIDE DEF D
    <2> QED BY <1>5, <2>1
  <1>7. \A k \in 1..n : g[k] = IF OccursAt(old, text, k) /\ \A j \in g[k - 1] : j + Len(old) <= k
                               THEN g[k - 1] \cup {k} ELSE g[k - 1]
    BY <1>2, <1>5, <1>6
  <1> QED BY <1>5, <1>7 DEF TakenUpTo

\* What was taken up to k stays, and nothing else of 1..k is added.
LEMMA TakenStays ==
  ASSUME NEW text, NEW old, NEW n \in Nat, NEW g, TakenUpTo(text, old, g, n)
  PROVE  /\ \A k \in 0..n : g[k] \in SUBSET (1..k)
         /\ \A k \in 1..n : \A j \in 1..k : j \in g[n] <=> j \in g[k]
  <1>1. /\ g \in [0..n -> SUBSET (1..n)] /\ g[0] = {}
        /\ \A k \in 1..n : g[k] = g[k - 1] \cup {k} \/ g[k] = g[k - 1]
    BY DEF TakenUpTo
  <1>2. \A k \in 0..n : g[k] \in SUBSET (1..k)
    <2> DEFINE I == {k \in Nat : k <= n => g[k] \in SUBSET (1..k)}
    <2>1. 0 \in I
      BY <1>1
    <2>2. ASSUME NEW k \in I PROVE k + 1 \in I
      <3>1. k \in Nat /\ (k <= n => g[k] \in SUBSET (1..k))
        OBVIOUS
      <3>2. SUFFICES ASSUME k + 1 <= n PROVE g[k + 1] \in SUBSET (1..(k + 1))
        BY <3>1
      <3>3. k <= n /\ k + 1 \in 1..n /\ (k + 1) - 1 = k
        BY <3>1, <3>2
      <3>4. g[k + 1] = g[k] \cup {k + 1} \/ g[k + 1] = g[k]
        BY <1>1, <3>3
      <3>5. g[k] \in SUBSET (1..(k + 1)) /\ k + 1 \in 1..(k + 1)
        BY <3>1, <3>3
      <3> QED BY <3>4, <3>5
    <2>3. I \in SUBSET Nat
      OBVIOUS
    <2> HIDE DEF I
    <2>4. I = Nat
      BY <2>1, <2>2, <2>3, SetInduction
    <2>5. ASSUME NEW k \in 0..n PROVE g[k] \in SUBSET (1..k)
      <3>1. k \in Nat /\ k <= n
        OBVIOUS
      <3> QED BY <2>4, <3>1 DEF I
    <2> QED BY <2>5
  <1>3. ASSUME NEW j \in 1..n PROVE \A k \in 0..n : j <= k => (j \in g[k] <=> j \in g[j])
    <2> DEFINE I == {i \in Nat : j + i <= n => (j \in g[j + i] <=> j \in g[j])}
    <2>1. 0 \in I
      <3>1. j + 0 = j
        OBVIOUS
      <3> QED BY <3>1
    <2>2. ASSUME NEW i \in I PROVE i + 1 \in I
      <3>1. i \in Nat /\ (j + i <= n => (j \in g[j + i] <=> j \in g[j]))
        OBVIOUS
      <3>2. SUFFICES ASSUME j + (i + 1) <= n PROVE j \in g[j + (i + 1)] <=> j \in g[j]
        BY <3>1
      <3> DEFINE k == j + (i + 1)
      <3>3. j + i <= n /\ k \in 1..n /\ k - 1 = j + i /\ j # k
        BY <3>1, <3>2
      <3> HIDE DEF k
      <3>4. j \in g[k] <=> j \in g[k - 1]
        BY <1>1, <3>3
      <3> QED BY <3>1, <3>3, <3>4 DEF k
    <2>3. I \in SUBSET Nat
      OBVIOUS
    <2> HIDE DEF I
    <2>4. I = Nat
      BY <2>1, <2>2, <2>3, SetInduction
    <2>5. ASSUME NEW k \in 0..n, j <= k PROVE j \in g[k] <=> j \in g[j]
      <3>1. k - j \in Nat /\ j + (k - j) = k /\ k <= n
        BY <2>5
      <3>2. j + (k - j) <= n => (j \in g[j + (k - j)] <=> j \in g[j])
        BY <2>4, <3>1 DEF I
      <3> QED BY <3>1, <3>2
    <2> QED BY <2>5
  <1>4. ASSUME NEW k \in 1..n, NEW j \in 1..k PROVE j \in g[n] <=> j \in g[k]
    <2>1. j \in 1..n /\ k \in 0..n /\ n \in 0..n /\ j <= k /\ j <= n
      OBVIOUS
    <2> QED BY <1>3, <2>1
  <1> QED BY <1>2, <1>4

\* An occurrence is taken unless it overlaps with one that was.
LEMMA FoundIs ==
  ASSUME NEW text \in Seq(Mark), NEW old
  PROVE  /\ Found(text, old) \in SUBSET (1..Len(text))
         /\ \A i \in 1..Len(text) :
              i \in Found(text, old) <=>
                /\ OccursAt(old, text, i)
                /\ \A j \in Found(text, old) : j < i => j + Len(old) <= i
  <1> DEFINE n == Len(text)
             occurs(i) == OccursAt(old, text, i)
             body(f) == [i \in 1..n |-> occurs(i) /\ \A j \in 1..(i - 1) : f[j] => j + Len(old) <= i]
             h == CHOOSE f : f = body(f)
  <1>1. n \in Nat
    BY LenProperties
  <1>2. Found(text, old) = {i \in 1..n : h[i]}
    BY DEF Found
  <1> HIDE DEF n, h
  <1>3. \E f : f = body(f)
    <2>1. PICK g : TakenUpTo(text, old, g, n)
      BY <1>1, TakenExists
    <2>2. /\ \A k \in 0..n : g[k] \in SUBSET (1..k)
          /\ \A k \in 1..n : \A j \in 1..k : j \in g[n] <=> j \in g[k]
      BY <1>1, <2>1, TakenStays
    <2>3. \A k \in 1..n : g[k] = IF occurs(k) /\ \A j \in g[k - 1] : j + Len(old) <= k
                                 THEN g[k - 1] \cup {k} ELSE g[k - 1]
      BY <2>1 DEF TakenUpTo
    <2> HIDE DEF occurs
    <2> DEFINE f == [i \in 1..n |-> i \in g[n]]
    <2>4. ASSUME NEW i \in 1..n
          PROVE  i \in g[n] <=> occurs(i) /\ \A j \in 1..(i - 1) : j \in g[n] => j + Len(old) <= i
      <3>1. i - 1 \in 0..n /\ g[i - 1] \in SUBSET (1..(i - 1)) /\ i \notin g[i - 1]
        <4>1. i - 1 \in 0..n
          BY <1>1
        <4>2. g[i - 1] \in SUBSET (1..(i - 1))
          BY <2>2, <4>1
        <4>3. i \notin 1..(i - 1)
          BY <1>1
        <4> QED BY <4>1, <4>2, <4>3
      <3>2. i \in g[n] <=> i \in g[i]
        <4>1. i \in 1..i
          BY <1>1
        <4> QED BY <2>2, <4>1
      <3>3. i \in g[i] <=> occurs(i) /\ \A j \in g[i - 1] : j + Len(old) <= i
        BY <2>3, <3>1
      <3>4. \A j \in 1..(i - 1) : j \in g[n] <=> j \in g[i - 1]
        <4>1. ASSUME NEW j \in 1..(i - 1) PROVE j \in g[n] <=> j \in g[i - 1]
          <5>1. i - 1 \in 1..n
            BY <1>1
          <5> QED BY <2>2, <5>1
        <4> QED BY <4>1
      <3> QED BY <3>1, <3>2, <3>3, <3>4
    <2>5. \A i \in 1..n : \A j \in 1..(i - 1) : j \in 1..n
      BY <1>1
    <2>6. \A i \in 1..n : \A j \in 1..(i - 1) : f[j] = (j \in g[n])
      BY <2>5
    <2>7. body(f) = [i \in 1..n |-> occurs(i) /\ \A j \in 1..(i - 1) : j \in g[n] => j + Len(old) <= i]
      BY <2>6, Zenon
    <2>8. \A i \in 1..n : (i \in g[n]) = (occurs(i) /\ \A j \in 1..(i - 1) : j \in g[n] => j + Len(old) <= i)
      BY <2>4
    <2>9. f = body(f)
      BY <2>7, <2>8, Zenon
    <2> QED BY <2>9
  <1>4. h = body(h)
    BY <1>3 DEF h
  <1>5. \A i \in 1..n : h[i] <=> occurs(i) /\ \A j \in 1..(i - 1) : h[j] => j + Len(old) <= i
    BY <1>4, ZenonT(30)
  <1> DEFINE S == Found(text, old)
  <1>6. S \in SUBSET (1..n) /\ \A i \in 1..n : i \in S <=> h[i]
    BY <1>2
  <1> HIDE DEF S, occurs
  <1>7. ASSUME NEW i \in 1..n
        PROVE  i \in S <=> occurs(i) /\ \A j \in S : j < i => j + Len(old) <= i
    <2>1. \A j \in 1..(i - 1) : j \in 1..n /\ j < i
      BY <1>1
    <2>2. \A j \in 1..n : j < i => j \in 1..(i - 1)
      BY <1>1
    <2>3. i \in S <=> occurs(i) /\ \A j \in 1..(i - 1) : j \in S => j + Len(old) <= i
      BY <1>5, <1>6, <2>1
    <2> QED BY <1>6, <2>1, <2>2, <2>3
  <1> QED BY <1>6, <1>7 DEF S, occurs, n

\* What is found are the leftmost occurrences that do not overlap.
LEMMA FoundIsLeftmost ==
  ASSUME NEW text \in Seq(Mark), NEW old \in Seq(Mark), old # <<>>
  PROVE  /\ Len(old) \in Nat \ {0} /\ Len(text) \in Nat
         /\ Found(text, old) \in SUBSET Occurrences(text, old)
         /\ Occurrences(text, old) \in SUBSET (1..Len(text))
         /\ IsLeftmost(Found(text, old), text, old)
  <1> DEFINE n == Len(text)
             d == Len(old)
             S == Found(text, old)
             C == Occurrences(text, old)
  <1>1. n \in Nat /\ d \in Nat \ {0}
    BY LenProperties, BodyIs
  <1>2. C \in SUBSET (1..n) /\ \A i \in 1..n : i \in C <=> OccursAt(old, text, i)
    BY DEF Occurrences
  <1>3. /\ S \in SUBSET (1..n)
        /\ \A i \in 1..n : i \in S <=> OccursAt(old, text, i) /\ \A j \in S : j < i => j + d <= i
    BY FoundIs
  <1> HIDE DEF n, d, S, C
  <1>4. S \in SUBSET C
    BY <1>2, <1>3
  <1>5. ASSUME NEW i \in C PROVE \E s \in S : s <= i /\ i < s + d
    <2>1. i \in 1..n /\ OccursAt(old, text, i)
      BY <1>2
    <2>2. CASE i \in S
      <3>1. i <= i /\ i < i + d
        BY <1>1, <2>1
      <3> QED BY <2>2, <3>1
    <2>3. CASE i \notin S
      <3>1. PICK j \in S : j < i /\ ~(j + d <= i)
        BY <1>3, <2>1, <2>3
      <3>2. j \in 1..n
        BY <1>3
      <3>3. j <= i /\ i < j + d
        BY <1>1, <2>1, <3>1, <3>2
      <3> QED BY <3>3
    <2> QED BY <2>2, <2>3
  <1>6. \A s, u \in S : s < u => s + d <= u
    BY <1>3
  <1>7. IsLeftmost(S, text, old)
    BY <1>4, <1>5, <1>6 DEF IsLeftmost, C, d
  <1> QED BY <1>1, <1>2, <1>4, <1>7 DEF n, d, S, C

(***************************************************************************)
(* What one edit does                                                      *)
(***************************************************************************)

\* One occurrence is replaced by one splice.
LEMMA ReplacedOne ==
  ASSUME NEW text, NEW old, NEW new, NEW i \in Nat \ {0}
  PROVE  Replaced(text, old, new, {i}) = Spliced(text, i, i + Len(old), new)
  <1> DEFINE S == {i}
             at(k) == Nth(S, Cardinality(S) - k + 1)
             body(f) == [k \in 0..Cardinality(S) |->
                           IF k = 0 THEN text ELSE Spliced(f[k - 1], at(k), at(k) + Len(old), new)]
             h == ReplacedFrom(text, old, new, S)
  <1>1. Cardinality(S) = 1
    BY FS_Singleton
  <1>2. h = CHOOSE f : f = body(f)
    BY DEF ReplacedFrom
  <1>3. at(1) = i
    <2>1. S \in SUBSET (1..i) /\ 1 \in 1..Cardinality(S) /\ Cardinality(S) - 1 + 1 = 1
      BY <1>1
    <2>2. Nth(S, 1) \in S
      <3> HIDE DEF S
      <3> QED BY <2>1, NthIs
    <2> QED BY <2>1, <2>2
  <1>4. \A f : body(f) = [k \in 0..1 |-> IF k = 0 THEN text ELSE Spliced(f[k - 1], at(k), at(k) + Len(old), new)]
    BY <1>1
  <1> HIDE DEF at, h
  <1> DEFINE u == Spliced(text, i, i + Len(old), new)
             g == [k \in 0..1 |-> IF k = 0 THEN text ELSE u]
  <1>5. g = body(g)
    <2>1. \A k \in 0..1 : k = 0 \/ (k = 1 /\ k - 1 = 0)
      OBVIOUS
    <2>2. g[0] = text
      OBVIOUS
    <2>3. \A k \in 0..1 : g[k] = IF k = 0 THEN text ELSE Spliced(g[k - 1], at(k), at(k) + Len(old), new)
      <3>1. \A k \in 0..1 : k # 0 => Spliced(g[k - 1], at(k), at(k) + Len(old), new) = u
        <4> HIDE DEF g
        <4> QED BY <1>3, <2>1, <2>2
      <3>2. \A k \in 0..1 : g[k] = IF k = 0 THEN text ELSE u
        OBVIOUS
      <3> HIDE DEF g, u
      <3> QED BY <3>1, <3>2
    <2>4. g = [k \in 0..1 |-> g[k]]
      OBVIOUS
    <2> HIDE DEF g, body
    <2> QED BY <1>4, <2>3, <2>4
  <1> HIDE DEF g, u
  <1>6. h = body(h)
    BY <1>2, <1>5
  <1> HIDE DEF body
  <1>7. \A k \in 0..1 : h[k] = IF k = 0 THEN text ELSE Spliced(h[k - 1], at(k), at(k) + Len(old), new)
    BY <1>4, <1>6
  <1>8. h[0] = text /\ h[1] = Spliced(h[0], at(1), at(1) + Len(old), new)
    <2>1. 0 \in 0..1 /\ 1 \in 0..1 /\ 1 - 1 = 0 /\ 1 # 0
      OBVIOUS
    <2> QED BY <1>7, <2>1
  <1>9. h[1] = u
    BY <1>3, <1>8 DEF u
  <1> QED BY <1>1, <1>9 DEF Replaced, h, u

\* One is found exactly if all occurrences overlap with the first.
LEMMA FoundOne ==
  ASSUME NEW text \in Seq(Mark), NEW old \in Seq(Mark), old # <<>>, Occurrences(text, old) # {},
         NEW first, first = Min(Occurrences(text, old))
  PROVE  /\ first \in Nat \ {0}
         /\ (\A i \in Occurrences(text, old) : i < first + Len(old)) => Found(text, old) = {first}
         /\ ~(\A i \in Occurrences(text, old) : i < first + Len(old)) => Cardinality(Found(text, old)) > 1
  <1> DEFINE n == Len(text)
             d == Len(old)
             S == Found(text, old)
             C == Occurrences(text, old)
  <1>1. /\ d \in Nat \ {0} /\ n \in Nat
        /\ S \in SUBSET C /\ C \in SUBSET (1..n) /\ C # {} /\ first = Min(C)
        /\ \A i \in C : \E s \in S : s <= i /\ i < s + d
        /\ \A s, u \in S : s < u => s + d <= u
    BY FoundIsLeftmost DEF IsLeftmost
  <1> HIDE DEF n, d, S, C
  <1>2. C \in SUBSET Nat /\ \A i \in C : i \in Nat /\ 1 <= i
    BY <1>1
  <1>3. first \in C /\ \A i \in C : first <= i
    BY <1>1, <1>2, MinIs
  <1>4. first \in S
    <2>1. PICK s \in S : s <= first
      BY <1>1, <1>3
    <2>2. s \in C /\ first <= s
      BY <1>1, <1>3
    <2>3. s = first
      BY <1>2, <1>3, <2>1, <2>2
    <2> QED BY <2>3
  <1>5. first \in Nat \ {0}
    BY <1>2, <1>3
  <1>6. ASSUME \A i \in C : i < first + d PROVE S = {first}
    <2>1. ASSUME NEW s \in S, s # first PROVE FALSE
      <3>1. s \in C /\ s \in Nat /\ first <= s
        BY <1>1, <1>2, <1>3
      <3>2. first < s
        BY <1>5, <2>1, <3>1
      <3>3. first + d <= s
        BY <1>1, <1>4, <3>2
      <3>4. s < first + d
        BY <1>6, <3>1
      <3> QED BY <1>1, <1>5, <3>1, <3>3, <3>4
    <2> QED BY <1>4, <2>1
  <1>7. ASSUME NEW i \in C, ~(i < first + d) PROVE Cardinality(S) > 1
    <2>1. PICK s \in S : s <= i /\ i < s + d
      BY <1>1
    <2>2. s # first
      BY <1>7, <2>1
    <2>3. IsFiniteSet(S) /\ Cardinality(S) \in Nat
      <3>1. S \in SUBSET (1..n)
        BY <1>1
      <3> QED BY <1>1, <3>1, Finite
    <2>4. Cardinality({first, s}) = 2
      <3>1. IsFiniteSet({first}) /\ Cardinality({first}) = 1
        BY FS_Singleton
      <3>2. Cardinality({first} \cup {s}) = 1 + 1
        <4>1. s \notin {first}
          BY <2>2
        <4> QED BY <3>1, <4>1, FS_AddElement
      <3>3. {first} \cup {s} = {first, s}
        OBVIOUS
      <3>4. 1 + 1 = 2
        OBVIOUS
      <3> HIDE DEF n
      <3> QED BY <3>2, <3>3, <3>4, Zenon
    <2>5. Cardinality({first, s}) <= Cardinality(S)
      <3>1. {first, s} \in SUBSET S
        BY <1>4, <2>1
      <3> QED BY <2>3, <3>1, FS_Subset
    <2> QED BY <2>3, <2>4, <2>5
  <1> QED BY <1>5, <1>6, <1>7 DEF S, C, d

LEMMA SimilarFinite ==
  ASSUME NEW t \in Seq(Mark), NEW old, NEW strategy
  PROVE  IsFiniteSet(Similar(t, old, strategy))
  <1> DEFINE n == Len(t)
             A == 1..n
             B == 1..(n + 1)
             f == [p \in A \X B |-> [start |-> p[1], end |-> p[2]]]
             R == [start : A, end : B]
  <1>1. n \in Nat
    BY LenProperties
  <1>2. Similar(t, old, strategy) \in SUBSET R
    BY DEF Similar
  <1> HIDE DEF n
  <1>3. IsFiniteSet(A) /\ IsFiniteSet(B)
    <2>1. 1 \in Int /\ n \in Int /\ n + 1 \in Int
      BY <1>1
    <2> QED BY <2>1, FS_Interval
  <1> HIDE DEF A, B
  <1>4. f \in Surjection(A \X B, R)
    <2>1. f \in [A \X B -> R]
      OBVIOUS
    <2>2. ASSUME NEW r \in R PROVE \E p \in A \X B : f[p] = r
      <3>1. <<r.start, r.end>> \in A \X B
        OBVIOUS
      <3>2. f[<<r.start, r.end>>] = [start |-> r.start, end |-> r.end]
        BY <3>1
      <3>3. r = [start |-> r.start, end |-> r.end]
        OBVIOUS
      <3> HIDE DEF f
      <3> QED BY <3>1, <3>2, <3>3
    <2> HIDE DEF f
    <2> QED BY <2>1, <2>2 DEF Surjection
  <1> HIDE DEF f, R
  <1>5. IsFiniteSet(R)
    <2>1. IsFiniteSet(A \X B)
      BY <1>3, FS_Product
    <2> QED BY <1>4, <2>1, FS_Surjection
  <1> QED BY <1>2, <1>5, FS_Subset

LEMMA FuzzyIs ==
  ASSUME NEW r \in Result, NEW e \in EditRecord, e.old # <<>>,
         NEW near, near = Similar(r.text, e.old,
                            CHOOSE s \in Strategies :
                              s = "indentation" <=> Similar(r.text, e.old, "whitespace") = {})
  PROVE  IF Cardinality(near) = 1
         THEN /\ Fuzzy(r, e).ok /\ Fuzzy(r, e).fuzzy = r.fuzzy + 1
              /\ \A x \in near : Fuzzy(r, e).text = Spliced(r.text, x.start, x.end, e.new)
         ELSE ~Fuzzy(r, e).ok
  <1> DEFINE t == r.text
             old == e.old
             level == CHOOSE s \in Strategies : s = "indentation" <=> Similar(t, old, "whitespace") = {}
             regions == Located(t, old, Decisive(t, old))
  <1>1. t \in Seq(Mark) /\ old \in Seq(Mark)
    BY DEF Result, EditRecord
  <1>2. near = Similar(t, old, level)
    OBVIOUS
  <1> HIDE DEF t, old
  <1>3. "whitespace" \in Strategies /\ "indentation" \in Strategies /\ "whitespace" # "indentation"
    BY DEF Strategies
  <1>0. old # <<>>
    BY DEF old
  <1>4. Located(t, old, "whitespace") = Similar(t, old, "whitespace")
    BY <1>0, <1>1, <1>3, LocatedIsSimilar
  <1>5. level = Decisive(t, old) /\ level \in Strategies
    <2> DEFINE none == Similar(t, old, "whitespace") = {}
               w == IF none THEN "indentation" ELSE "whitespace"
    <2>1. Decisive(t, old) = w
      BY <1>4 DEF Decisive
    <2> HIDE DEF none
    <2>2. w \in Strategies /\ (w = "indentation" <=> none)
      BY <1>3
    <2>3. \A s \in Strategies : (s = "indentation" <=> none) => s = w
      BY DEF Strategies
    <2>4. level \in Strategies /\ (level = "indentation" <=> none)
      BY <2>2 DEF none
    <2> HIDE DEF level, w
    <2>5. level = w
      BY <2>3, <2>4
    <2> QED BY <2>1, <2>4, <2>5
  <1> HIDE DEF level
  <1>6. regions = near
    BY <1>0, <1>1, <1>2, <1>5, LocatedIsSimilar
  <1>7. IsFiniteSet(near)
    BY <1>1, <1>2, SimilarFinite
  <1>8. Fuzzy(r, e) = IF Cardinality(near) # 1 THEN Failed ELSE SplicedAt(r, e, CHOOSE x \in near : TRUE)
    BY <1>6 DEF Fuzzy, t, old
  <1> HIDE DEF regions
  <1>9. CASE Cardinality(near) = 1
    <2>1. PICK x : near = {x}
      BY <1>7, <1>9, FS_Singleton
    <2>2. (CHOOSE y \in near : TRUE) = x
      BY <2>1
    <2>3. Fuzzy(r, e) = SplicedAt(r, e, x)
      BY <1>8, <1>9, <2>2
    <2>4. /\ SplicedAt(r, e, x).ok /\ SplicedAt(r, e, x).fuzzy = r.fuzzy + 1
          /\ SplicedAt(r, e, x).text = Spliced(r.text, x.start, x.end, e.new)
      BY DEF SplicedAt
    <2> QED BY <1>9, <2>1, <2>3, <2>4
  <1>10. CASE Cardinality(near) # 1
    <2>1. Fuzzy(r, e) = Failed
      BY <1>8, <1>10
    <2> QED BY <1>10, <2>1 DEF Failed
  <1> QED BY <1>9, <1>10

LEMMA ApplyOneIsExact ==
  ASSUME NEW r \in Result, r.ok, NEW e \in EditRecord
  PROVE  EditIsExact(r, ApplyOne(r, e), e)
  <1> DEFINE t == r.text
             old == e.old
             exact == Occurrences(t, old)
             S == Found(t, old)
             first == Min(exact)
             after == ApplyOne(r, e)
             near == Similar(t, old, CHOOSE s \in Strategies : s = "indentation" <=> Similar(t, old, "whitespace") = {})
             done == [ok |-> TRUE, text |-> Replaced(t, old, e.new, S),
                      count |-> r.count + Cardinality(S), fuzzy |-> r.fuzzy]
  <1>1. t \in Seq(Mark) /\ old \in Seq(Mark) /\ e.new \in Seq(Mark) /\ e.all \in BOOLEAN
    BY DEF Result, EditRecord
  <1>2. after = IF old = <<>> THEN Failed
                ELSE IF S = {} THEN Fuzzy(r, e)
                ELSE IF Cardinality(S) > 1 /\ ~e.all THEN Failed
                ELSE done
    BY DEF ApplyOne
  <1>3. EditIsExact(r, after, e) <=>
          IF old = <<>> THEN ~after.ok
          ELSE IF exact # {} /\ e.all
          THEN /\ after.ok /\ after.fuzzy = r.fuzzy
               /\ \E V \in SUBSET exact :
                    /\ IsLeftmost(V, t, old)
                    /\ after.count = r.count + Cardinality(V)
                    /\ after.text = Replaced(t, old, e.new, V)
          ELSE IF exact # {}
          THEN IF \A i \in exact : i < first + Len(old)
               THEN after.ok /\ after.text = Spliced(t, first, first + Len(old), e.new)
               ELSE ~after.ok
          ELSE IF Cardinality(near) = 1
          THEN /\ after.ok /\ after.fuzzy = r.fuzzy + 1
               /\ \A x \in near : after.text = Spliced(t, x.start, x.end, e.new)
          ELSE ~after.ok
    BY DEF EditIsExact
  <1>4. ~Failed.ok
    BY DEF Failed
  <1>5. done.ok /\ done.fuzzy = r.fuzzy /\ done.count = r.count + Cardinality(S)
        /\ done.text = Replaced(t, old, e.new, S)
    OBVIOUS
  <1>6. ASSUME old # <<>>
        PROVE  S \in SUBSET exact /\ IsLeftmost(S, t, old) /\ (S = {} <=> exact = {})
    <2>1. S \in SUBSET exact /\ IsLeftmost(S, t, old)
      BY <1>1, <1>6, FoundIsLeftmost
    <2>2. S = {} => exact = {}
      BY <2>1 DEF IsLeftmost
    <2>3. exact = {} => S = {}
      BY <2>1
    <2> QED BY <2>1, <2>2, <2>3
  <1>7. ASSUME old # <<>>
        PROVE  IF Cardinality(near) = 1
               THEN /\ Fuzzy(r, e).ok /\ Fuzzy(r, e).fuzzy = r.fuzzy + 1
                    /\ \A x \in near : Fuzzy(r, e).text = Spliced(t, x.start, x.end, e.new)
               ELSE ~Fuzzy(r, e).ok
    BY <1>7, FuzzyIs
  <1>8. ASSUME old # <<>>, exact # {}
        PROVE  /\ first \in Nat \ {0}
               /\ (\A i \in exact : i < first + Len(old)) => S = {first}
               /\ ~(\A i \in exact : i < first + Len(old)) => Cardinality(S) > 1
    BY <1>1, <1>8, FoundOne
  <1> HIDE DEF t, old, exact, S, first, after, near, done
  <1>9. CASE old = <<>>
    BY <1>2, <1>3, <1>4, <1>9 DEF after
  <1>10. CASE old # <<>> /\ exact # {} /\ e.all
    <2>1. after = done
      BY <1>2, <1>6, <1>10
    <2> QED BY <1>3, <1>5, <1>6, <1>10, <2>1 DEF after
  <1>11. CASE old # <<>> /\ exact # {} /\ ~e.all
    <2>1. S # {}
      BY <1>6, <1>11
    <2>2. CASE \A i \in exact : i < first + Len(old)
      <3>1. S = {first} /\ first \in Nat \ {0}
        BY <1>8, <1>11, <2>2
      <3>2. Cardinality(S) = 1
        BY <3>1, FS_Singleton
      <3>3. after = done
        BY <1>2, <1>11, <2>1, <3>2
      <3>4. Replaced(t, old, e.new, S) = Spliced(t, first, first + Len(old), e.new)
        BY <3>1, ReplacedOne
      <3> QED BY <1>3, <1>5, <1>11, <2>2, <3>3, <3>4 DEF after
    <2>3. CASE ~(\A i \in exact : i < first + Len(old))
      <3>1. Cardinality(S) > 1
        BY <1>8, <1>11, <2>3
      <3>2. after = Failed
        BY <1>2, <1>11, <2>1, <3>1
      <3> QED BY <1>3, <1>4, <1>11, <2>3, <3>2 DEF after
    <2> QED BY <2>2, <2>3
  <1>12. CASE old # <<>> /\ exact = {}
    <2>1. after = Fuzzy(r, e)
      BY <1>2, <1>6, <1>12
    <2> QED BY <1>3, <1>7, <1>12, <2>1 DEF after
  <1> QED BY <1>9, <1>10, <1>11, <1>12

(***************************************************************************)
(* The call: what the preview was computed from is what the tool reaches   *)
(***************************************************************************)

Previewed == mode = "diff" \/ shown

IInv ==
  /\ TypeOK
  /\ DiffInv
  /\ mode \in {"preview", "diff", "apply"} => result = Applied(file, edits)[next - 1]
  /\ mode = "done" => result = Proposal \/ ~Proposal.ok
  /\ mode = "preview" => loop = "off"
  /\ mode = "diff" => loop # "off"
  /\ mode \in {"preview", "diff"} => ~shown
  /\ Previewed => /\ Proposal.ok /\ Proposal.text # file
                  /\ oldLines = DiffLines(file) /\ newLines = DiffLines(Proposal.text)
  /\ shown => /\ loop = "done"
              /\ preview = [lines |-> rendered, added |-> Added(lines), removed |-> Removed(lines)]

LEMMA ProposalIs ==
  ASSUME TypeOK
  PROVE  Proposal \in Result /\ Proposal.text \in Seq(Mark)
  <1>1. Len(edits) \in Nat /\ Len(edits) \in 0..Len(edits)
    BY LenProperties DEF TypeOK
  <1>2. Apply(file, edits) \in Result
    BY <1>1, AppliedIs DEF TypeOK, Apply
  <1>3. Unchanged(whole) \in Result
    BY UnchangedIs DEF TypeOK
  <1>4. Proposal \in Result
    BY <1>2, <1>3 DEF Proposal
  <1> QED BY <1>4 DEF Result

LEMMA InitIInv == Init => IInv
  <1> SUFFICES ASSUME Init PROVE IInv
    OBVIOUS
  <1> USE EditTextAssumption
  <1>1. file \in Seq(Mark) /\ whole \in Seq(Mark) /\ edits \in Seq(EditRecord)
    <2>1. CASE file \in Contents /\ whole = <<>> /\ edits \in Patches
      BY <2>1, EmptySeq DEF EditTextAssumption
    <2>2. CASE \E w \in Writes : file = w[1] /\ whole = w[2] /\ edits = <<>>
      <3>1. PICK w \in Writes : file = w[1] /\ whole = w[2] /\ edits = <<>>
        BY <2>2
      <3>2. w \in Seq(Mark) \X Seq(Mark)
        BY DEF EditTextAssumption
      <3> QED BY <3>1, <3>2, EmptySeq
    <2> QED BY <2>1, <2>2 DEF Init
  <1>2. /\ mode = "preview" /\ next = 1 /\ result = Unchanged(file) /\ shown = FALSE
        /\ loop = "off" /\ oldLines = <<>> /\ newLines = <<>> /\ lines = <<>> /\ rendered = <<>>
    BY DEF Init, DiffInit
  <1>3. Len(edits) \in Nat
    BY <1>1, LenProperties
  <1>4. TypeOK
    <2>1. result \in Result
      BY <1>1, <1>2, UnchangedIs
    <2>2. next \in 1..(Len(edits) + 1)
      BY <1>2, <1>3
    <2> QED BY <1>1, <1>2, <2>1, <2>2 DEF TypeOK
  <1>5. DiffInv
    <2>1. DiffTypes
      BY <1>2, EmptySeq DEF DiffTypes
    <2>2. TableIsRight
      BY <1>2 DEF TableIsRight
    <2>3. LinesAreWritten
      <3>1. 1..Len(lines) = {}
        BY <1>2
      <3> QED BY <1>2, <3>1 DEF LinesAreWritten
    <2>4. ChangesAreRendered
      BY <1>2 DEF ChangesAreRendered
    <2> QED BY <2>1, <2>2, <2>3, <2>4 DEF DiffInv
  <1>6. result = Applied(file, edits)[next - 1]
    <2>1. Applied(file, edits)[0] = Unchanged(file)
      BY <1>1, AppliedIs
    <2>2. next - 1 = 0
      BY <1>2
    <2> QED BY <1>2, <2>1, <2>2
  <1> QED BY <1>2, <1>4, <1>5, <1>6 DEF IInv, Previewed

\* What no step after the diff touches.
LEMMA DiffStays ==
  ASSUME DiffInv, UNCHANGED diffVars
  PROVE  DiffInv' /\ UNCHANGED <<loop, oldLines, newLines, lines, rendered>>
  <1>1. UNCHANGED <<loop, oldLines, newLines, lcs, row, col, lines, rendered, skipping>>
    BY DEF diffVars
  <1>2. DiffTypes'
    BY <1>1 DEF DiffInv, DiffTypes, Rows, Cols
  <1>3. TableIsRight'
    <2>1. SUFFICES ASSUME loop # "off", NEW i \in Rows, NEW j \in Cols, Filled(i, j)
                   PROVE  EntryIsRight(i, j)'
      BY <1>1 DEF TableIsRight, Filled, Rows, Cols
    <2>2. EntryIsRight(i, j)
      BY <2>1 DEF DiffInv, TableIsRight
    <2> QED BY <1>1, <2>2 DEF EntryIsRight, Recurrence
  <1>4. LinesAreWritten'
    BY <1>1 DEF DiffInv, LinesAreWritten
  <1>5. ChangesAreRendered'
    BY <1>1 DEF DiffInv, ChangesAreRendered
  <1> QED BY <1>1, <1>2, <1>3, <1>4, <1>5 DEF DiffInv

\* The product prospectiveDiff checks is the size of the table.
LEMMA StartPreviewInv ==
  ASSUME IInv, StartPreview
  PROVE  IInv'
  <1>1. /\ mode = "preview" /\ loop = "off" /\ ~shown /\ TypeOK /\ DiffInv
        /\ result = Applied(file, edits)[next - 1]
    BY DEF IInv, StartPreview
  <1>2. UNCHANGED <<file, edits, whole, next, result, preview, shown>>
    BY DEF StartPreview, call
  <1>3. Proposal' = Proposal
    BY <1>2 DEF Proposal
  <1>4. Proposal.text \in Seq(Mark) /\ file \in Seq(Mark)
    BY <1>1, ProposalIs DEF TypeOK
  <1>5. CASE mode' = "apply" /\ UNCHANGED diffVars
    <2>2. DiffInv' /\ UNCHANGED loop
      BY <1>1, <1>5, DiffStays
    <2>3. TypeOK'
      BY <1>1, <1>2, <1>5 DEF TypeOK
    <2> QED BY <1>1, <1>2, <1>3, <1>5, <2>2, <2>3 DEF IInv, Previewed
  <1>6. CASE /\ Proposal.ok /\ Proposal.text # file
             /\ DiffLineCount(file) * DiffLineCount(Proposal.text) <= MaxLineProduct
             /\ mode' = "diff" /\ StartLines(file, Proposal.text)
    <2>1. /\ DiffLines(file) \in Seq(Seq(Mark)) /\ Len(DiffLines(file)) = DiffLineCount(file)
          /\ DiffLines(Proposal.text) \in Seq(Seq(Mark))
          /\ Len(DiffLines(Proposal.text)) = DiffLineCount(Proposal.text)
      BY <1>4, DiffLinesAre
    <2>2. Len(DiffLines(file)) * Len(DiffLines(Proposal.text)) <= MaxLineProduct /\ MaxLineProduct \in Nat
      BY <1>6, <2>1, EditTextAssumption DEF EditTextAssumption
    <2> DEFINE t == Proposal.text
    <2>3. StartLines(file, t) /\ DiffLines(t) \in Seq(Seq(Mark)) /\ Len(DiffLines(file)) * Len(DiffLines(t)) <= MaxLineProduct
      BY <1>6, <2>1, <2>2
    <2> HIDE DEF t
    <2>4. DiffInv' /\ loop' = "table"
      BY <1>1, <2>1, <2>2, <2>3, StartLinesInv
    <2>5. oldLines' = DiffLines(file) /\ newLines' = DiffLines(t)
      BY <2>3 DEF StartLines
    <2>6. TypeOK'
      BY <1>1, <1>2, <1>6 DEF TypeOK
    <2> QED BY <1>1, <1>2, <1>3, <1>6, <2>4, <2>5, <2>6 DEF IInv, Previewed, t
  <1> QED BY <1>5, <1>6 DEF StartPreview

LEMMA ComputeDiffInv ==
  ASSUME IInv, ComputeDiff
  PROVE  IInv'
  <1>1. /\ mode = "diff" /\ ~shown /\ loop # "off" /\ TypeOK /\ DiffInv /\ DiffStep
        /\ result = Applied(file, edits)[next - 1]
        /\ Proposal.ok /\ Proposal.text # file
        /\ oldLines = DiffLines(file) /\ newLines = DiffLines(Proposal.text)
    BY DEF IInv, Previewed, ComputeDiff
  <1>2. UNCHANGED <<file, edits, whole, mode, next, result, preview, shown>>
    BY DEF ComputeDiff, call
  <1>3. UNCHANGED <<oldLines, newLines>> /\ loop' # "off"
    BY <1>1 DEF DiffStep, FillEntry, NextRow, StartWalk, KeepLine, RemoveLine, AddLine, StartRender, Render, Rendered
  <1>4. DiffInv'
    BY <1>1, EditTextAssumption, DiffStepInv DEF EditTextAssumption
  <1>5. Proposal' = Proposal
    BY <1>2 DEF Proposal
  <1>6. TypeOK'
    BY <1>1, <1>2 DEF TypeOK
  <1> QED BY <1>1, <1>2, <1>3, <1>4, <1>5, <1>6 DEF IInv, Previewed

LEMMA ShowInv ==
  ASSUME IInv, Show
  PROVE  IInv'
  <1>1. /\ mode = "diff" /\ loop = "done" /\ TypeOK /\ DiffInv
        /\ result = Applied(file, edits)[next - 1]
        /\ Proposal.ok /\ Proposal.text # file
        /\ oldLines = DiffLines(file) /\ newLines = DiffLines(Proposal.text)
    BY DEF IInv, Previewed, Show
  <1>2. /\ UNCHANGED <<file, edits, whole, next, result>> /\ UNCHANGED diffVars
        /\ mode' = "apply" /\ shown' = TRUE
        /\ preview' = [lines |-> rendered, added |-> Added(lines), removed |-> Removed(lines)]
    BY DEF Show, call
  <1>3. DiffInv' /\ UNCHANGED <<loop, oldLines, newLines, lines, rendered>>
    BY <1>1, <1>2, DiffStays
  <1>4. Proposal' = Proposal
    BY <1>2 DEF Proposal
  <1>5. TypeOK'
    BY <1>1, <1>2 DEF TypeOK
  <1> QED BY <1>1, <1>2, <1>3, <1>4, <1>5 DEF IInv, Previewed

LEMMA ApplyEditInv ==
  ASSUME IInv, ApplyEdit
  PROVE  IInv'
  <1>1. /\ mode = "apply" /\ result.ok /\ next <= Len(edits) /\ TypeOK /\ DiffInv
        /\ result = Applied(file, edits)[next - 1]
    BY DEF IInv, ApplyEdit
  <1>2. /\ UNCHANGED <<file, edits, whole, mode, preview, shown>> /\ UNCHANGED diffVars
        /\ result' = ApplyOne(result, edits[next]) /\ next' = next + 1
    BY DEF ApplyEdit, call
  <1>3. DiffInv' /\ UNCHANGED <<loop, oldLines, newLines, lines, rendered>>
    BY <1>1, <1>2, DiffStays
  <1>4. Proposal' = Proposal
    BY <1>2 DEF Proposal
  <1>5. /\ next \in 1..Len(edits) /\ next' - 1 = next /\ next' \in 1..(Len(edits) + 1)
        /\ file \in Seq(Mark) /\ edits \in Seq(EditRecord) /\ result \in Result
    <2>1. Len(edits) \in Nat /\ next \in 1..(Len(edits) + 1) /\ edits \in Seq(EditRecord)
      BY <1>1, LenProperties DEF TypeOK
    <2>2. next \in 1..Len(edits) /\ next' - 1 = next /\ next' \in 1..(Len(edits) + 1)
      BY <1>1, <1>2, <2>1
    <2> QED BY <1>1, <2>1, <2>2 DEF TypeOK
  <1>6. result' = Applied(file, edits)[next' - 1]
    BY <1>1, <1>2, <1>5, AppliedIs
  <1>7. TypeOK'
    <2>1. result' \in Result
      BY <1>2, <1>5, ElementOfSeq, ApplyOneIs
    <2> QED BY <1>1, <1>2, <1>5, <2>1 DEF TypeOK
  <1> QED BY <1>1, <1>2, <1>3, <1>4, <1>6, <1>7 DEF IInv, Previewed

LEMMA FinishInv ==
  ASSUME IInv, Finish
  PROVE  IInv'
  <1>1. /\ mode = "apply" /\ (~result.ok \/ next > Len(edits)) /\ TypeOK /\ DiffInv
        /\ result = Applied(file, edits)[next - 1]
    BY DEF IInv, Finish
  <1>2. /\ UNCHANGED <<file, edits, whole, next, preview, shown>> /\ UNCHANGED diffVars
        /\ mode' = "done" /\ result' = IF edits = <<>> THEN Unchanged(whole) ELSE result
    BY DEF Finish, call
  <1>3. DiffInv' /\ UNCHANGED <<loop, oldLines, newLines, lines, rendered>>
    BY <1>1, <1>2, DiffStays
  <1>4. Proposal' = Proposal
    BY <1>2 DEF Proposal
  <1>5. /\ Len(edits) \in Nat /\ next \in 1..(Len(edits) + 1)
        /\ file \in Seq(Mark) /\ whole \in Seq(Mark) /\ edits \in Seq(EditRecord) /\ result \in Result
    BY <1>1, LenProperties DEF TypeOK
  <1>6. result' = Proposal \/ ~Proposal.ok
    <2>1. CASE edits = <<>>
      BY <1>2, <2>1 DEF Proposal
    <2>2. CASE edits # <<>> /\ ~result.ok
      <3>1. next - 1 \in 0..Len(edits)
        BY <1>5
      <3>2. ~Apply(file, edits).ok
        BY <1>1, <1>5, <2>2, <3>1, AppliedIs
      <3> QED BY <2>2, <3>2 DEF Proposal
    <2>3. CASE edits # <<>> /\ next > Len(edits)
      <3>1. next - 1 = Len(edits)
        BY <1>5, <2>3
      <3> QED BY <1>1, <1>2, <2>3, <3>1 DEF Proposal, Apply
    <2> QED BY <1>1, <2>1, <2>2, <2>3
  <1>7. TypeOK'
    <2>1. result' \in Result
      BY <1>2, <1>5, UnchangedIs
    <2> QED BY <1>1, <1>2, <2>1 DEF TypeOK
  <1> QED BY <1>1, <1>2, <1>3, <1>4, <1>6, <1>7 DEF IInv, Previewed

LEMMA StepIInv == IInv /\ [Next]_vars => IInv'
  <1> SUFFICES ASSUME IInv, [Next]_vars PROVE IInv'
    OBVIOUS
  <1>1. CASE StartPreview
    BY <1>1, StartPreviewInv
  <1>2. CASE ComputeDiff
    BY <1>2, ComputeDiffInv
  <1>3. CASE Show
    BY <1>3, ShowInv
  <1>4. CASE ApplyEdit
    BY <1>4, ApplyEditInv
  <1>5. CASE Finish
    BY <1>5, FinishInv
  <1>6. CASE UNCHANGED vars
    <2>1. UNCHANGED <<file, edits, whole, mode, next, result, preview, shown>> /\ UNCHANGED diffVars
      BY <1>6 DEF vars, call
    <2>2. DiffInv' /\ UNCHANGED <<loop, oldLines, newLines, lines, rendered>>
      BY <2>1, DiffStays DEF IInv
    <2>3. Proposal' = Proposal
      BY <2>1 DEF Proposal
    <2>4. TypeOK'
      BY <2>1 DEF IInv, TypeOK
    <2> QED BY <2>1, <2>2, <2>3, <2>4 DEF IInv, Previewed
  <1> QED BY <1>1, <1>2, <1>3, <1>4, <1>5, <1>6 DEF Next, Stop

LEMMA CountsAre ==
  ASSUME NEW s \in Seq(DiffLine)
  PROVE  /\ Added(s) + Removed(s) = Cardinality(WithOp(s, Changes))
         /\ Cardinality(WithOp(s, Changes)) \in Nat
         /\ WithOp(s, Changes) # {} => Cardinality(WithOp(s, Changes)) > 0
  <1> DEFINE A == WithOp(s, {"+"})
             R == WithOp(s, {"-"})
             C == WithOp(s, Changes)
             n == Len(s)
  <1>1. n \in Nat /\ DOMAIN s = 1..n
    BY LenProperties
  <1>2. C = A \cup R /\ A \cap R = {} /\ C \in SUBSET (1..n) /\ A \in SUBSET (1..n) /\ R \in SUBSET (1..n)
    BY <1>1 DEF WithOp, Changes
  <1>3. Added(s) = Cardinality(A) /\ Removed(s) = Cardinality(R)
    BY DEF Added, Removed
  <1> HIDE DEF A, R, C, n
  <1>4. /\ IsFiniteSet(A) /\ IsFiniteSet(R) /\ IsFiniteSet(C)
        /\ Cardinality(A) \in Nat /\ Cardinality(R) \in Nat /\ Cardinality(C) \in Nat
    BY <1>1, <1>2, Finite
  <1>5. Cardinality(C) = Cardinality(A) + Cardinality(R)
    <2>1. Cardinality(A \cup R) = Cardinality(A) + Cardinality(R) - Cardinality(A \cap R)
      BY <1>4, FS_Union
    <2>2. Cardinality(A \cap R) = 0
      BY <1>2, FS_EmptySet
    <2> QED BY <1>2, <1>4, <2>1, <2>2
  <1>6. C # {} => Cardinality(C) > 0
    BY <1>4, FS_EmptySet
  <1> QED BY <1>3, <1>4, <1>5, <1>6 DEF C

LEMMA IInvFaithful == IInv => DiffIsFaithful
  <1> SUFFICES ASSUME IInv, mode = "done", shown PROVE DiffIsFaithful
    BY DEF DiffIsFaithful
  <1> DEFINE old == DiffLines(file)
             new == DiffLines(result.text)
  <1>1. /\ result = Proposal /\ Proposal.ok /\ Proposal.text # file
        /\ oldLines = DiffLines(file) /\ newLines = DiffLines(Proposal.text)
        /\ loop = "done" /\ DiffInv
        /\ preview = [lines |-> rendered, added |-> Added(lines), removed |-> Removed(lines)]
    BY DEF IInv, Previewed
  <1>2. oldLines = old /\ newLines = new /\ result.ok /\ result.text # file
    BY <1>1
  <1>3. preview.lines = rendered /\ preview.added = Added(lines) /\ preview.removed = Removed(lines)
    BY <1>1
  <1>4. /\ oldLines \in Seq(Seq(Mark)) /\ newLines \in Seq(Seq(Mark))
        /\ lines \in Seq(DiffLine) /\ rendered \in Seq(DiffLine)
    BY <1>1 DEF DiffInv, DiffTypes
  <1>5. /\ Spells(lines, {" ", "-"}, oldLines) /\ Spells(lines, {" ", "+"}, newLines)
        /\ Cardinality(WithOp(lines, {" "})) = lcs[<<1, 1>>]
    BY <1>1 DEF DiffInv, LinesAreWritten
  <1>6. ASSUME NEW f \in Matchings(oldLines, newLines)
        PROVE  Size(f) <= Cardinality(WithOp(lines, {" "}))
    <2>1. Len(oldLines) \in Nat /\ Len(newLines) \in Nat /\ DOMAIN oldLines = 1..Len(oldLines)
      BY <1>4, LenProperties
    <2>2. f \in From(oldLines, newLines, 1, 1)
      <3>1. f \in [1..Len(oldLines) -> 0..Len(newLines)]
        BY <2>1 DEF Matchings
      <3>2. ASSUME NEW x \in DOMAIN oldLines, f[x] # 0 PROVE 1 <= x /\ 1 <= f[x]
        <4>1. x \in 1..Len(oldLines)
          BY <2>1
        <4>2. f[x] \in 0..Len(newLines)
          BY <3>1, <4>1
        <4> QED BY <2>1, <3>2, <4>1, <4>2
      <3> QED BY <3>2 DEF From
    <2>3. EntryIsRight(1, 1)
      <3>1. 1 \in Rows /\ 1 \in Cols
        BY <2>1 DEF Rows, Cols
      <3> QED BY <1>1, <3>1 DEF DiffInv, TableIsRight, Filled
    <2>4. Size(f) <= lcs[<<1, 1>>]
      BY <2>2, <2>3 DEF EntryIsRight
    <2> QED BY <1>5, <2>4
  <1>7. SameLines(rendered, lines, {"-", "+"})
    BY <1>1 DEF DiffInv, ChangesAreRendered, Changes
  <1>8. /\ Added(lines) + Removed(lines) = Cardinality(WithOp(lines, {"-", "+"}))
        /\ WithOp(lines, {"-", "+"}) # {} => Cardinality(WithOp(lines, {"-", "+"})) > 0
    BY <1>4, CountsAre DEF Changes
  <1>9. Added(lines) + Removed(lines) = Cardinality(WithOp(rendered, {"-", "+"}))
    BY <1>7, <1>8 DEF SameLines
  <1>10. oldLines # newLines => Added(lines) + Removed(lines) > 0
    BY <1>1, <1>8, ChangesAreSeen DEF Changes
  <1>12. Added(lines) + Removed(lines) > 0 \/ FinalNewlineOnly(file, result.text)
    <2>1. file \in Seq(Mark) /\ result.text \in Seq(Mark)
      BY DEF IInv, TypeOK, Result
    <2>2. oldLines = newLines => FinalNewlineOnly(file, result.text)
      BY <1>2, <2>1, LinesTell
    <2> QED BY <1>10, <2>2
  <1> HIDE DEF old, new
  <1>11. /\ Spells(lines, {" ", "-"}, old) /\ Spells(lines, {" ", "+"}, new)
         /\ \A f \in Matchings(old, new) : Size(f) <= Cardinality(WithOp(lines, {" "}))
         /\ SameLines(preview.lines, lines, {"-", "+"})
         /\ preview.added + preview.removed = Cardinality(WithOp(preview.lines, {"-", "+"}))
         /\ preview.added + preview.removed > 0 \/ FinalNewlineOnly(file, result.text)
    BY <1>2, <1>3, <1>5, <1>6, <1>7, <1>9, <1>12
  <1> QED BY <1>2, <1>11 DEF DiffIsFaithful, old, new

LEMMA StepIsExact ==
  IInv /\ [Next]_vars => (next' = next + 1 => EditIsExact(result, result', edits[next])) \/ UNCHANGED vars
  <1>1. SUFFICES ASSUME IInv, Next, next' = next + 1 PROVE EditIsExact(result, result', edits[next])
    OBVIOUS
  <1>2. result \in Result /\ next \in Nat /\ edits \in Seq(EditRecord) /\ next \in 1..(Len(edits) + 1)
    BY <1>1, LenProperties DEF IInv, TypeOK
  <1>3. next' # next
    BY <1>1, <1>2
  <1>4. ApplyEdit
    BY <1>1, <1>3 DEF Next, StartPreview, ComputeDiff, Show, Finish, Stop, vars
  <1>5. result.ok /\ next \in 1..Len(edits) /\ result' = ApplyOne(result, edits[next])
    <2>1. Len(edits) \in Nat
      BY <1>2, LenProperties
    <2> QED BY <1>2, <1>4, <2>1 DEF ApplyEdit
  <1>6. edits[next] \in EditRecord
    BY <1>2, <1>5, ElementOfSeq
  <1> QED BY <1>2, <1>5, <1>6, ApplyOneIsExact

(* Types: every Result of the loop over the edits is a text again. *)
THEOREM TextsAreTyped == Spec => []TypeOK
  <1>1. IInv => TypeOK
    BY DEF IInv
  <1> QED BY <1>1, InitIInv, StepIInv, PTL DEF Spec

(* What the user approves is what is written (agent.go:441-490, diff.go, patch.go): the
   diff spells the lines of both texts, no diff keeps more of them, no line added or
   removed is hidden, and only a change of the final newline alone shows none. *)
THEOREM PreviewIsFaithful == Spec => []DiffIsFaithful
  BY InitIInv, StepIInv, IInvFaithful, PTL DEF Spec

(* Each edit does what it promises (patch.go:64-188): it replaces the one place old_string
   has, or with replace_all every one, or the only region of lines like it, and
   leaves the rest of the text; in every other case it fails. *)
THEOREM PatchEditsAreExact == Spec => PatchIsExact
  <1>1. Spec => []IInv
    BY InitIInv, StepIInv, PTL DEF Spec
  <1>2. IInv /\ [Next]_vars => [next' = next + 1 => EditIsExact(result, result', edits[next])]_vars
    BY StepIsExact
  <1> QED BY <1>1, <1>2, PTL DEF Spec, PatchIsExact
=============================================================================
