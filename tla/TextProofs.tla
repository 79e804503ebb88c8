----------------------------- MODULE TextProofs -----------------------------
(***************************************************************************)
(* What the parsers make of a text of any length: that a child's key is    *)
(* read back as it was written, that a sanitised name keeps its meaning,   *)
(* and that a query is cut where PostgreSQL ends its statements.           *)
(*                                                                         *)
(* All of it is induction over a text.  It starts from the least-number    *)
(* principle; a statement is a set of numbers, and the functions that Join *)
(* and the two scans define by recursion are unfolded once, by Recursion.  *)
(***************************************************************************)
EXTENDS SqlStatements, Identifiers, TLAPS,
        FiniteSetTheorems, SequenceTheorems, WellFoundedInduction

----------------------------------------------------------------------------
(* Natural numbers: induction and recursion *)

\* A set of numbers has a least one.
LEMMA LeastNatural ==
  ASSUME NEW T \in SUBSET Nat, T # {}
  PROVE  \E m \in T : \A n \in T : m <= n
<1>1. PICK m \in T : \A n \in T : ~(<<n, m>> \in OpToRel(<, Nat))
  BY NatLessThanWellFounded, WFMin, Zenon
<1>2. ASSUME NEW n \in T PROVE ~(n < m)
  <2>1. <<n, m>> \in Nat \X Nat
    OBVIOUS
  <2> QED
    BY <1>1, <2>1 DEF OpToRel
<1> QED
  BY <1>2

\* Min, of any set of numbers.
LEMMA MinIsLeast ==
  ASSUME NEW T \in SUBSET Nat, T # {}
  PROVE  Min(T) \in T /\ \A n \in T : Min(T) <= n
BY LeastNatural DEF Min

\* Max, of a set with an upper bound.
LEMMA MaxIsGreatest ==
  ASSUME NEW T \in SUBSET Nat, NEW b \in Nat, T # {}, \A n \in T : n <= b
  PROVE  Max(T) \in T /\ \A n \in T : n <= Max(T)
<1> DEFINE bounds == {m \in Nat : \A n \in T : n <= m}
<1>1. PICK m \in bounds : \A k \in bounds : m <= k
  <2>1. b \in bounds
    OBVIOUS
  <2> QED
    BY <2>1, LeastNatural
<1>2. m \in T
  <2>1. SUFFICES ASSUME m \notin T PROVE FALSE
    OBVIOUS
  <2>2. \A n \in T : n <= m - 1
    BY <1>1, <2>1
  <2>3. m - 1 \in Nat
    <3>1. PICK n \in T : n <= m - 1
      BY <2>2
    <3> QED
      BY <3>1
  <2> QED
    BY <1>1, <2>2, <2>3
<1>3. \E x \in T : \A n \in T : x >= n
  BY <1>1, <1>2
<1> QED
  BY <1>3 DEF Max

\* Induction over the numbers a, ..., b, with the statement as a set of them.
LEMMA Induction ==
  ASSUME NEW a \in Nat, NEW b \in Nat, NEW P, a \in P,
         \A i \in (a + 1)..b : i - 1 \in P => i \in P
  PROVE  \A i \in a..b : i \in P
<1> DEFINE T == {i \in a..b : i \notin P}
<1>1. SUFFICES ASSUME T # {} PROVE FALSE
  OBVIOUS
<1>2. T \in SUBSET Nat
  OBVIOUS
<1> HIDE DEF T
<1>3. PICK m \in T : \A i \in T : m <= i
  BY <1>1, <1>2, LeastNatural
<1>4. m \in a..b /\ m \notin P
  BY <1>3 DEF T
<1>5. m \in (a + 1)..b /\ m - 1 \in a..b /\ ~(m <= m - 1)
  BY <1>4
<1>6. m - 1 \in P
  BY <1>3, <1>5 DEF T
<1> QED
  BY <1>4, <1>5, <1>6

\* f goes from start at a, by the steps F, to b.
Runs(f, a, b, start, F) ==
  f[a] = start /\ \A i \in (a + 1)..b : f[i] = F[i][f[i - 1]]

\* There is such a function for every start and every step.
LEMMA Recursion ==
  ASSUME NEW S, NEW a \in Nat, NEW b \in Nat, a <= b, NEW start \in S,
         NEW F \in [(a + 1)..b -> [S -> S]]
  PROVE  \E f \in [a..b -> S] : Runs(f, a, b, start, F)
<1> DEFINE P == {m \in Nat : \E f \in [a..m -> S] : Runs(f, a, m, start, F)}
<1>1. a \in P
  <2> DEFINE f == [i \in a..a |-> start]
  <2>1. f \in [a..a -> S] /\ f[a] = start /\ \A i \in (a + 1)..a : f[i] = F[i][f[i - 1]]
    OBVIOUS
  <2>2. Runs(f, a, a, start, F)
    BY <2>1 DEF Runs
  <2> QED
    BY <2>1, <2>2
<1>2. ASSUME NEW m \in (a + 1)..b, m - 1 \in P PROVE m \in P
  <2>1. PICK f \in [a..(m - 1) -> S] : Runs(f, a, m - 1, start, F)
    BY <1>2
  <2>2. f[a] = start /\ \A i \in (a + 1)..(m - 1) : f[i] = F[i][f[i - 1]]
    BY <2>1 DEF Runs
  <2> DEFINE g == [i \in a..m |-> IF i < m THEN f[i] ELSE F[m][f[m - 1]]]
  <2>3. m - 1 \in a..(m - 1) /\ m \in Nat
    OBVIOUS
  <2>4. F[m][f[m - 1]] \in S
    BY <2>1, <2>3
  <2>5. g \in [a..m -> S] /\ g[a] = start
    BY <2>1, <2>2, <2>4
  <2>6. ASSUME NEW i \in (a + 1)..m PROVE g[i] = F[i][g[i - 1]]
    <3>1. g[i - 1] = f[i - 1] /\ g[i] = IF i < m THEN f[i] ELSE F[m][f[m - 1]]
      BY <2>3
    <3>2. CASE i < m
      BY <2>2, <2>3, <3>1, <3>2
    <3>3. CASE i = m
      BY <3>1, <3>3
    <3> QED
      BY <2>3, <3>2, <3>3
  <2>7. Runs(g, a, m, start, F)
    BY <2>5, <2>6 DEF Runs
  <2> QED
    BY <2>3, <2>5, <2>7
<1>3. b \in a..b
  OBVIOUS
<1> HIDE DEF P
<1>4. b \in P
  BY <1>1, <1>2, <1>3, Induction
<1> QED
  BY <1>4 DEF P

----------------------------------------------------------------------------
(* Cutting a text *)

\* A text has finitely many cuts, and fewer of them before a position.
LEMMA FiniteCuts ==
  ASSUME NEW n \in Nat, NEW cuts \in SUBSET (1..n)
  PROVE  /\ IsFiniteSet(cuts) /\ Cardinality(cuts) \in Nat
         /\ \A i \in Int : /\ IsFiniteSet({c \in cuts : c < i})
                           /\ Before(cuts, i) \in 0..Cardinality(cuts)
<1>1. IsFiniteSet(cuts)
  BY FS_Interval, FS_Subset, 1 \in Int, n \in Int
<1>2. ASSUME NEW i \in Int
      PROVE  /\ IsFiniteSet({c \in cuts : c < i})
             /\ Before(cuts, i) \in 0..Cardinality(cuts)
  <2>1. {c \in cuts : c < i} \in SUBSET cuts
    OBVIOUS
  <2> QED
    BY <1>1, <2>1, FS_Subset, FS_CardinalityType DEF Before
<1> QED
  BY <1>1, <1>2, FS_CardinalityType

\* What an interval of positions stretches over is a subsequence.
LEMMA StretchOfInterval ==
  ASSUME NEW X, NEW s \in Seq(X), NEW a \in 1..(Len(s) + 1), NEW b \in 0..Len(s)
  PROVE  Stretch(s, a..b) = SubSeq(s, a, b)
<1>1. CASE a <= b
  <2>1. a..b \in SUBSET Nat /\ a \in a..b /\ b \in a..b
    BY <1>1
  <2>2. Min(a..b) = a
    <3>1. Min(a..b) \in a..b /\ Min(a..b) <= a
      BY <2>1, MinIsLeast
    <3> QED
      BY <3>1
  <2>3. Max(a..b) = b
    <3>1. Max(a..b) \in a..b /\ b <= Max(a..b)
      BY <2>1, MaxIsGreatest, b \in Nat, \A n \in a..b : n <= b
    <3> QED
      BY <3>1
  <2> QED
    BY <1>1, <2>2, <2>3, <2>1 DEF Stretch
<1>2. CASE a > b
  <2>1. a..b = {}
    BY <1>2
  <2>2. SubSeq(s, a, b) = <<>>
    BY <1>2, SubSeqEmpty
  <2> QED
    BY <2>1, <2>2 DEF Stretch
<1> QED
  BY <1>1, <1>2

\* A stretch has characters from between its ends only.
LEMMA StretchType ==
  ASSUME NEW X, NEW s \in Seq(X), NEW at \in SUBSET (1..Len(s)), at # {}
  PROVE  /\ Min(at) \in at /\ Max(at) \in at /\ Min(at) <= Max(at)
         /\ \A i \in at : Min(at) <= i /\ i <= Max(at)
         /\ Stretch(s, at) \in Seq(X)
         /\ Len(Stretch(s, at)) = Max(at) - Min(at) + 1
         /\ \A j \in 1..Len(Stretch(s, at)) : Stretch(s, at)[j] = s[Min(at) + j - 1]
<1>1. at \in SUBSET Nat /\ Len(s) \in Nat /\ \A i \in at : i <= Len(s)
  BY LenProperties
<1>2. Min(at) \in at /\ \A i \in at : Min(at) <= i
  BY <1>1, MinIsLeast
<1>3. Max(at) \in at /\ \A i \in at : i <= Max(at)
  BY <1>1, MaxIsGreatest
<1>4. Stretch(s, at) = SubSeq(s, Min(at), Max(at))
  BY DEF Stretch
<1>5. Min(at) \in 1..Len(s) /\ Max(at) \in 1..Len(s) /\ Min(at) <= Max(at)
  BY <1>2, <1>3, Zenon
<1>6. \A i \in Min(at)..Max(at) : s[i] \in X
  <2> SUFFICES ASSUME NEW i \in Min(at)..Max(at) PROVE s[i] \in X
    OBVIOUS
  <2>1. i \in 1..Len(s)
    BY <1>1, <1>5
  <2> QED
    BY <2>1, ElementOfSeq
<1> QED
  BY <1>2, <1>3, <1>4, <1>5, <1>6, SubSeqProperties

\* Without a cut a text is one piece.
LEMMA CutNone ==
  ASSUME NEW X, NEW s \in Seq(X)
  PROVE  CutAt(s, {}) = <<s>>
<1>1. Cardinality({}) = 0 /\ Len(s) \in Nat /\ DOMAIN s = 1..Len(s)
  BY FS_EmptySet, LenProperties
<1>2. PieceAt(s, {}, 1) = 1..Len(s)
  <2>1. \A i \in 1..Len(s) : {c \in {} : c < i} = {}
    OBVIOUS
  <2>2. \A i \in 1..Len(s) : Before({}, i) = 0
    BY <1>1, <2>1 DEF Before
  <2> QED
    BY <1>1, <2>2 DEF PieceAt
<1>3. Stretch(s, PieceAt(s, {}, 1)) = s
  <2>1. 1 \in 1..(Len(s) + 1) /\ Len(s) \in 0..Len(s)
    BY <1>1
  <2>2. Stretch(s, 1..Len(s)) = SubSeq(s, 1, Len(s))
    BY <2>1, StretchOfInterval
  <2> QED
    BY <1>2, <2>2, SubSeqFull
<1>4. CutAt(s, {}) = [n \in 1..1 |-> Stretch(s, PieceAt(s, {}, n))]
  BY <1>1 DEF CutAt
<1>5. CutAt(s, {}) = [n \in 1..1 |-> s]
  BY <1>3, <1>4
<1> QED
  BY <1>5

\* The pieces are made of the characters that are not cut away.
LEMMA CutPieces ==
  ASSUME NEW X, NEW s \in Seq(X), NEW cuts \in SUBSET (1..Len(s)), NEW Y,
         \A i \in 1..Len(s) : i \notin cuts => s[i] \in Y
  PROVE  /\ CutAt(s, cuts) \in Seq(Seq(Y))
         /\ Len(CutAt(s, cuts)) = Cardinality(cuts) + 1
<1> DEFINE K == Cardinality(cuts)
<1>1. Len(s) \in Nat /\ DOMAIN s = 1..Len(s) /\ K \in Nat /\ IsFiniteSet(cuts)
  BY LenProperties, FiniteCuts
<1>2. ASSUME NEW n \in 1..(K + 1) PROVE Stretch(s, PieceAt(s, cuts, n)) \in Seq(Y)
  <2> DEFINE at == PieceAt(s, cuts, n)
             p == Stretch(s, at)
  <2>1. at \in SUBSET (1..Len(s)) /\ at \cap cuts = {}
        /\ \A i \in at : Before(cuts, i) = n - 1
    BY <1>1 DEF PieceAt
  <2> HIDE DEF at
  <2>2. ASSUME at = {} PROVE p \in Seq(Y)
    BY <2>2, EmptySeq DEF Stretch
  <2>3. ASSUME at # {} PROVE p \in Seq(Y)
    <3>1. /\ Min(at) \in 1..Len(s) /\ Max(at) \in 1..Len(s) /\ Min(at) <= Max(at)
          /\ Min(at) \in at /\ Max(at) \in at
      BY <2>1, <2>3, StretchType, Zenon
    <3>2. ASSUME NEW i \in Min(at)..Max(at), i \in cuts PROVE FALSE
      <4> DEFINE low == {c \in cuts : c < Min(at)}
                 high == {c \in cuts : c < Max(at)}
      <4>1. Min(at) < i /\ i < Max(at)
        BY <1>1, <2>1, <3>1, <3>2
      <4>2. low \in SUBSET high
        <5> SUFFICES ASSUME NEW c \in cuts, c < Min(at) PROVE c < Max(at)
          OBVIOUS
        <5>1. c \in Int /\ Min(at) \in Int /\ Max(at) \in Int
          BY <1>1, <3>1
        <5> QED
          BY <3>1, <5>1
      <4>3. i \in high /\ i \notin low
        BY <1>1, <3>1, <3>2, <4>1
      <4>4. IsFiniteSet(high)
        BY <1>1, FS_Subset
      <4>5. Cardinality(low) = Cardinality(high)
        BY <2>1, <3>1 DEF Before
      <4> HIDE DEF low, high
      <4> QED
        BY <4>2, <4>3, <4>4, <4>5, FS_Subset
    <3>3. \A i \in Min(at)..Max(at) : s[i] \in Y
      <4> SUFFICES ASSUME NEW i \in Min(at)..Max(at) PROVE s[i] \in Y
        OBVIOUS
      <4>1. i \in 1..Len(s)
        BY <1>1, <3>1
      <4> QED
        BY <3>2, <4>1
    <3>4. p = SubSeq(s, Min(at), Max(at))
      BY <2>3 DEF Stretch
    <3>5. Min(at) \in Int /\ Max(at) \in Int
      BY <3>1
    <3> QED
      BY <3>3, <3>4, <3>5, SubSeqProperties
  <2> QED
    BY <2>2, <2>3 DEF at
<1>3. CutAt(s, cuts) = [n \in 1..(K + 1) |-> Stretch(s, PieceAt(s, cuts, n))]
  BY DEF CutAt
<1>4. CutAt(s, cuts) \in [1..(K + 1) -> Seq(Y)]
  BY <1>2, <1>3
<1>5. CutAt(s, cuts) \in Seq(Seq(Y))
  <2>1. K + 1 \in Nat
    BY <1>1
  <2> HIDE DEF K
  <2> QED
    BY <1>4, <2>1, SeqDef
<1>6. Len(CutAt(s, cuts)) = K + 1
  <2>1. DOMAIN CutAt(s, cuts) = 1..(K + 1)
    BY <1>4
  <2>2. DOMAIN CutAt(s, cuts) = 1..Len(CutAt(s, cuts)) /\ Len(CutAt(s, cuts)) \in Nat
    BY <1>5, LenProperties
  <2> HIDE DEF K
  <2> QED
    BY <1>1, <2>1, <2>2
<1> QED
  BY <1>5, <1>6

\* A text, a separator and a text, character by character.
LEMMA ConcatThree ==
  ASSUME NEW X, NEW s \in Seq(X), NEW c \in X, NEW a \in Seq(X)
  PROVE  /\ s \o <<c>> \o a \in Seq(X)
         /\ Len(s \o <<c>> \o a) = (Len(s) + 1) + Len(a)
         /\ \A i \in 1..Len(s) : (s \o <<c>> \o a)[i] = s[i]
         /\ (s \o <<c>> \o a)[Len(s) + 1] = c
         /\ \A i \in 1..Len(a) : (s \o <<c>> \o a)[(Len(s) + 1) + i] = a[i]
<1>1. <<c>> \in Seq(X) /\ Len(<<c>>) = 1 /\ <<c>>[1] = c /\ Len(s) \in Nat /\ Len(a) \in Nat
  BY LenProperties
<1>2. /\ s \o <<c>> \in Seq(X) /\ Len(s \o <<c>>) = Len(s) + 1
      /\ \A i \in 1..Len(s) : (s \o <<c>>)[i] = s[i]
      /\ (s \o <<c>>)[Len(s) + 1] = c
  BY <1>1, ConcatProperties
<1> QED
  BY <1>1, <1>2, ConcatProperties

\* What follows one more cut at the end is one more piece.
LEMMA CutLast ==
  ASSUME NEW X, NEW s \in Seq(X), NEW c \in X, NEW a \in Seq(X),
         NEW cuts \in SUBSET (1..Len(s))
  PROVE  CutAt(s \o <<c>> \o a, cuts \cup {Len(s) + 1}) = Append(CutAt(s, cuts), a)
<1> DEFINE t == s \o <<c>> \o a
           k == Len(s) + 1
           all == cuts \cup {k}
           K == Cardinality(cuts)
<1>a. /\ t \in Seq(X) /\ Len(t) = k + Len(a)
      /\ \A i \in 1..Len(s) : t[i] = s[i]
      /\ \A i \in 1..Len(a) : t[k + i] = a[i]
  BY ConcatThree
<1> HIDE DEF t
<1> t \in Seq(X)
  BY <1>a
<1>1. /\ Len(s) \in Nat /\ Len(a) \in Nat /\ k \in Nat /\ DOMAIN t = 1..Len(t)
      /\ DOMAIN s = 1..Len(s) /\ \A d \in cuts : d \in Int /\ 1 <= d /\ d < k
      /\ Len(t) = k + Len(a) /\ k = Len(s) + 1 /\ t \in Seq(X)
  BY <1>a, LenProperties
<1> HIDE DEF k
<1>2. /\ IsFiniteSet(cuts) /\ K \in Nat
      /\ \A i \in Int : Before(cuts, i) \in 0..K
  BY <1>1, FiniteCuts
<1>3. Cardinality(all) = K + 1
  <2>1. k \notin cuts
    BY <1>1
  <2> QED
    BY <1>2, <2>1, FS_AddElement
<1>4. \A d : d \in all <=> d \in cuts \/ d = k
  OBVIOUS
<1>5. ASSUME NEW i \in 1..Len(s)
      PROVE  Before(all, i) = Before(cuts, i)
  <2>1. {d \in all : d < i} = {d \in cuts : d < i}
    BY <1>1, <1>4
  <2> QED
    BY <2>1 DEF Before
<1>6. ASSUME NEW i \in (k + 1)..Len(t) PROVE Before(all, i) = K + 1
  <2> HIDE DEF all, K
  <2>1. \A d \in all : d < i
    <3>1. k < i /\ i \in Int
      BY <1>1
    <3>2. \A d \in cuts : d < i
      BY <1>1, <3>1
    <3> QED
      BY <1>4, <3>1, <3>2
  <2>2. {d \in all : d < i} = all
    BY <2>1
  <2> QED
    BY <1>3, <2>2 DEF Before
<1> HIDE DEF all, K
<1>7. \A i \in 1..Len(t) : i \in DOMAIN t \ all <=>
                              i \in DOMAIN s \ cuts \/ i \in (k + 1)..Len(t)
  BY <1>1, <1>4
<1>8. ASSUME NEW n \in 1..(K + 1) PROVE PieceAt(t, all, n) = PieceAt(s, cuts, n)
  <2>1. ASSUME NEW i \in (k + 1)..Len(t) PROVE Before(all, i) # n - 1
    BY <1>2, <1>6
  <2> QED
    BY <1>1, <1>5, <1>7, <2>1 DEF PieceAt
<1>9. PieceAt(t, all, K + 2) = (k + 1)..Len(t)
  <2>1. ASSUME NEW i \in 1..Len(s) PROVE Before(all, i) # (K + 2) - 1
    BY <1>1, <1>2, <1>5
  <2>2. ASSUME NEW i \in (k + 1)..Len(t) PROVE Before(all, i) = (K + 2) - 1
    BY <1>2, <1>6
  <2> QED
    BY <1>1, <1>7, <2>1, <2>2 DEF PieceAt
<1>10. ASSUME NEW at \in SUBSET (1..Len(s)) PROVE Stretch(t, at) = Stretch(s, at)
  <2>1. CASE at = {}
    BY <2>1 DEF Stretch
  <2>2. CASE at # {}
    <3>1. at \in SUBSET (1..Len(t))
      BY <1>1
    <3>2. /\ Stretch(s, at) \in Seq(X) /\ Stretch(t, at) \in Seq(X)
          /\ Len(Stretch(s, at)) = Len(Stretch(t, at))
          /\ Len(Stretch(s, at)) = Max(at) - Min(at) + 1
          /\ Min(at) \in at /\ Max(at) \in at
          /\ \A j \in 1..Len(Stretch(t, at)) : Stretch(t, at)[j] = t[Min(at) + j - 1]
      BY <2>2, <3>1, StretchType
    <3>3. ASSUME NEW j \in 1..Len(Stretch(s, at))
          PROVE  Stretch(s, at)[j] = Stretch(t, at)[j]
      <4>1. Min(at) + j - 1 \in 1..Len(s)
        <5>1. Min(at) \in 1..Len(s) /\ Max(at) \in 1..Len(s)
          BY <3>2, Zenon
        <5>2. j \in 1..(Max(at) - Min(at) + 1)
          BY <3>2
        <5>3. Len(s) \in Nat
          BY <1>1
        <5> QED
          BY <5>1, <5>2, <5>3
      <4>2. Stretch(s, at)[j] = s[Min(at) + j - 1]
        BY <2>2, StretchType
      <4>3. Stretch(t, at)[j] = t[Min(at) + j - 1]
        BY <3>2
      <4> QED
        BY <1>a, <4>1, <4>2, <4>3
    <3> QED
      BY <3>2, <3>3, SeqEqual
  <2> QED
    BY <2>1, <2>2
<1>11. Stretch(t, (k + 1)..Len(t)) = a
  <2>1. k + 1 \in 1..(Len(t) + 1) /\ Len(t) \in 0..Len(t)
    BY <1>1
  <2>2. Stretch(t, (k + 1)..Len(t)) = SubSeq(t, k + 1, Len(t))
    BY <2>1, StretchOfInterval
  <2>3. \A i \in (k + 1)..Len(t) : t[i] \in X
    BY <1>1, ElementOfSeq
  <2>4. /\ SubSeq(t, k + 1, Len(t)) \in Seq(X)
        /\ Len(SubSeq(t, k + 1, Len(t))) = Len(a)
        /\ \A i \in 1..Len(a) : SubSeq(t, k + 1, Len(t))[i] = t[k + i]
    BY <1>1, <2>3, SubSeqProperties
  <2> QED
    BY <1>a, <1>1, <2>2, <2>4, SeqEqual
<1>12. \A n \in 1..(K + 1) : PieceAt(s, cuts, n) \in SUBSET (1..Len(s))
  BY <1>1 DEF PieceAt
<1>13. /\ CutAt(s, cuts) = [n \in 1..(K + 1) |-> Stretch(s, PieceAt(s, cuts, n))]
       /\ CutAt(t, all) = [n \in 1..(K + 2) |-> Stretch(t, PieceAt(t, all, n))]
  BY <1>2, <1>3 DEF CutAt, K
<1>14. /\ CutAt(s, cuts) \in Seq(Seq(X)) /\ Len(CutAt(s, cuts)) = K + 1
       /\ CutAt(t, all) \in Seq(Seq(X)) /\ Len(CutAt(t, all)) = K + 2
  <2>1. /\ \A i \in 1..Len(s) : s[i] \in X
        /\ \A i \in 1..Len(t) : t[i] \in X
    BY ElementOfSeq
  <2>2. all \in SUBSET (1..Len(t))
    <3>1. k \in 1..Len(t) /\ cuts \in SUBSET (1..Len(t))
      BY <1>1
    <3> QED
      BY <3>1 DEF all
  <2>3. CutAt(s, cuts) \in Seq(Seq(X)) /\ Len(CutAt(s, cuts)) = K + 1
    BY <2>1, CutPieces DEF K
  <2>4. CutAt(t, all) \in Seq(Seq(X)) /\ Len(CutAt(t, all)) = Cardinality(all) + 1
    BY <2>1, <2>2, CutPieces
  <2> QED
    BY <1>2, <1>3, <2>3, <2>4
<1>15. /\ Append(CutAt(s, cuts), a) \in Seq(Seq(X))
       /\ Len(Append(CutAt(s, cuts), a)) = K + 2
       /\ \A n \in 1..(K + 1) : Append(CutAt(s, cuts), a)[n] = CutAt(s, cuts)[n]
       /\ Append(CutAt(s, cuts), a)[K + 2] = a
  <2> DEFINE pieces == CutAt(s, cuts)
  <2>1. pieces \in Seq(Seq(X)) /\ Len(pieces) = K + 1 /\ a \in Seq(X)
    BY <1>14
  <2> HIDE DEF pieces
  <2>2. /\ Append(pieces, a) \in Seq(Seq(X)) /\ Len(Append(pieces, a)) = Len(pieces) + 1
        /\ \A n \in 1..Len(pieces) : Append(pieces, a)[n] = pieces[n]
        /\ Append(pieces, a)[Len(pieces) + 1] = a
    BY <2>1, AppendProperties
  <2>3. Len(pieces) + 1 = K + 2
    BY <1>2, <2>1
  <2> QED
    BY <2>1, <2>2, <2>3, Zenon DEF pieces
<1>16. ASSUME NEW n \in 1..(K + 1) PROVE CutAt(t, all)[n] = CutAt(s, cuts)[n]
  <2>1. Stretch(t, PieceAt(t, all, n)) = Stretch(s, PieceAt(s, cuts, n))
    BY <1>8, <1>10, <1>12
  <2> QED
    BY <1>2, <1>13, <2>1
<1>17. CutAt(t, all)[K + 2] = a
  <2>1. Stretch(t, PieceAt(t, all, K + 2)) = a
    BY <1>9, <1>11
  <2>2. K + 2 \in 1..(K + 2)
    BY <1>2
  <2> QED
    BY <1>13, <2>1, <2>2
<1>18. \A n \in 1..(K + 2) : CutAt(t, all)[n] = Append(CutAt(s, cuts), a)[n]
  <2>1. \A n \in 1..(K + 2) : n \in 1..(K + 1) \/ n = K + 2
    BY <1>2
  <2> QED
    BY <1>15, <1>16, <1>17, <2>1
<1> QED
  <2> DEFINE u == CutAt(t, all)
             v == Append(CutAt(s, cuts), a)
  <2>1. u \in Seq(Seq(X)) /\ v \in Seq(Seq(X)) /\ Len(u) = Len(v)
        /\ \A n \in 1..Len(u) : u[n] = v[n]
    BY <1>14, <1>15, <1>18
  <2> HIDE DEF u, v
  <2>2. u = v
    BY <2>1, SeqEqual
  <2> QED
    BY <2>2 DEF u, v, all, t, k

----------------------------------------------------------------------------
(* Split and Join *)

\* Join puts one part after the other.
LEMMA JoinUnfolds ==
  ASSUME NEW X, NEW sep \in X, NEW parts \in Seq(Seq(X)), parts # <<>>
  PROVE  \E j \in [1..Len(parts) -> Seq(X)] :
            /\ j[1] = parts[1]
            /\ \A n \in 2..Len(parts) : j[n] = j[n - 1] \o <<sep>> \o parts[n]
            /\ Join(parts, sep) = j[Len(parts)]
<1> DEFINE N == Len(parts)
           F == [n \in (1 + 1)..N |-> [s \in Seq(X) |-> s \o <<sep>> \o parts[n]]]
           joined[n \in 1..N] ==
             IF n = 1 THEN parts[1] ELSE joined[n - 1] \o <<sep>> \o parts[n]
<1>1. N \in Nat /\ 1 <= N /\ \A n \in 1..N : parts[n] \in Seq(X)
  BY EmptySeq, ElementOfSeq
<1>2. F \in [(1 + 1)..N -> [Seq(X) -> Seq(X)]]
  <2>1. \A n \in 2..N, s \in Seq(X) : s \o <<sep>> \o parts[n] \in Seq(X)
    BY <1>1, ConcatThree
  <2> QED
    BY <2>1
<1>3. PICK j \in [1..N -> Seq(X)] : Runs(j, 1, N, parts[1], F)
  <2> HIDE DEF F, N, joined
  <2>1. parts[1] \in Seq(X) /\ 1 \in Nat
    BY <1>1
  <2> QED
    BY <1>1, <1>2, <2>1, Recursion
<1>4. ASSUME NEW n \in 2..N PROVE j[n] = j[n - 1] \o <<sep>> \o parts[n]
  <2>1. n \in (1 + 1)..N /\ n - 1 \in 1..N
    BY <1>1
  <2> QED
    BY <1>3, <2>1 DEF Runs
<1>5. j = [n \in 1..N |-> IF n = 1 THEN parts[1] ELSE j[n - 1] \o <<sep>> \o parts[n]]
  <2>1. \A n \in 1..N : n = 1 \/ n \in 2..N
    BY <1>1
  <2> QED
    BY <1>3, <1>4, <2>1 DEF Runs
<1>6. joined = [n \in 1..N |-> IF n = 1 THEN parts[1] ELSE joined[n - 1] \o <<sep>> \o parts[n]]
  BY <1>5
<1>7. Join(parts, sep) = joined[N]
  BY DEF Join
<1> HIDE DEF joined, N
<1>8. joined[1] = parts[1] /\ \A n \in 2..N : joined[n] = joined[n - 1] \o <<sep>> \o parts[n]
  <2>1. 1 \in 1..N /\ \A n \in 2..N : n \in 1..N /\ n # 1
    BY <1>1
  <2> QED
    BY <1>6, <2>1, Zenon
<1>9. \A n \in 1..N : joined[n] \in Seq(X)
  <2> DEFINE P == {n \in 1..N : joined[n] \in Seq(X)}
  <2>1. 1 \in P
    BY <1>1, <1>8
  <2>2. ASSUME NEW n \in (1 + 1)..N, n - 1 \in P PROVE n \in P
    <3>1. n \in 2..N /\ n \in 1..N
      BY <1>1
    <3>2. joined[n] = joined[n - 1] \o <<sep>> \o parts[n]
      BY <1>8, <3>1
    <3>3. joined[n - 1] \in Seq(X) /\ parts[n] \in Seq(X)
      BY <1>1, <2>2, <3>1
    <3>4. joined[n] \in Seq(X)
      BY <3>2, <3>3, ConcatThree
    <3> QED
      BY <3>1, <3>4
  <2> HIDE DEF P
  <2>3. \A n \in 1..N : n \in P
    BY <1>1, <2>1, <2>2, Induction
  <2> QED
    BY <2>3 DEF P
<1>10. joined \in [1..N -> Seq(X)]
  BY <1>6, <1>9
<1> QED
  BY <1>7, <1>8, <1>10 DEF N

\* strings.Split of a text without the separator.
LEMMA SplitNone ==
  ASSUME NEW X, NEW sep, NEW a \in Seq(X \ {sep})
  PROVE  Split(a, sep) = <<a>>
<1>1. {i \in DOMAIN a : a[i] = sep} = {}
  BY LenProperties, ElementOfSeq
<1> QED
  BY <1>1, CutNone DEF Split

\* A separator and a text without one add one part.
LEMMA SplitLast ==
  ASSUME NEW X, NEW sep \in X, NEW s \in Seq(X), NEW a \in Seq(X \ {sep})
  PROVE  Split(s \o <<sep>> \o a, sep) = Append(Split(s, sep), a)
<1> DEFINE t == s \o <<sep>> \o a
           cuts == {i \in DOMAIN s : s[i] = sep}
           k == Len(s) + 1
<1>1. k = Len(s) + 1
  OBVIOUS
<1>2. a \in Seq(X)
  BY SeqMonotonic, X \ {sep} \subseteq X
<1>3. /\ t \in Seq(X) /\ Len(t) = k + Len(a) /\ t[k] = sep
      /\ \A i \in 1..Len(s) : t[i] = s[i]
      /\ \A i \in 1..Len(a) : t[k + i] = a[i]
  BY <1>1, <1>2, ConcatThree
<1> HIDE DEF t, k
<1>4. /\ Len(s) \in Nat /\ Len(a) \in Nat /\ Len(t) \in Nat /\ k \in Nat
      /\ DOMAIN s = 1..Len(s) /\ DOMAIN t = 1..Len(t)
  BY <1>1, <1>2, <1>3, LenProperties
<1>5. \A i \in 1..Len(t) : i \in 1..Len(s) \/ i = k \/ \E n \in 1..Len(a) : i = k + n
  <2> SUFFICES ASSUME NEW i \in 1..Len(t), i \notin 1..Len(s), i # k
               PROVE  i - k \in 1..Len(a) /\ i = k + (i - k)
    OBVIOUS
  <2>1. i > k
    BY <1>1, <1>4
  <2>2. i - k <= Len(a)
    BY <1>3, <1>4
  <2> QED
    BY <1>4, <2>1, <2>2
<1>6. \A n \in 1..Len(a) : a[n] # sep
  BY ElementOfSeq
<1>7. ASSUME NEW i \in 1..Len(t) PROVE t[i] = sep <=> i \in cuts \cup {k}
  <2>1. CASE i \in 1..Len(s)
    <3>1. t[i] = s[i] /\ i # k
      BY <1>1, <1>3, <1>4, <2>1
    <3> QED
      BY <1>4, <2>1, <3>1
  <2>2. CASE i = k
    BY <1>3, <2>2
  <2>3. ASSUME NEW n \in 1..Len(a), i = k + n PROVE t[i] # sep /\ i \notin cuts \cup {k}
    BY <1>1, <1>3, <1>4, <1>6, <2>3
  <2> QED
    BY <1>5, <2>1, <2>2, <2>3
<1>8. cuts \in SUBSET (1..Len(s)) /\ cuts \cup {k} \in SUBSET (1..Len(t))
  BY <1>1, <1>3, <1>4
<1> HIDE DEF cuts
<1>9. {i \in DOMAIN t : t[i] = sep} = cuts \cup {k}
  BY <1>4, <1>7, <1>8
<1>10. CutAt(t, cuts \cup {k}) = Append(CutAt(s, cuts), a)
  <2>1. cuts \in SUBSET (1..Len(s))
    BY <1>8
  <2>2. CutAt(s \o <<sep>> \o a, cuts \cup {Len(s) + 1}) = Append(CutAt(s, cuts), a)
    BY <1>2, <2>1, CutLast
  <2> QED
    BY <2>2 DEF t, k
<1> QED
  BY <1>9, <1>10 DEF Split, t, cuts, k

\* What is joined of pieces without the separator splits into these pieces.
LEMMA SplitJoin ==
  ASSUME NEW X, NEW sep \in X, NEW parts \in Seq(Seq(X \ {sep})), parts # <<>>
  PROVE  Join(parts, sep) \in Seq(X) /\ Split(Join(parts, sep), sep) = parts
<1> DEFINE N == Len(parts)
<1>1. N = Len(parts)
  OBVIOUS
<1>2. N \in Nat /\ 1 <= N /\ parts \in Seq(Seq(X))
      /\ \A n \in 1..N : parts[n] \in Seq(X \ {sep}) /\ parts[n] \in Seq(X)
  <2>1. Seq(X \ {sep}) \subseteq Seq(X)
    BY SeqMonotonic
  <2> QED
    BY <1>1, <2>1, EmptySeq, ElementOfSeq, SeqMonotonic
<1>3. PICK j \in [1..N -> Seq(X)] :
         /\ j[1] = parts[1]
         /\ \A n \in 2..N : j[n] = j[n - 1] \o <<sep>> \o parts[n]
         /\ Join(parts, sep) = j[N]
  BY <1>2, JoinUnfolds, Zenon
<1> HIDE DEF N
<1> DEFINE P == {n \in 1..N : Split(j[n], sep) = SubSeq(parts, 1, n)}
<1>4. 1 \in P
  <2>1. Split(parts[1], sep) = <<parts[1]>>
    <3>1. parts[1] \in Seq(X \ {sep})
      BY <1>2
    <3> QED
      BY <3>1, SplitNone, Zenon
  <2>2. SubSeq(parts, 1, 1) = <<parts[1]>>
    <3>1. SubSeq(parts, 1, 1) = <<parts[1]>> \o SubSeq(parts, 2, 1)
      BY <1>1, <1>2, SubSeqRecursiveFirst
    <3>2. SubSeq(parts, 2, 1) = <<>> /\ <<parts[1]>> \in Seq(Seq(X))
      BY <1>2, SubSeqEmpty
    <3> QED
      BY <3>1, <3>2, ConcatEmptySeq
  <2> QED
    BY <1>2, <1>3, <2>1, <2>2
<1>5. ASSUME NEW n \in (1 + 1)..N, n - 1 \in P PROVE n \in P
  <2>1. n \in 1..N /\ n \in 2..N /\ n - 1 \in 1..N
    BY <1>2
  <2>2. Split(j[n], sep) = Append(Split(j[n - 1], sep), parts[n])
    <3>1. j[n - 1] \in Seq(X) /\ parts[n] \in Seq(X \ {sep})
      BY <1>2, <2>1
    <3>2. j[n] = j[n - 1] \o <<sep>> \o parts[n]
      BY <1>3, <2>1
    <3> QED
      BY <3>1, <3>2, SplitLast, Zenon
  <2>3. SubSeq(parts, 1, n) = SubSeq(parts, 1, n - 1) \o <<parts[n]>>
    BY <1>1, <1>2, <2>1, SubSeqRecursiveSecond
  <2>4. SubSeq(parts, 1, n - 1) \in Seq(Seq(X))
    <3>1. \A i \in 1..(n - 1) : parts[i] \in Seq(X)
      BY <1>2
    <3> QED
      BY <2>1, <3>1, SubSeqProperties
  <2>5. Append(SubSeq(parts, 1, n - 1), parts[n]) = SubSeq(parts, 1, n)
    BY <1>2, <2>1, <2>3, <2>4, AppendIsConcat
  <2> QED
    BY <1>5, <2>1, <2>2, <2>5
<1>6. N \in 1..N
  BY <1>2
<1> HIDE DEF P
<1>7. N \in P
  BY <1>2, <1>4, <1>5, <1>6, Induction
<1> QED
  BY <1>1, <1>2, <1>3, <1>6, <1>7, SubSeqFull DEF P

\* The parts of a text are free of the separator, and there is at least one.
LEMMA SplitPieces ==
  ASSUME NEW X, NEW sep, NEW s \in Seq(X)
  PROVE  /\ Split(s, sep) \in Seq(Seq(X \ {sep}))
         /\ Len(Split(s, sep)) \in Nat /\ Len(Split(s, sep)) >= 1
         /\ \A n \in DOMAIN Split(s, sep) : Split(s, sep)[n] \in Seq(X \ {sep})
<1> DEFINE cuts == {i \in DOMAIN s : s[i] = sep}
<1>1. DOMAIN s = 1..Len(s) /\ Len(s) \in Nat /\ cuts \in SUBSET (1..Len(s))
  BY LenProperties
<1>2. \A i \in 1..Len(s) : i \notin cuts => s[i] \in X \ {sep}
  BY <1>1, ElementOfSeq
<1> HIDE DEF cuts
<1>3. CutAt(s, cuts) \in Seq(Seq(X \ {sep})) /\ Len(CutAt(s, cuts)) = Cardinality(cuts) + 1
  BY <1>1, <1>2, CutPieces
<1>4. Cardinality(cuts) \in Nat
  BY <1>1, FiniteCuts
<1>5. Split(s, sep) = CutAt(s, cuts)
  BY DEF Split, cuts
<1>6. \A n \in DOMAIN Split(s, sep) : Split(s, sep)[n] \in Seq(X \ {sep})
  BY <1>3, <1>5, LenProperties, ElementOfSeq
<1> QED
  BY <1>3, <1>4, <1>5, <1>6

----------------------------------------------------------------------------
(* Object keys *)

\* What stands between two "/".
Part == Seq(GVKChars \ {"/"})

\* A GVK the code accepts has three parts without a "/", version and kind among
\* them, the group possibly blank.
LEMMA ParsedGVK ==
  ASSUME NEW entry \in Seq(GVKChars), ParseGVK(entry) # Invalid
  PROVE  /\ ParseGVK(entry) \in Seq(Part) /\ Len(ParseGVK(entry)) = 3
         /\ ParseGVK(entry)[2] # <<>> /\ ParseGVK(entry)[3] # <<>>
<1> DEFINE parts == Split(TrimSpace(entry), "/")
<1>1. TrimSpace(entry) \in Seq(GVKChars)
  <2> DEFINE at == {i \in DOMAIN entry : entry[i] # " "}
  <2>1. at \in SUBSET (1..Len(entry))
    BY LenProperties
  <2> HIDE DEF at
  <2>2. Stretch(entry, at) \in Seq(GVKChars)
    BY <2>1, StretchType, EmptySeq DEF Stretch
  <2> QED
    BY <2>2 DEF TrimSpace, at
<1>2. parts \in Seq(Part)
  BY <1>1, SplitPieces DEF Part
<1>3. CASE Len(parts) = 2
  <2>1. parts[1] \in Part /\ parts[2] \in Part /\ <<>> \in Part
    <3> HIDE DEF parts
    <3> QED
      BY <1>2, <1>3, EmptySeq DEF Part
  <2>2. ParseGVK(entry) = <<<<>>, parts[1], parts[2]>> /\ parts[1] # <<>> /\ parts[2] # <<>>
    BY <1>3 DEF ParseGVK
  <2> HIDE DEF parts
  <2> QED
    BY <2>1, <2>2
<1>4. CASE Len(parts) = 3
  <2>1. ParseGVK(entry) = parts /\ parts[2] # <<>> /\ parts[3] # <<>>
    BY <1>4 DEF ParseGVK
  <2> QED
    BY <1>2, <1>4, <2>1
<1>5. CASE Len(parts) # 2 /\ Len(parts) # 3
  BY <1>5 DEF ParseGVK
<1> QED
  BY <1>3, <1>4, <1>5

\* A key is taken apart into what it was made of.
LEMMA KeyIsReadBack ==
  ASSUME NEW gvk \in Seq(Part), Len(gvk) = 3, gvk[3] # <<>>,
         NEW ns \in Part, NEW name \in Part, name # <<>>
  PROVE  ParseKey(getObjectKey(gvk, ns, name)) = gvk \o <<ns, name>>
<1> DEFINE last == <<ns, name>>
           parts == gvk \o last
<1>1. last \in Seq(Part) /\ Len(last) = 2 /\ last[2] = name
  OBVIOUS
<1> HIDE DEF last
<1>2. /\ parts \in Seq(Part) /\ Len(parts) = 5
      /\ \A i \in 1..5 : parts[i] = IF i <= 3 THEN gvk[i] ELSE last[i - 3]
  <2> HIDE DEF parts
  <2>1. /\ parts \in Seq(Part) /\ Len(parts) = Len(gvk) + Len(last)
        /\ \A i \in 1..(Len(gvk) + Len(last)) :
              parts[i] = IF i <= Len(gvk) THEN gvk[i] ELSE last[i - Len(gvk)]
    BY <1>1, ConcatProperties DEF parts
  <2>2. Len(gvk) + Len(last) = 5
    BY <1>1
  <2> QED
    BY <1>1, <2>1, <2>2
<1>3. parts[3] = gvk[3] /\ parts[5] = name
  BY <1>1, <1>2
<1>4. parts # <<>> /\ "/" \in GVKChars
  BY <1>2 DEF GVKChars
<1> HIDE DEF parts
<1>5. Split(Join(parts, "/"), "/") = parts
  BY <1>2, <1>4, SplitJoin DEF Part
<1>6. ParseKey(Join(parts, "/")) = parts
  BY <1>2, <1>3, <1>5 DEF ParseKey
<1> QED
  BY <1>6 DEF getObjectKey, parts, last

\* The key of a child of any GVK of a pattern is read back as that child.
LEMMA ChildKeys ==
  ASSUME NEW pattern \in Seq(GVKChars), NEW gvk \in ParseGVKs(pattern),
         NEW ns \in {<<>>, <<"w">>}
  PROVE  ParseKey(getObjectKey(gvk, ns, <<"w">>)) = gvk \o <<ns, <<"w">>>>
<1>1. PICK entry \in Seq(GVKChars) : gvk = ParseGVK(entry) /\ gvk # Invalid
  <2>1. PICK n \in DOMAIN Split(pattern, ";") : gvk = ParseGVK(Split(pattern, ";")[n])
    BY DEF ParseGVKs
  <2>2. Split(pattern, ";")[n] \in Seq(GVKChars \ {";"})
    BY SplitPieces
  <2>3. Split(pattern, ";")[n] \in Seq(GVKChars)
    BY <2>2, SeqMonotonic, GVKChars \ {";"} \subseteq GVKChars
  <2> QED
    BY <2>1, <2>3 DEF ParseGVKs
<1>2. gvk \in Seq(Part) /\ Len(gvk) = 3 /\ gvk[3] # <<>>
  BY <1>1, ParsedGVK
<1>3. "w" \in GVKChars \ {"/"}
  BY DEF GVKChars
<1>4. <<>> \in Part /\ <<"w">> \in Part /\ <<"w">> # <<>>
  BY <1>3, EmptySeq DEF Part
<1>5. ns \in Part
  BY <1>4
<1> QED
  BY <1>2, <1>4, <1>5, KeyIsReadBack

----------------------------------------------------------------------------
(* Qualified names *)

Quote == "\""

\* Nothing is quoted before the first character, and a quote changes that for
\* all that follows.
LEMMA QuoteStep ==
  ASSUME NEW X, NEW s \in Seq(X)
  PROVE  /\ ~InQuotes(s, 1)
         /\ \A i \in 1..Len(s) :
               InQuotes(s, i + 1) <=> (IF s[i] = Quote THEN ~InQuotes(s, i) ELSE InQuotes(s, i))
<1> DEFINE Q(i) == {j \in 1..(i - 1) : s[j] = Quote}
<1>1. ~InQuotes(s, 1)
  <2>1. {j \in 1..(1 - 1) : s[j] = "\""} = {}
    OBVIOUS
  <2> QED
    BY <2>1, FS_EmptySet DEF InQuotes
<1>2. ASSUME NEW i \in 1..Len(s)
      PROVE  InQuotes(s, i + 1) <=> (IF s[i] = Quote THEN ~InQuotes(s, i) ELSE InQuotes(s, i))
  <2>1. Len(s) \in Nat /\ i \in Nat
    BY LenProperties
  <2>2. PICK q : q = Q(i)
    OBVIOUS
  <2>3. IsFiniteSet(q) /\ Cardinality(q) \in Nat /\ i \notin q
    <3>1. q \in SUBSET (1..(i - 1))
      BY <2>2
    <3>2. IsFiniteSet(1..(i - 1))
      BY <2>1, FS_Interval
    <3>3. IsFiniteSet(q)
      BY <3>1, <3>2, FS_Subset
    <3> QED
      BY <3>1, <3>3, <2>1, FS_CardinalityType
  <2>4. InQuotes(s, i) <=> Cardinality(q) % 2 = 1
    BY <2>2 DEF InQuotes, Quote
  <2>5. CASE s[i] = Quote
    <3>1. Q(i + 1) = q \cup {i}
      BY <2>1, <2>2, <2>5
    <3>2. Cardinality(q \cup {i}) = Cardinality(q) + 1
      BY <2>3, FS_AddElement
    <3>3. InQuotes(s, i + 1) <=> (Cardinality(q) + 1) % 2 = 1
      BY <3>1, <3>2 DEF InQuotes, Quote
    <3> QED
      BY <2>3, <2>4, <2>5, <3>3
  <2>6. CASE s[i] # Quote
    <3>1. Q(i + 1) = q
      BY <2>1, <2>2, <2>6
    <3>2. InQuotes(s, i + 1) <=> Cardinality(q) % 2 = 1
      BY <3>1 DEF InQuotes, Quote
    <3> QED
      BY <2>4, <2>6, <3>2
  <2> QED
    BY <2>5, <2>6
<1> QED
  BY <1>1, <1>2

\* A text that starts like s is quoted like s that far.
LEMMA QuotePrefix ==
  ASSUME NEW X, NEW s \in Seq(X), NEW t \in Seq(X), Len(s) <= Len(t),
         \A i \in 1..Len(s) : t[i] = s[i]
  PROVE  \A i \in 1..(Len(s) + 1) : InQuotes(t, i) <=> InQuotes(s, i)
<1> DEFINE P == {i \in 1..(Len(s) + 1) : InQuotes(t, i) <=> InQuotes(s, i)}
<1>1. Len(s) \in Nat /\ Len(t) \in Nat
  BY LenProperties
<1>2. 1 \in P
  BY <1>1, QuoteStep
<1>3. ASSUME NEW i \in (1 + 1)..(Len(s) + 1), i - 1 \in P PROVE i \in P
  <2>1. i - 1 \in 1..Len(s) /\ i - 1 \in 1..Len(t) /\ (i - 1) + 1 = i /\ i \in 1..(Len(s) + 1)
    BY <1>1
  <2>2. t[i - 1] = s[i - 1] /\ (InQuotes(t, i - 1) <=> InQuotes(s, i - 1))
    BY <1>3, <2>1
  <2>3. InQuotes(s, (i - 1) + 1) <=>
          (IF s[i - 1] = Quote THEN ~InQuotes(s, i - 1) ELSE InQuotes(s, i - 1))
    BY <2>1, QuoteStep
  <2>4. InQuotes(t, (i - 1) + 1) <=>
          (IF t[i - 1] = Quote THEN ~InQuotes(t, i - 1) ELSE InQuotes(t, i - 1))
    BY <2>1, QuoteStep
  <2> QED
    BY <2>1, <2>2, <2>3, <2>4
<1> HIDE DEF P
<1>4. \A i \in 1..(Len(s) + 1) : i \in P
  <2>1. 1 \in Nat /\ Len(s) + 1 \in Nat
    BY <1>1
  <2> QED
    BY <1>2, <1>3, <2>1, Induction
<1> QED
  BY <1>4 DEF P

\* Within a text, a is quoted as on its own if it starts outside quotes, and
\* the other way round if it starts inside them.
LEMMA QuoteShift ==
  ASSUME NEW X, NEW t \in Seq(X), NEW a \in Seq(X), NEW m \in Nat, m + Len(a) <= Len(t),
         \A i \in 1..Len(a) : t[m + i] = a[i]
  PROVE  \A i \in 1..(Len(a) + 1) :
           InQuotes(t, m + i) <=> (IF InQuotes(t, m + 1) THEN ~InQuotes(a, i) ELSE InQuotes(a, i))
<1> DEFINE Same(i) == InQuotes(t, m + i) <=>
             (IF InQuotes(t, m + 1) THEN ~InQuotes(a, i) ELSE InQuotes(a, i))
           P == {i \in 1..(Len(a) + 1) : Same(i)}
<1>1. Len(a) \in Nat /\ Len(t) \in Nat
  BY LenProperties
<1>2. 1 \in P
  BY <1>1, QuoteStep
<1>3. ASSUME NEW i \in (1 + 1)..(Len(a) + 1), i - 1 \in P PROVE i \in P
  <2>1. /\ i - 1 \in 1..Len(a) /\ m + (i - 1) \in 1..Len(t)
        /\ (i - 1) + 1 = i /\ (m + (i - 1)) + 1 = m + i /\ i \in 1..(Len(a) + 1)
    BY <1>1
  <2>2. t[m + (i - 1)] = a[i - 1] /\ Same(i - 1)
    BY <1>3, <2>1
  <2>3. InQuotes(a, (i - 1) + 1) <=>
          (IF a[i - 1] = Quote THEN ~InQuotes(a, i - 1) ELSE InQuotes(a, i - 1))
    BY <2>1, QuoteStep
  <2>4. InQuotes(t, (m + (i - 1)) + 1) <=>
          (IF t[m + (i - 1)] = Quote THEN ~InQuotes(t, m + (i - 1)) ELSE InQuotes(t, m + (i - 1)))
    BY <2>1, QuoteStep
  <2> QED
    BY <2>1, <2>2, <2>3, <2>4
<1> HIDE DEF P
<1>4. \A i \in 1..(Len(a) + 1) : i \in P
  <2>1. 1 \in Nat /\ Len(a) + 1 \in Nat
    BY <1>1
  <2> QED
    BY <1>2, <1>3, <2>1, Induction
<1> QED
  BY <1>4 DEF P

\* Every quotation of s ends in s.
Closed(s) == ~InQuotes(s, Len(s) + 1)

\* Doubled quotes leave nothing open.
LEMMA PairedIsClosed ==
  ASSUME NEW X, NEW s \in Seq(X), QuotesPaired(s)
  PROVE  Closed(s)
<1>1. Len(s) \in Nat
  BY LenProperties
<1>2. ASSUME NEW i \in 1..Len(s), s[i] = Quote, ~InQuotes(s, i)
      PROVE  i < Len(s) /\ s[i + 1] = Quote
  BY <1>2, LenProperties DEF QuotesPaired, Quote
<1> DEFINE P == {i \in Nat : i <= Len(s) /\ InQuotes(s, i) => s[i] = Quote}
<1>3. 1 \in P
  BY QuoteStep
<1>4. ASSUME NEW i \in (1 + 1)..Len(s), i - 1 \in P, InQuotes(s, i) PROVE s[i] = Quote
  <2>1. i - 1 \in 1..Len(s) /\ (i - 1) + 1 = i
    BY <1>1
  <2>2. InQuotes(s, (i - 1) + 1) <=>
          (IF s[i - 1] = Quote THEN ~InQuotes(s, i - 1) ELSE InQuotes(s, i - 1))
    BY <2>1, QuoteStep
  <2>3. s[i - 1] = Quote
    BY <1>4, <2>1, <2>2
  <2> QED
    BY <1>2, <1>4, <2>1, <2>2, <2>3
<1>5. \A i \in (1 + 1)..Len(s) : i - 1 \in P => i \in P
  BY <1>1, <1>4
<1> HIDE DEF P
<1>6. \A i \in 1..Len(s) : i \in P
  <2>1. 1 \in Nat
    OBVIOUS
  <2> QED
    BY <1>1, <1>3, <1>5, <2>1, Induction
<1>7. CASE Len(s) = 0
  <2>1. Len(s) + 1 = 1
    BY <1>7
  <2> QED
    BY <2>1, QuoteStep DEF Closed
<1>8. CASE Len(s) # 0
  <2>1. Len(s) \in 1..Len(s)
    BY <1>1, <1>8
  <2>2. InQuotes(s, Len(s)) => s[Len(s)] = Quote
    BY <1>1, <1>6, <2>1 DEF P
  <2>3. s[Len(s)] = Quote => InQuotes(s, Len(s))
    BY <1>1, <1>2, <2>1
  <2>4. InQuotes(s, Len(s) + 1) <=>
          (IF s[Len(s)] = Quote THEN ~InQuotes(s, Len(s)) ELSE InQuotes(s, Len(s)))
    BY <2>1, QuoteStep
  <2> QED
    BY <2>2, <2>3, <2>4 DEF Closed
<1> QED
  BY <1>7, <1>8

\* Neither does a part in quotes whose inner quotes are doubled.
LEMMA QuotedIsClosed ==
  ASSUME NEW X, NEW s \in Seq(X), Quoted(s), QuotesPaired(Inner(s))
  PROVE  Closed(s)
<1> DEFINE a == Inner(s)
<1>1. Len(s) \in Nat /\ Len(s) >= 2 /\ s[1] = Quote /\ s[Len(s)] = Quote
  BY LenProperties DEF Quoted, Quote
<1>2. a \in Seq(X) /\ Len(a) = Len(s) - 2 /\ \A i \in 1..Len(a) : s[1 + i] = a[i]
  <2>1. \A i \in 2..(Len(s) - 1) : s[i] \in X
    BY <1>1, ElementOfSeq
  <2>2. /\ a \in Seq(X) /\ Len(a) = IF 2 <= Len(s) - 1 THEN (Len(s) - 1) - 2 + 1 ELSE 0
        /\ \A i \in 1..((Len(s) - 1) - 2 + 1) : a[i] = s[2 + i - 1]
    BY <1>1, <2>1, SubSeqProperties DEF Inner
  <2> HIDE DEF a
  <2>3. Len(a) = Len(s) - 2
    <3>1. CASE Len(s) = 2
      BY <2>2, <3>1
    <3>2. CASE Len(s) >= 3
      BY <1>1, <2>2, <3>2
    <3>3. Len(s) = 2 \/ Len(s) >= 3
      <4>1. \A n \in Nat : n >= 2 => n = 2 \/ n >= 3
        OBVIOUS
      <4> QED
        BY <1>1, <4>1, Zenon
    <3> QED
      BY <3>1, <3>2, <3>3
  <2> QED
    BY <1>1, <2>2, <2>3
<1> HIDE DEF a
<1>3. InQuotes(s, 1 + 1)
  <2>1. 1 \in 1..Len(s)
    BY <1>1
  <2> QED
    BY <1>1, <2>1, QuoteStep
<1>4. ~InQuotes(a, Len(a) + 1)
  BY <1>2, PairedIsClosed DEF Closed, a
<1>5. InQuotes(s, 1 + (Len(a) + 1))
  <2>1. 1 \in Nat /\ 1 + Len(a) <= Len(s) /\ Len(a) + 1 \in 1..(Len(a) + 1)
    BY <1>1, <1>2
  <2> QED
    BY <1>2, <1>3, <1>4, <2>1, QuoteShift
<1>6. 1 + (Len(a) + 1) = Len(s) /\ Len(s) \in 1..Len(s)
  BY <1>1, <1>2
<1> QED
  BY <1>1, <1>5, <1>6, QuoteStep DEF Closed

\* A dot outside quotes and a text that closes its quotations keep s whole.
LEMMA WholeStep ==
  ASSUME NEW X, NEW s \in Seq(X), NEW a \in Seq(X), "." \in X,
         Closed(s), ~DotInQuotes(s), Closed(a), ~DotInQuotes(a)
  PROVE  Closed(s \o <<".">> \o a) /\ ~DotInQuotes(s \o <<".">> \o a)
<1> DEFINE t == s \o <<".">> \o a
           k == Len(s) + 1
<1>1. k = Len(s) + 1
  OBVIOUS
<1>2. /\ t \in Seq(X) /\ Len(t) = k + Len(a) /\ t[k] = "."
      /\ \A i \in 1..Len(s) : t[i] = s[i]
      /\ \A i \in 1..Len(a) : t[k + i] = a[i]
  BY <1>1, ConcatThree
<1> HIDE DEF t, k
<1>3. /\ Len(s) \in Nat /\ Len(a) \in Nat /\ Len(t) \in Nat /\ k \in Nat
      /\ DOMAIN s = 1..Len(s) /\ DOMAIN t = 1..Len(t) /\ DOMAIN a = 1..Len(a)
  BY <1>1, <1>2, LenProperties
<1>4. \A i \in 1..k : InQuotes(t, i) <=> InQuotes(s, i)
  <2>1. Len(s) <= Len(t)
    BY <1>1, <1>2, <1>3
  <2>2. \A i \in 1..(Len(s) + 1) : InQuotes(t, i) <=> InQuotes(s, i)
    BY <1>2, <2>1, QuotePrefix
  <2> QED
    BY <1>1, <2>2
<1>5. ~InQuotes(t, k)
  <2>1. k \in 1..k
    BY <1>1, <1>3
  <2> QED
    BY <1>1, <1>4, <2>1 DEF Closed
<1>6. ~InQuotes(t, k + 1)
  <2>1. k \in 1..Len(t) /\ t[k] # Quote
    BY <1>1, <1>2, <1>3 DEF Quote
  <2> QED
    BY <1>2, <1>5, <2>1, QuoteStep
<1>7. \A i \in 1..(Len(a) + 1) : InQuotes(t, k + i) <=> InQuotes(a, i)
  <2>1. k + Len(a) <= Len(t)
    BY <1>2, <1>3
  <2>2. \A i \in 1..(Len(a) + 1) :
           InQuotes(t, k + i) <=> (IF InQuotes(t, k + 1) THEN ~InQuotes(a, i) ELSE InQuotes(a, i))
    BY <1>2, <1>3, <2>1, QuoteShift
  <2> QED
    BY <1>6, <2>2
<1>8. Closed(t)
  <2>1. Len(a) + 1 \in 1..(Len(a) + 1) /\ k + (Len(a) + 1) = Len(t) + 1
    BY <1>2, <1>3
  <2> QED
    BY <1>7, <2>1 DEF Closed
<1>9. ASSUME NEW i \in 1..Len(t), t[i] = "." PROVE ~InQuotes(t, i)
  <2>1. CASE i \in 1..Len(s)
    <3>1. i \in 1..k /\ s[i] = "."
      BY <1>1, <1>2, <1>3, <1>9, <2>1
    <3>2. ~InQuotes(s, i)
      BY <1>3, <2>1, <3>1 DEF DotInQuotes
    <3> QED
      BY <1>4, <3>1, <3>2
  <2>2. CASE i = k
    BY <1>5, <2>2
  <2>3. CASE i \notin 1..Len(s) /\ i # k
    <3>1. i - k \in 1..Len(a) /\ k + (i - k) = i /\ i - k \in 1..(Len(a) + 1)
      <4>1. i > k
        BY <1>1, <1>3, <2>3
      <4>2. i - k <= Len(a)
        BY <1>2, <1>3
      <4> QED
        BY <1>3, <4>1, <4>2
    <3>2. a[i - k] = "."
      BY <1>2, <1>9, <3>1
    <3>3. ~InQuotes(a, i - k)
      BY <1>3, <3>1, <3>2 DEF DotInQuotes
    <3> QED
      BY <1>7, <3>1, <3>3
  <2> QED
    BY <2>1, <2>2, <2>3
<1>10. ~DotInQuotes(t)
  BY <1>3, <1>9 DEF DotInQuotes
<1> QED
  BY <1>8, <1>10 DEF t

\* No dot is quoted in the join of parts that close their quotations.
LEMMA WholeJoin ==
  ASSUME NEW X, "." \in X, NEW parts \in Seq(Seq(X)), parts # <<>>,
         \A n \in DOMAIN parts : Closed(parts[n]) /\ ~DotInQuotes(parts[n])
  PROVE  ~DotInQuotes(Join(parts, "."))
<1> DEFINE N == Len(parts)
<1>1. N \in Nat /\ 1 <= N /\ \A n \in 1..N : parts[n] \in Seq(X)
                                    /\ Closed(parts[n]) /\ ~DotInQuotes(parts[n])
  BY EmptySeq, ElementOfSeq, LenProperties
<1>2. PICK j \in [1..N -> Seq(X)] :
         /\ j[1] = parts[1]
         /\ \A n \in 2..N : j[n] = j[n - 1] \o <<".">> \o parts[n]
         /\ Join(parts, ".") = j[N]
  BY JoinUnfolds, Zenon
<1> HIDE DEF N
<1> DEFINE P == {n \in 1..N : Closed(j[n]) /\ ~DotInQuotes(j[n])}
<1>3. 1 \in P
  BY <1>1, <1>2
<1>4. ASSUME NEW n \in (1 + 1)..N, n - 1 \in P PROVE n \in P
  <2>1. n \in 1..N /\ n \in 2..N /\ n - 1 \in 1..N
    BY <1>1
  <2>2. j[n - 1] \in Seq(X) /\ parts[n] \in Seq(X) /\ Closed(parts[n]) /\ ~DotInQuotes(parts[n])
    BY <1>1, <2>1
  <2>3. Closed(j[n - 1]) /\ ~DotInQuotes(j[n - 1])
    BY <1>4
  <2>4. j[n] = j[n - 1] \o <<".">> \o parts[n]
    BY <1>2, <2>1
  <2>5. Closed(j[n]) /\ ~DotInQuotes(j[n])
    BY <2>2, <2>3, <2>4, WholeStep, Zenon
  <2> QED
    BY <2>1, <2>5
<1>5. N \in 1..N
  BY <1>1
<1> HIDE DEF P
<1>6. N \in P
  BY <1>1, <1>3, <1>4, <1>5, Induction
<1> QED
  BY <1>2, <1>6 DEF P

----------------------------------------------------------------------------
(* Names of tables and columns *)

\* What stands between two dots.
PartChars == NameChars \ {"."}

\* SanitizePart refuses what PostgreSQL would refuse, and passes on the rest as
\* a name, without capitals outside quotes under the one PostgreSQL reads in it.
LEMMA SanitizedPart ==
  ASSUME NEW p \in Seq(PartChars), Quoted(p) => QuotesPaired(Inner(p))
  PROVE  /\ SanitizePart(p) = Invalid <=> PostgresName(p) = Invalid
         /\ SanitizePart(p) # Invalid =>
              /\ SanitizePart(p) \in Seq(PartChars)
              /\ Closed(SanitizePart(p))
              /\ PostgresName(SanitizePart(p)) # Invalid
              /\ ~Capital(p) => PostgresName(SanitizePart(p)) = PostgresName(p)
<1>1. CASE Quoted(p)
  <2>1. ~ValidUnquoted(p)
    BY <1>1 DEF Quoted, ValidUnquoted
  <2>2. CASE Inner(p) = <<>>
    <3>1. SanitizePart(p) = Invalid
      BY <1>1, <2>1, <2>2 DEF SanitizePart
    <3>2. PostgresName(p) = Invalid
      BY <1>1, <2>1, <2>2 DEF PostgresName
    <3> QED
      BY <3>1, <3>2
  <2>3. CASE Inner(p) # <<>>
    <3>1. SanitizePart(p) = p
      BY <1>1, <2>1, <2>3 DEF SanitizePart
    <3>2. PostgresName(p) = Inner(p)
      BY <1>1, <2>1, <2>3 DEF PostgresName
    <3>3. Closed(p)
      BY <1>1, QuotedIsClosed
    <3>4. p # <<>>
      <4>1. ~Quoted(<<>>)
        <5>1. Len(<<>>) = 0 /\ ~(0 >= 2)
          BY EmptySeq
        <5>2. ~(Len(<<>>) >= 2)
          BY <5>1
        <5> QED
          BY <5>2, Zenon DEF Quoted
      <4> QED
        BY <1>1, <4>1, Zenon
    <3> QED
      BY <2>3, <3>1, <3>2, <3>3, <3>4 DEF Invalid
  <2> QED
    BY <2>2, <2>3
<1>2. CASE ~Quoted(p) /\ ValidUnquoted(p)
  <2> DEFINE c == <<Quote>> \o p \o <<Quote>>
  <2>1. \A i \in DOMAIN p : p[i] # Quote
    BY <1>2 DEF ValidUnquoted, Quote
  <2>2. SanitizePart(p) = c
    BY <1>2, <2>1 DEF SanitizePart, quotePGIdentifier, ReplaceChar, Quote
  <2>3. PostgresName(p) # <<>> /\ p # <<>> /\ (~Capital(p) => PostgresName(p) = p)
    <3>1. PostgresName(p) = Folded(p) /\ p # <<>>
      BY <1>2 DEF PostgresName, ValidUnquoted
    <3>2. Len(p) \in Nat /\ Len(p) > 0 /\ DOMAIN p = 1..Len(p)
      BY <3>1, LenProperties, EmptySeq
    <3>3. 1 \in DOMAIN Folded(p)
      BY <3>2 DEF Folded
    <3>4. ASSUME ~Capital(p) PROVE Folded(p) = p
      <4>1. p \in [1..Len(p) -> PartChars]
        BY <3>2, LenProperties
      <4>2. \A i \in DOMAIN p : p[i] # "A"
        BY <1>2, <3>4 DEF Capital
      <4> QED
        BY <3>2, <4>1, <4>2 DEF Folded
    <3> HIDE DEF Folded
    <3>5. Folded(p) # <<>>
      BY <3>3
    <3> QED
      BY <3>1, <3>4, <3>5
  <2>4. Len(p) \in Nat /\ Quote \in PartChars
    BY LenProperties DEF PartChars, NameChars, Quote
  <2>5. /\ c \in Seq(PartChars) /\ Len(c) = Len(p) + 2
        /\ c[1] = Quote /\ c[Len(p) + 2] = Quote
        /\ \A i \in 1..Len(p) : c[1 + i] = p[i]
    <3> DEFINE b == <<Quote>> \o p
    <3>1. <<Quote>> \in Seq(PartChars) /\ Len(<<Quote>>) = 1 /\ <<Quote>>[1] = Quote
      BY <2>4
    <3>2. /\ b \in Seq(PartChars) /\ Len(b) = 1 + Len(p) /\ b[1] = Quote
          /\ \A i \in 1..Len(p) : b[1 + i] = p[i]
      BY <2>4, <3>1, ConcatProperties
    <3> HIDE DEF b
    <3>3. /\ b \o <<Quote>> \in Seq(PartChars) /\ Len(b \o <<Quote>>) = Len(p) + 2
          /\ \A i \in 1..(Len(p) + 1) : (b \o <<Quote>>)[i] = b[i]
          /\ (b \o <<Quote>>)[Len(p) + 2] = Quote
      BY <2>4, <3>1, <3>2, ConcatProperties
    <3>4. c = b \o <<Quote>>
      BY DEF b
    <3> QED
      BY <2>4, <3>2, <3>3, <3>4
  <2> HIDE DEF c
  <2>6. Quoted(c) /\ ~ValidUnquoted(c)
    <3>1. Len(p) + 2 >= 2
      BY <2>4
    <3>2. Len(c) >= 2 /\ c[1] = Quote /\ c[Len(c)] = Quote
      BY <2>5, <3>1
    <3> QED
      BY <3>2 DEF Quoted, Quote, ValidUnquoted
  <2>7. Inner(c) = p
    <3>1. Inner(c) = SubSeq(c, 2, Len(p) + 1)
      BY <2>4, <2>5 DEF Inner
    <3>2. \A i \in 2..(Len(p) + 1) : c[i] \in PartChars
      BY <2>4, <2>5, ElementOfSeq
    <3>3. /\ SubSeq(c, 2, Len(p) + 1) \in Seq(PartChars)
          /\ Len(SubSeq(c, 2, Len(p) + 1)) = Len(p)
          /\ \A i \in 1..Len(p) : SubSeq(c, 2, Len(p) + 1)[i] = c[1 + i]
      <4>1. Len(p) > 0
        BY <2>3, <2>4, EmptySeq
      <4> QED
        BY <2>4, <3>2, <4>1, SubSeqProperties
    <3> QED
      BY <2>5, <3>1, <3>3, SeqEqual
  <2>8. QuotesPaired(p)
    BY <2>1 DEF QuotesPaired, Quote
  <2>9. Closed(c)
    BY <2>5, <2>6, <2>7, <2>8, QuotedIsClosed
  <2>10. PostgresName(c) = p
    BY <2>3, <2>6, <2>7, <2>8 DEF PostgresName
  <2>11. c # <<>>
    BY <2>4, <2>5
  <2> QED
    BY <2>2, <2>3, <2>5, <2>9, <2>10, <2>11 DEF Invalid
<1>3. CASE ~Quoted(p) /\ ~ValidUnquoted(p)
  BY <1>3 DEF SanitizePart, PostgresName
<1> QED
  BY <1>1, <1>2, <1>3

\* Nothing is no name.
LEMMA NoName == PostgresNames(<<>>) = Invalid
<1>1. {i \in DOMAIN <<>> : <<>>[i] = "." /\ ~InQuotes(<<>>, i)} = {}
  OBVIOUS
<1>2. <<>> \in Seq({}) /\ CutAt(<<>>, {}) = << <<>> >>
  BY CutNone, EmptySeq
<1>3. PostgresName(<<>>) = Invalid
  BY DEF PostgresName, Quoted, ValidUnquoted
<1> QED
  BY <1>1, <1>2, <1>3 DEF PostgresNames

\* Where no dot is quoted PostgreSQL separates the parts at every dot.
LEMMA NamesOfParts ==
  ASSUME NEW id \in Seq(NameChars), ~DotInQuotes(id)
  PROVE  PostgresNames(id) =
           LET parts == Split(id, ".")
               names == [n \in DOMAIN parts |-> PostgresName(parts[n])]
           IN IF \E n \in DOMAIN names : names[n] = Invalid THEN Invalid ELSE names
<1>1. {i \in DOMAIN id : id[i] = "." /\ ~InQuotes(id, i)} = {i \in DOMAIN id : id[i] = "."}
  BY DEF DotInQuotes
<1> QED
  BY <1>1 DEF PostgresNames, Split

\* sanitizePGIdentifier refuses what is no name, and keeps a name that has no
\* capitals outside quotes.
LEMMA NamesAreKept ==
  ASSUME NEW id \in Seq(NameChars), ~DotInQuotes(id), ~BareQuote(id)
  PROVE  /\ PostgresNames(id) = Invalid => sanitizePGIdentifier(id) = Invalid
         /\ ~BareCapital(id) =>
              PostgresNames(sanitizePGIdentifier(id)) = PostgresNames(id)
<1> DEFINE parts == Split(id, ".")
           clean == [n \in DOMAIN parts |-> SanitizePart(parts[n])]
           names == [n \in DOMAIN parts |-> PostgresName(parts[n])]
<1>1. /\ parts \in Seq(Seq(PartChars)) /\ Len(parts) \in Nat /\ Len(parts) >= 1
      /\ DOMAIN parts = 1..Len(parts)
      /\ \A n \in DOMAIN parts : parts[n] \in Seq(PartChars)
  BY SplitPieces, LenProperties DEF PartChars
<1>2. \A n \in DOMAIN parts : Quoted(parts[n]) => QuotesPaired(Inner(parts[n]))
  BY DEF BareQuote
<1>3. PostgresNames(id) = IF \E n \in DOMAIN names : names[n] = Invalid THEN Invalid ELSE names
  BY NamesOfParts
<1>4. sanitizePGIdentifier(id) =
        IF \E n \in DOMAIN clean : clean[n] = Invalid THEN Invalid ELSE Join(clean, ".")
  BY DEF sanitizePGIdentifier
<1>c. ~BareCapital(id) => \A n \in DOMAIN parts : ~Capital(parts[n])
  BY DEF BareCapital
<1> HIDE DEF parts
<1>5. \A n \in DOMAIN parts :
        /\ SanitizePart(parts[n]) = Invalid <=> PostgresName(parts[n]) = Invalid
        /\ SanitizePart(parts[n]) # Invalid =>
             /\ SanitizePart(parts[n]) \in Seq(PartChars)
             /\ Closed(SanitizePart(parts[n]))
             /\ ~Capital(parts[n]) =>
                  PostgresName(SanitizePart(parts[n])) = PostgresName(parts[n])
  <2> SUFFICES ASSUME NEW n \in DOMAIN parts
               PROVE  /\ SanitizePart(parts[n]) = Invalid <=> PostgresName(parts[n]) = Invalid
                      /\ SanitizePart(parts[n]) # Invalid =>
                           /\ SanitizePart(parts[n]) \in Seq(PartChars)
                           /\ Closed(SanitizePart(parts[n]))
                           /\ ~Capital(parts[n]) =>
                                PostgresName(SanitizePart(parts[n])) = PostgresName(parts[n])
    OBVIOUS
  <2>1. parts[n] \in Seq(PartChars) /\ (Quoted(parts[n]) => QuotesPaired(Inner(parts[n])))
    BY <1>1, <1>2
  <2> QED
    BY <2>1, SanitizedPart
<1>6. CASE \E n \in DOMAIN parts : SanitizePart(parts[n]) = Invalid
  <2>1. sanitizePGIdentifier(id) = <<>>
    BY <1>4, <1>6 DEF Invalid
  <2>2. PostgresNames(id) = Invalid
    BY <1>3, <1>5, <1>6
  <2> QED
    BY <2>1, <2>2, NoName DEF Invalid
<1>7. CASE \A n \in DOMAIN parts : SanitizePart(parts[n]) # Invalid
  <2>1. /\ DOMAIN clean = 1..Len(parts)
        /\ \A n \in 1..Len(parts) : clean[n] = SanitizePart(parts[n])
    BY <1>1
  <2>2. clean \in [1..Len(parts) -> Seq(PartChars)]
    BY <1>1, <1>5, <1>7
  <2>3. sanitizePGIdentifier(id) = Join(clean, ".") /\ PostgresNames(id) = names
    BY <1>3, <1>4, <1>5, <1>7
  <2> HIDE DEF clean
  <2>4. clean \in Seq(Seq(PartChars)) /\ Len(clean) = Len(parts) /\ clean # <<>>
    <3>1. clean \in Seq(Seq(PartChars))
      <4>1. Len(parts) \in Nat
        BY <1>1
      <4> QED
        BY <2>2, <4>1, SeqDef
    <3>2. Len(clean) \in Nat /\ DOMAIN clean = 1..Len(clean)
      BY <3>1, LenProperties
    <3>3. Len(clean) = Len(parts)
      BY <1>1, <2>1, <3>2
    <3> QED
      BY <1>1, <3>1, <3>3, EmptySeq
  <2>5. "." \in NameChars /\ PartChars = NameChars \ {"."}
    BY DEF NameChars, PartChars
  <2>6. Join(clean, ".") \in Seq(NameChars) /\ Split(Join(clean, "."), ".") = clean
    BY <2>4, <2>5, SplitJoin
  <2>7. ~DotInQuotes(Join(clean, "."))
    <3>1. clean \in Seq(Seq(NameChars))
      <4>1. Seq(PartChars) \subseteq Seq(NameChars)
        BY <2>5, SeqMonotonic, PartChars \subseteq NameChars
      <4> QED
        BY <2>4, <4>1, SeqMonotonic
    <3>2. \A n \in DOMAIN clean : Closed(clean[n]) /\ ~DotInQuotes(clean[n])
      <4> SUFFICES ASSUME NEW n \in DOMAIN clean PROVE Closed(clean[n]) /\ ~DotInQuotes(clean[n])
        OBVIOUS
      <4>1. Closed(clean[n]) /\ clean[n] \in Seq(PartChars)
        BY <1>1, <1>5, <1>7, <2>1
      <4>2. \A i \in DOMAIN clean[n] : clean[n][i] # "."
        BY <2>5, <4>1, LenProperties, ElementOfSeq
      <4> QED
        BY <4>1, <4>2 DEF DotInQuotes
    <3> QED
      BY <2>4, <2>5, <3>1, <3>2, WholeJoin
  <2>8. \A n \in DOMAIN clean :
           names[n] # Invalid /\ (~BareCapital(id) => PostgresName(clean[n]) = names[n])
    BY <1>1, <1>5, <1>7, <1>c, <2>1
  <2>9. ~BareCapital(id) => names = [n \in DOMAIN clean |-> PostgresName(clean[n])]
    BY <1>1, <2>1, <2>8
  <2>10. PostgresNames(Join(clean, ".")) =
           IF \E n \in DOMAIN clean : PostgresName(clean[n]) = Invalid
             THEN Invalid ELSE [n \in DOMAIN clean |-> PostgresName(clean[n])]
    BY <2>6, <2>7, NamesOfParts
  <2>11. PostgresNames(id) # Invalid
    <3>1. 1 \in DOMAIN names
      BY <1>1
    <3> HIDE DEF names
    <3>2. names # <<>>
      BY <3>1
    <3> QED
      BY <2>3, <3>2 DEF Invalid
  <2> QED
    BY <2>3, <2>8, <2>9, <2>10, <2>11
<1> QED
  BY <1>6, <1>7

\* The states of the scan, and the character that it cuts at.
State == [quote : Seq(Chars), done : Nat, cuts : SUBSET Nat]
Semicolon == ";"

----------------------------------------------------------------------------
(* The statements of a query: one character of the scan *)

\* The tag that starts at i ends with the next "$".
LEMMA TagAt ==
  ASSUME NEW q \in Seq(Chars), NEW i \in 1..Len(q)
  PROVE  \/ /\ UpToDollar(q, i) = <<>>
            /\ \A j \in (i + 1)..Len(q) : q[j] # "$"
         \/ \E e \in (i + 1)..Len(q) :
              /\ q[e] = "$" /\ \A j \in (i + 1)..(e - 1) : q[j] # "$"
              /\ UpToDollar(q, i) \in Seq(Chars)
              /\ Len(UpToDollar(q, i)) = e - i + 1
              /\ UpToDollar(q, i) = SubSeq(q, i, e)
              /\ \A j \in 1..(e - i + 1) : UpToDollar(q, i)[j] = q[i + j - 1]
<1> DEFINE ends == {j \in (i + 1)..Len(q) : q[j] = "$"}
<1>1. Len(q) \in Nat /\ \A j \in 1..Len(q) : q[j] \in Chars
  BY LenProperties, ElementOfSeq
<1>2. CASE ends = {}
  BY <1>2 DEF UpToDollar
<1>3. CASE ends # {}
  <2> DEFINE e == Min(ends)
  <2>1. e \in ends /\ \A j \in ends : e <= j
    <3>1. ends \in SUBSET Nat
      BY <1>1
    <3> HIDE DEF ends
    <3> QED
      BY <1>3, <3>1, MinIsLeast
  <2>2. UpToDollar(q, i) = SubSeq(q, i, e)
    BY <1>3 DEF UpToDollar
  <2> HIDE DEF e
  <2>3. e \in (i + 1)..Len(q) /\ q[e] = "$"
    BY <2>1
  <2>4. \A j \in (i + 1)..(e - 1) : q[j] # "$"
    BY <1>1, <2>1, <2>3
  <2>5. /\ SubSeq(q, i, e) \in Seq(Chars)
        /\ Len(SubSeq(q, i, e)) = e - i + 1
        /\ \A j \in 1..(e - i + 1) : SubSeq(q, i, e)[j] = q[i + j - 1]
    <3>1. \A j \in i..e : q[j] \in Chars
      BY <1>1, <2>3
    <3> QED
      BY <1>1, <2>3, <3>1, SubSeqProperties
  <2> QED
    BY <2>2, <2>3, <2>4, <2>5
<1> QED
  BY <1>2, <1>3

\* A tag is a text.
LEMMA TagType ==
  ASSUME NEW q \in Seq(Chars), NEW i \in 1..Len(q)
  PROVE  UpToDollar(q, i) \in Seq(Chars) /\ Len(UpToDollar(q, i)) \in Nat
<1>1. CASE UpToDollar(q, i) = <<>>
  BY <1>1, EmptySeq
<1> QED
  BY <1>1, TagAt, LenProperties

\* Every character leads the scan to a state.
LEMMA ScanType ==
  ASSUME NEW q \in Seq(Chars), NEW s \in State, NEW i \in 1..Len(q)
  PROVE  ScanChar(q, s, i) \in State
<1> DEFINE tag == UpToDollar(q, i)
           dollar == q[i] = "$" /\ s.quote \notin {<<c>> : c \in Quotes} /\ tag # <<>>
<1>1. tag \in Seq(Chars) /\ Len(tag) \in Nat /\ q[i] \in Chars /\ i \in Nat
  BY TagType, ElementOfSeq
<1>2. s.quote \in Seq(Chars) /\ s.done \in Nat /\ s.cuts \in SUBSET Nat
  BY DEF State
<1>3. ScanChar(q, s, i) =
        IF i <= s.done THEN s
        ELSE CASE dollar /\ s.quote = <<>> ->
                    [s EXCEPT !.quote = tag, !.done = i + Len(tag) - 1]
               [] dollar /\ s.quote = tag ->
                    [s EXCEPT !.quote = <<>>, !.done = i + Len(tag) - 1]
               [] q[i] \in Quotes -> [s EXCEPT !.quote = QuoteAfter(s.quote, q[i])]
               [] q[i] = ";" /\ s.quote = <<>> -> [s EXCEPT !.cuts = s.cuts \cup {i}]
               [] OTHER -> s
  BY DEF ScanChar
<1>4. QuoteAfter(s.quote, q[i]) \in Seq(Chars) /\ <<>> \in Seq(Chars)
  BY <1>1, <1>2, EmptySeq DEF QuoteAfter
<1>5. i + Len(tag) - 1 \in Nat /\ s.cuts \cup {i} \in SUBSET Nat
  BY <1>1, <1>2
<1> HIDE DEF tag
<1>6. /\ [s EXCEPT !.quote = tag, !.done = i + Len(tag) - 1] \in State
      /\ [s EXCEPT !.quote = <<>>, !.done = i + Len(tag) - 1] \in State
      /\ [s EXCEPT !.quote = QuoteAfter(s.quote, q[i])] \in State
      /\ [s EXCEPT !.cuts = s.cuts \cup {i}] \in State
  BY <1>1, <1>4, <1>5 DEF State
<1>7. dollar => q[i] \notin Quotes /\ q[i] # ";" /\ tag # <<>>
  BY DEF Quotes
<1> QED
  BY <1>3, <1>6, <1>7 DEF Quotes

\* s with the quotation that the text up to d has opened or closed.
Quoting(s, quote, d) == [s EXCEPT !.quote = quote, !.done = d]

\* Outside quotations the scan passes over words and blanks, and cuts at a
\* semicolon.
LEMMA ScanOutside ==
  ASSUME NEW q \in Seq(Chars), NEW s \in State, NEW i \in 1..Len(q),
         s.quote = <<>>, ~(i <= s.done)
  PROVE  /\ q[i] \in {"x", " "} => ScanChar(q, s, i) = s
         /\ q[i] = Semicolon => ScanChar(q, s, i) = [s EXCEPT !.cuts = s.cuts \cup {i}]
         /\ q[i] \in Quotes => ScanChar(q, s, i) = [s EXCEPT !.quote = <<q[i]>>]
         /\ q[i] = "$" /\ UpToDollar(q, i) # <<>> =>
              ScanChar(q, s, i) =
                Quoting(s, UpToDollar(q, i), i + Len(UpToDollar(q, i)) - 1)
<1>1. s.quote \notin {<<c>> : c \in Quotes}
  OBVIOUS
<1>2. QuoteAfter(s.quote, q[i]) = <<q[i]>>
  BY DEF QuoteAfter
<1>3. q[i] \in {"x", " "} => ScanChar(q, s, i) = s
  BY DEF ScanChar, Quotes
<1>4. q[i] = Semicolon => ScanChar(q, s, i) = [s EXCEPT !.cuts = s.cuts \cup {i}]
  BY DEF ScanChar, Quotes, Semicolon
<1>5. q[i] \in Quotes => ScanChar(q, s, i) = [s EXCEPT !.quote = <<q[i]>>]
  BY <1>2 DEF ScanChar, Quotes
<1>6. q[i] = "$" /\ UpToDollar(q, i) # <<>> =>
        ScanChar(q, s, i) =
          Quoting(s, UpToDollar(q, i), i + Len(UpToDollar(q, i)) - 1)
  BY <1>1 DEF ScanChar, Quotes, Quoting
<1> QED
  BY <1>3, <1>4, <1>5, <1>6

\* Inside '...' and "..." only the same quote character counts.
LEMMA ScanInQuotes ==
  ASSUME NEW q \in Seq(Chars), NEW s \in State, NEW i \in 1..Len(q), NEW c \in Quotes,
         s.quote = <<c>>, ~(i <= s.done)
  PROVE  ScanChar(q, s, i) = IF q[i] = c THEN [s EXCEPT !.quote = <<>>] ELSE s
<1>1. s.quote \in {<<d>> : d \in Quotes} /\ s.quote # <<>>
  OBVIOUS
<1>2. QuoteAfter(s.quote, q[i]) = IF q[i] = c THEN <<>> ELSE s.quote
  <2>1. <<c>> = <<q[i]>> <=> q[i] = c
    OBVIOUS
  <2> QED
    BY <1>1, <2>1 DEF QuoteAfter
<1>3. CASE q[i] = c
  BY <1>1, <1>2, <1>3 DEF ScanChar
<1>4. CASE q[i] # c
  <2>1. [s EXCEPT !.quote = s.quote] = s
    BY DEF State
  <2>2. q[i] \in Quotes => ScanChar(q, s, i) = s
    BY <1>1, <1>2, <1>4, <2>1 DEF ScanChar
  <2>3. q[i] \notin Quotes => ScanChar(q, s, i) = s
    BY <1>1 DEF ScanChar
  <2> QED
    BY <1>4, <2>2, <2>3
<1> QED
  BY <1>3, <1>4

\* Inside a dollar quote only the same tag counts.
LEMMA ScanInDollars ==
  ASSUME NEW q \in Seq(Chars), NEW s \in State, NEW i \in 1..Len(q),
         Len(s.quote) >= 2, ~(i <= s.done)
  PROVE  /\ q[i] = "$" /\ UpToDollar(q, i) = s.quote =>
              ScanChar(q, s, i) = Quoting(s, <<>>, i + Len(s.quote) - 1)
         /\ ~(q[i] = "$" /\ UpToDollar(q, i) = s.quote) => ScanChar(q, s, i) = s
<1>1. s.quote \notin {<<d>> : d \in Quotes} /\ s.quote # <<>>
  <2>1. Len(<<>>) = 0 /\ \A d \in Quotes : Len(<<d>>) = 1
    BY EmptySeq
  <2>2. ~(0 >= 2) /\ ~(1 >= 2)
    OBVIOUS
  <2> QED
    BY <2>1, <2>2, Zenon
<1>2. [s EXCEPT !.quote = s.quote] = s
  BY DEF State
<1>3. q[i] \in Quotes => QuoteAfter(s.quote, q[i]) = s.quote
  BY <1>1 DEF QuoteAfter
<1>4. q[i] = "$" /\ UpToDollar(q, i) = s.quote =>
        ScanChar(q, s, i) = Quoting(s, <<>>, i + Len(s.quote) - 1)
  BY <1>1 DEF ScanChar, Quotes, Quoting
<1>5. ~(q[i] = "$" /\ UpToDollar(q, i) = s.quote) => ScanChar(q, s, i) = s
  <2>1. ASSUME q[i] \in Quotes PROVE ScanChar(q, s, i) = s
    <3>1. q[i] # "$"
      BY <2>1 DEF Quotes
    <3> QED
      BY <1>1, <1>2, <1>3, <2>1, <3>1 DEF ScanChar
  <2>2. ASSUME q[i] \notin Quotes, ~(q[i] = "$" /\ UpToDollar(q, i) = s.quote)
        PROVE  ScanChar(q, s, i) = s
    BY <1>1, <2>2 DEF ScanChar
  <2> QED
    BY <2>1, <2>2
<1> QED
  BY <1>4, <1>5

----------------------------------------------------------------------------
(* The scan of a whole text *)

\* f is the scan of q, character by character.
ScanOf(q, f) ==
  /\ f \in [0..Len(q) -> State]
  /\ f[0] = [quote |-> <<>>, done |-> 0, cuts |-> {}]
  /\ \A i \in 1..Len(q) : f[i] = ScanChar(q, f[i - 1], i)

\* Scan goes through the text, character by character.
LEMMA ScanUnfolds ==
  ASSUME NEW q \in Seq(Chars)
  PROVE  \E f : ScanOf(q, f) /\ Scan(q) = f[Len(q)]
<1> DEFINE N == Len(q)
           start == [quote |-> <<>>, done |-> 0, cuts |-> {}]
           F == [i \in (0 + 1)..N |-> [s \in State |-> ScanChar(q, s, i)]]
           scan[i \in 0..N] ==
             IF i = 0 THEN start ELSE ScanChar(q, scan[i - 1], i)
<1>1. N \in Nat /\ 0 <= N /\ 0 \in Nat
  BY LenProperties
<1>2. start \in State
  BY EmptySeq DEF State
<1>3. F \in [(0 + 1)..N -> [State -> State]]
  BY ScanType
<1> HIDE DEF start
<1>4. PICK f \in [0..N -> State] : Runs(f, 0, N, start, F)
  <2> HIDE DEF F, N, scan
  <2> QED
    BY <1>1, <1>2, <1>3, Recursion
<1>5. f[0] = start /\ \A i \in 1..N : f[i] = ScanChar(q, f[i - 1], i)
  <2>1. f[0] = start
    BY <1>4 DEF Runs
  <2>2. ASSUME NEW i \in 1..N PROVE f[i] = ScanChar(q, f[i - 1], i)
    <3>1. i \in (0 + 1)..N /\ i - 1 \in 0..N
      BY <1>1
    <3>2. f[i] = F[i][f[i - 1]]
      BY <1>4, <3>1 DEF Runs
    <3> QED
      BY <3>1, <3>2
  <2> QED
    BY <2>1, <2>2
<1>6. f = [i \in 0..N |-> IF i = 0 THEN start ELSE ScanChar(q, f[i - 1], i)]
  <2>1. \A i \in 0..N : i = 0 \/ i \in 1..N
    BY <1>1
  <2> QED
    BY <1>5, <2>1
<1>7. scan = [i \in 0..N |-> IF i = 0 THEN start ELSE ScanChar(q, scan[i - 1], i)]
  BY <1>6
<1>8. Scan(q) = scan[N]
  BY DEF Scan, start
<1> HIDE DEF scan, N
<1>9. scan[0] = start /\ \A i \in 1..N : scan[i] = ScanChar(q, scan[i - 1], i)
  <2>1. 0 \in 0..N /\ \A i \in 1..N : i \in 0..N /\ i # 0
    BY <1>1
  <2> QED
    BY <1>7, <2>1, Zenon
<1>10. \A i \in 0..N : scan[i] \in State
  <2> DEFINE P == {i \in 0..N : scan[i] \in State}
  <2>1. 0 \in P
    BY <1>1, <1>2, <1>9
  <2>2. ASSUME NEW i \in (0 + 1)..N, i - 1 \in P PROVE i \in P
    <3>1. i \in 1..N /\ i \in 0..N
      BY <1>1
    <3>2. scan[i] = ScanChar(q, scan[i - 1], i) /\ scan[i - 1] \in State
      BY <1>9, <2>2, <3>1
    <3>3. scan[i] \in State
      BY <3>1, <3>2, ScanType DEF N
    <3> QED
      BY <3>1, <3>3
  <2> HIDE DEF P
  <2>3. \A i \in 0..N : i \in P
    BY <1>1, <2>1, <2>2, Induction
  <2> QED
    BY <2>3 DEF P
<1>11. scan \in [0..N -> State]
  BY <1>7, <1>10
<1>12. ScanOf(q, scan)
  BY <1>9, <1>11 DEF ScanOf, N, start
<1> QED
  BY <1>8, <1>12 DEF N

\* Where no character changes the state of the scan it stays as it is.
LEMMA ScanStays ==
  ASSUME NEW q \in Seq(Chars), NEW f, ScanOf(q, f), NEW a \in 0..Len(q), NEW b \in a..Len(q),
         \A i \in (a + 1)..b : ScanChar(q, f[a], i) = f[a]
  PROVE  \A i \in a..b : f[i] = f[a]
<1> DEFINE P == {i \in a..b : f[i] = f[a]}
<1>1. Len(q) \in Nat /\ a \in Nat /\ b \in Nat
  BY LenProperties
<1>2. a \in P
  BY <1>1
<1>3. ASSUME NEW i \in (a + 1)..b, i - 1 \in P PROVE i \in P
  <2>1. i \in 1..Len(q) /\ i \in a..b
    BY <1>1
  <2>2. f[i] = ScanChar(q, f[i - 1], i)
    BY <2>1 DEF ScanOf
  <2>3. f[i - 1] = f[a]
    BY <1>3
  <2> QED
    BY <2>1, <2>2, <2>3
<1> HIDE DEF P
<1>4. \A i \in a..b : i \in P
  BY <1>1, <1>2, <1>3, Induction
<1> QED
  BY <1>4 DEF P

----------------------------------------------------------------------------
(* The tokens of PostgreSQL *)

\* What ends the token that starts at t.
Closing(q, t) ==
  CASE q[t] \in Quotes -> {j \in (t + 1)..Len(q) : q[j] = q[t]}
    [] q[t] = "$" /\ DollarTag(q, t) # <<>> ->
         {j \in (t + 2 * Len(DollarTag(q, t)) - 1)..Len(q) :
            SubSeq(q, j - Len(DollarTag(q, t)) + 1, j) = DollarTag(q, t)}
    [] q[t] = "x" -> {j \in t..(Len(q) - 1) : q[j + 1] \notin {"x", "$"}}
    [] OTHER -> {t}

\* A token ends at the first position that can end it, at the end of the text if
\* there is none, and not before it starts.
LEMMA TokenEndAt ==
  ASSUME NEW q \in Seq(Chars), NEW t \in 1..Len(q)
  PROVE  /\ Closing(q, t) = {} => TokenEnd(q, t) = Len(q)
         /\ Closing(q, t) # {} => /\ TokenEnd(q, t) \in Closing(q, t)
                                  /\ \A j \in Closing(q, t) : TokenEnd(q, t) <= j
         /\ TokenEnd(q, t) \in t..Len(q)
<1>1. Len(q) \in Nat /\ t \in Nat /\ t <= Len(q)
  BY LenProperties
<1>2. TokenEnd(q, t) = IF Closing(q, t) = {} THEN Len(q) ELSE Min(Closing(q, t))
  BY DEF TokenEnd, Closing
<1>3. Closing(q, t) \in SUBSET (t..Len(q))
  <2>1. CASE q[t] \in Quotes
    <3>1. Closing(q, t) = {j \in (t + 1)..Len(q) : q[j] = q[t]}
      BY <2>1 DEF Closing, Quotes
    <3> QED
      BY <1>1, <3>1
  <2>2. CASE q[t] = "$" /\ DollarTag(q, t) # <<>>
    <3>1. Closing(q, t) = {j \in (t + 2 * Len(DollarTag(q, t)) - 1)..Len(q) :
            SubSeq(q, j - Len(DollarTag(q, t)) + 1, j) = DollarTag(q, t)}
      BY <2>2 DEF Closing, Quotes
    <3>2. Len(DollarTag(q, t)) \in Nat /\ Len(DollarTag(q, t)) >= 1
      <4>1. DollarTag(q, t) = UpToDollar(q, t)
        BY <2>2 DEF DollarTag
      <4>2. UpToDollar(q, t) \in Seq(Chars) /\ Len(UpToDollar(q, t)) \in Nat
        BY TagType
      <4>3. UpToDollar(q, t) # <<>>
        BY <2>2, <4>1
      <4> QED
        BY <4>1, <4>2, <4>3, EmptySeq
    <3> QED
      BY <1>1, <3>1, <3>2
  <2>3. CASE q[t] = "x"
    <3>1. Closing(q, t) = {j \in t..(Len(q) - 1) : q[j + 1] \notin {"x", "$"}}
      BY <2>3 DEF Closing, Quotes
    <3> QED
      BY <1>1, <3>1
  <2>4. CASE q[t] \notin Quotes /\ ~(q[t] = "$" /\ DollarTag(q, t) # <<>>) /\ q[t] # "x"
    <3>1. Closing(q, t) = {t}
      BY <2>4 DEF Closing
    <3> QED
      BY <1>1, <3>1
  <2> QED
    BY <2>1, <2>2, <2>3, <2>4
<1>4. CASE Closing(q, t) = {}
  BY <1>1, <1>2, <1>4
<1>5. CASE Closing(q, t) # {}
  <2>1. Closing(q, t) \in SUBSET Nat
    BY <1>1, <1>3
  <2>2. Min(Closing(q, t)) \in Closing(q, t) /\ \A j \in Closing(q, t) : Min(Closing(q, t)) <= j
    BY <1>5, <2>1, MinIsLeast
  <2> QED
    BY <1>2, <1>3, <1>5, <2>2
<1> QED
  BY <1>4, <1>5

\* u gives the tokens of q that start up to each position.
StartsOf(q, u) ==
  /\ u \in [0..Len(q) -> SUBSET Nat]
  /\ u[0] = {}
  /\ \A i \in 1..Len(q) :
       u[i] = u[i - 1] \cup (IF i = 1 \/ \E j \in u[i - 1] : TokenEnd(q, j) = i - 1
                               THEN {i} ELSE {})

\* TokenStarts collects the starts, position by position.
LEMMA StartsUnfold ==
  ASSUME NEW q \in Seq(Chars)
  PROVE  \E u : StartsOf(q, u) /\ TokenStarts(q) = u[Len(q)]
<1> DEFINE N == Len(q)
           G(i, T) == T \cup (IF i = 1 \/ \E j \in T : TokenEnd(q, j) = i - 1
                                THEN {i} ELSE {})
           F == [i \in (0 + 1)..N |-> [T \in SUBSET Nat |-> G(i, T)]]
           upTo[i \in 0..N] == IF i = 0 THEN {} ELSE
               upTo[i - 1] \cup (IF i = 1 \/ \E j \in upTo[i - 1] : TokenEnd(q, j) = i - 1
                                  THEN {i} ELSE {})
<1>1. N \in Nat /\ 0 <= N /\ 0 \in Nat /\ {} \in SUBSET Nat
  BY LenProperties
<1>2. \A i \in 1..N, T \in SUBSET Nat : G(i, T) \in SUBSET Nat
  BY <1>1
<1>3. F \in [(0 + 1)..N -> [SUBSET Nat -> SUBSET Nat]]
  <2> HIDE DEF G, N
  <2>1. \A i \in (0 + 1)..N, T \in SUBSET Nat : G(i, T) \in SUBSET Nat
    BY <1>1, <1>2
  <2> QED
    BY <2>1
<1>4. PICK f \in [0..N -> SUBSET Nat] : Runs(f, 0, N, {}, F)
  <2> HIDE DEF F, N, upTo
  <2> QED
    BY <1>1, <1>3, Recursion
<1>5. f[0] = {} /\ \A i \in 1..N : f[i] = G(i, f[i - 1])
  <2>1. f[0] = {}
    BY <1>4 DEF Runs
  <2>2. ASSUME NEW i \in 1..N PROVE f[i] = G(i, f[i - 1])
    <3>1. i \in (0 + 1)..N /\ i - 1 \in 0..N
      BY <1>1
    <3>2. f[i] = F[i][f[i - 1]]
      BY <1>4, <3>1 DEF Runs
    <3>3. f[i - 1] \in SUBSET Nat
      BY <1>4, <3>1
    <3> HIDE DEF G
    <3> QED
      BY <3>1, <3>2, <3>3
  <2> QED
    BY <2>1, <2>2
<1>6. f = [i \in 0..N |-> IF i = 0 THEN {} ELSE G(i, f[i - 1])]
  <2>1. \A i \in 0..N : i = 0 \/ i \in 1..N
    BY <1>1
  <2> HIDE DEF G
  <2> QED
    BY <1>5, <2>1
<1>7. upTo = [i \in 0..N |-> IF i = 0 THEN {} ELSE G(i, upTo[i - 1])]
  BY <1>6
<1>8. TokenStarts(q) = upTo[N]
  BY DEF TokenStarts
<1> HIDE DEF upTo, N, G
<1>9. upTo[0] = {} /\ \A i \in 1..N : upTo[i] = G(i, upTo[i - 1])
  <2>1. 0 \in 0..N /\ \A i \in 1..N : i \in 0..N /\ i # 0
    BY <1>1
  <2> QED
    BY <1>7, <2>1, Zenon
<1>10. \A i \in 0..N : upTo[i] \in SUBSET Nat
  <2> DEFINE P == {i \in 0..N : upTo[i] \in SUBSET Nat}
  <2>1. 0 \in P
    BY <1>1, <1>9
  <2>2. ASSUME NEW i \in (0 + 1)..N, i - 1 \in P PROVE i \in P
    <3>1. i \in 1..N /\ i \in 0..N
      BY <1>1
    <3>2. upTo[i] = G(i, upTo[i - 1]) /\ upTo[i - 1] \in SUBSET Nat
      BY <1>9, <2>2, <3>1
    <3>3. upTo[i] \in SUBSET Nat
      BY <1>2, <3>1, <3>2
    <3> QED
      BY <3>1, <3>3
  <2> HIDE DEF P
  <2>3. \A i \in 0..N : i \in P
    BY <1>1, <2>1, <2>2, Induction
  <2> QED
    BY <2>3 DEF P
<1>11. upTo \in [0..N -> SUBSET Nat]
  BY <1>7, <1>10
<1>12. StartsOf(q, upTo)
  BY <1>9, <1>11 DEF StartsOf, N, G
<1> QED
  BY <1>8, <1>12 DEF N

\* A token starts at the first character and after every other token, and
\* nowhere else.
LEMMA WhereTokensStart ==
  ASSUME NEW q \in Seq(Chars)
  PROVE  /\ TokenStarts(q) \in SUBSET (1..Len(q))
         /\ \A i \in 1..Len(q) :
              i \in TokenStarts(q) <=>
                i = 1 \/ \E j \in TokenStarts(q) : TokenEnd(q, j) = i - 1
<1> DEFINE N == Len(q)
           T == TokenStarts(q)
<1>1. N \in Nat /\ 0 \in Nat
  BY LenProperties
<1>2. PICK u : StartsOf(q, u) /\ T = u[N]
  BY StartsUnfold
<1> HIDE DEF T
<1> DEFINE D(i) == IF i = 1 \/ \E j \in u[i - 1] : TokenEnd(q, j) = i - 1 THEN {i} ELSE {}
           P == {m \in 0..N : \A k \in 0..m : u[k] = u[m] \cap (1..k)}
<1>3. u[0] = {} /\ \A i \in 1..N : u[i] = u[i - 1] \cup D(i)
  BY <1>2 DEF StartsOf
<1>4. 0 \in P
  BY <1>1, <1>3
<1>5. ASSUME NEW m \in (0 + 1)..N, m - 1 \in P PROVE m \in P
  <2>1. m \in 1..N /\ m - 1 \in 0..(m - 1) /\ m \in 0..N
    BY <1>1
  <2>2. u[m] = u[m - 1] \cup D(m) /\ D(m) \subseteq {m}
    BY <1>3, <2>1
  <2> HIDE DEF D
  <2>3. \A k \in 0..(m - 1) : u[k] = u[m - 1] \cap (1..k)
    BY <1>5
  <2>4. u[m - 1] \in SUBSET (1..(m - 1))
    BY <2>1, <2>3
  <2>5. ASSUME NEW k \in 0..m PROVE u[k] = u[m] \cap (1..k)
    <3>1. CASE k \in 0..(m - 1)
      <4>1. m \notin 1..k
        BY <2>1, <3>1
      <4> QED
        BY <2>2, <2>3, <3>1, <4>1
    <3>2. CASE k = m
      <4>1. u[m] \in SUBSET (1..m)
        BY <2>1, <2>2, <2>4
      <4> QED
        BY <3>2, <4>1
    <3> QED
      BY <2>1, <3>1, <3>2
  <2> QED
    BY <2>1, <2>5
<1>6. N \in 0..N
  BY <1>1
<1> HIDE DEF P
<1>7. N \in P
  BY <1>1, <1>4, <1>5, <1>6, Induction
<1>8. \A k \in 0..N : u[k] = T \cap (1..k)
  BY <1>2, <1>7 DEF P
<1>9. T \in SUBSET (1..N)
  BY <1>2, <1>6, <1>8
<1>10. \A j \in T : TokenEnd(q, j) \in j..N
  BY <1>9, TokenEndAt
<1>11. ASSUME NEW i \in 1..N
       PROVE  i \in T <=> i = 1 \/ \E j \in T : TokenEnd(q, j) = i - 1
  <2>1. i \in 0..N /\ i - 1 \in 0..N /\ i \in 1..i /\ i \notin 1..(i - 1)
    BY <1>1
  <2>2. u[i] = T \cap (1..i) /\ u[i - 1] = T \cap (1..(i - 1)) /\ u[i] = u[i - 1] \cup D(i)
    BY <1>3, <1>8, <2>1
  <2>3. i \in T <=> i \in D(i)
    BY <2>1, <2>2
  <2>4. \A j \in T : TokenEnd(q, j) = i - 1 => j \in 1..(i - 1)
    BY <1>1, <1>9, <1>10
  <2>5. (\E j \in u[i - 1] : TokenEnd(q, j) = i - 1) <=> \E j \in T : TokenEnd(q, j) = i - 1
    BY <2>2, <2>4
  <2> QED
    BY <2>3, <2>5
<1> QED
  BY <1>9, <1>11 DEF T

\* No token starts within another one.
LEMMA NoTokenInside ==
  ASSUME NEW q \in Seq(Chars), NEW t \in TokenStarts(q), NEW i \in TokenStarts(q),
         t < i
  PROVE  TokenEnd(q, t) < i
<1> DEFINE T == TokenStarts(q)
           Inside == {n \in T : \E m \in T : m < n /\ n <= TokenEnd(q, m)}
<1>1. T \in SUBSET (1..Len(q)) /\ T \in SUBSET Nat /\ \A n \in T : TokenEnd(q, n) \in n..Len(q)
  BY WhereTokensStart, TokenEndAt
<1>2. \A n \in T : n = 1 \/ \E m \in T : TokenEnd(q, m) = n - 1
  BY <1>1, WhereTokensStart
<1> HIDE DEF T
<1>3. Inside = {}
  <2>1. SUFFICES ASSUME Inside # {} PROVE FALSE
    OBVIOUS
  <2>2. Inside \in SUBSET Nat
    BY <1>1
  <2>3. PICK n \in Inside : \A k \in Inside : n <= k
    <3> HIDE DEF Inside
    <3> QED
      BY <2>1, <2>2, LeastNatural
  <2>4. PICK m \in T : m < n /\ n <= TokenEnd(q, m)
    BY <2>3
  <2>5. n \in T /\ n \in Nat /\ m \in Nat /\ m >= 1 /\ n <= Len(q)
    BY <1>1, <2>3
  <2>6. PICK k \in T : TokenEnd(q, k) = n - 1
    <3>1. n # 1
      BY <2>4, <2>5
    <3> QED
      BY <1>2, <2>5, <3>1
  <2>7. k \in Nat /\ k <= n - 1 /\ k < n
    BY <1>1, <2>5, <2>6
  <2>8. CASE k = m
    BY <2>4, <2>5, <2>6, <2>8
  <2>9. CASE k < m
    <3>1. m <= TokenEnd(q, k)
      BY <2>4, <2>5, <2>6
    <3>2. m \in Inside
      BY <2>9, <3>1
    <3> QED
      BY <2>3, <2>4, <2>5, <3>2
  <2>10. CASE m < k
    <3>1. TokenEnd(q, m) \in Nat
      BY <1>1, <2>5
    <3>2. k <= TokenEnd(q, m)
      BY <2>4, <2>5, <2>7, <3>1
    <3>3. k \in Inside
      BY <2>10, <3>2
    <3> QED
      BY <2>3, <2>5, <2>7, <3>3
  <2> QED
    BY <2>5, <2>7, <2>8, <2>9, <2>10
<1>4. ~(i <= TokenEnd(q, t))
  BY <1>3 DEF T
<1>5. TokenEnd(q, t) \in Nat /\ i \in Nat
  BY <1>1 DEF T
<1> QED
  BY <1>4, <1>5

----------------------------------------------------------------------------
(* The scan, token by token *)

Plain == {" ", Semicolon}

\* The scan stands between two tokens before it reads the one that starts at t.
Between(f, t) == f[t - 1].quote = <<>> /\ f[t - 1].done <= t - 1

\* It has read that token: it has cut at a semicolon only, and stands between
\* two tokens again unless the text has ended.
Passed(q, f, t) ==
  LET e == TokenEnd(q, t)
  IN /\ f[e].cuts = f[t - 1].cuts \cup (IF q[t] = Semicolon THEN {t} ELSE {})
     /\ e < Len(q) => f[e].quote = <<>> /\ f[e].done <= e

\* The state before a token and the first character of it.
LEMMA BeforeToken ==
  ASSUME NEW q \in Seq(Chars), NEW f, ScanOf(q, f), NEW t \in 1..Len(q), Between(f, t)
  PROVE  /\ Len(q) \in Nat /\ t \in Nat /\ t - 1 \in 0..Len(q)
         /\ f[t - 1] \in State /\ f[t - 1].done \in Nat /\ f[t - 1].cuts \in SUBSET Nat
         /\ ~(t <= f[t - 1].done) /\ f[t] = ScanChar(q, f[t - 1], t) /\ f[t] \in State
         /\ q[t] \in Chars
<1>1. Len(q) \in Nat /\ t \in Nat /\ t - 1 \in 0..Len(q) /\ t \in 0..Len(q) /\ q[t] \in Chars
  BY LenProperties, ElementOfSeq
<1>2. f[t - 1] \in State /\ f[t] \in State /\ f[t] = ScanChar(q, f[t - 1], t)
  BY <1>1 DEF ScanOf
<1>3. f[t - 1].done \in Nat /\ f[t - 1].cuts \in SUBSET Nat
  BY <1>2 DEF State
<1>4. ~(t <= f[t - 1].done)
  BY <1>1, <1>3 DEF Between
<1> QED
  BY <1>1, <1>2, <1>3, <1>4

\* A semicolon or a blank.
LEMMA PlainPassed ==
  ASSUME NEW q \in Seq(Chars), NEW f, ScanOf(q, f), NEW t \in 1..Len(q), Between(f, t),
         q[t] \in Plain
  PROVE  Passed(q, f, t)
<1> DEFINE s == f[t - 1]
<1>1. /\ Len(q) \in Nat /\ t \in Nat /\ s \in State /\ s.done \in Nat /\ s.cuts \in SUBSET Nat
      /\ ~(t <= s.done) /\ f[t] = ScanChar(q, s, t) /\ s.quote = <<>> /\ s.done <= t - 1
  BY BeforeToken DEF Between
<1>2. TokenEnd(q, t) = t
  <2>1. Closing(q, t) = {t}
    BY DEF Closing, Quotes, Plain, Semicolon
  <2> QED
    BY <2>1, TokenEndAt
<1>3. f[t].cuts = s.cuts \cup (IF q[t] = Semicolon THEN {t} ELSE {})
      /\ f[t].quote = <<>> /\ f[t].done = s.done
  <2> HIDE DEF s
  <2>1. CASE q[t] = Semicolon
    <3>1. ScanChar(q, s, t) = [s EXCEPT !.cuts = s.cuts \cup {t}]
      BY <1>1, <2>1, ScanOutside
    <3> QED
      BY <1>1, <2>1, <3>1 DEF State
  <2>2. CASE q[t] = " "
    <3>1. ScanChar(q, s, t) = s
      <4>1. s \in State /\ s.quote = <<>> /\ ~(t <= s.done) /\ q[t] \in {"x", " "}
        BY <1>1, <2>2
      <4> QED
        BY <4>1, ScanOutside
    <3>2. q[t] # Semicolon
      BY <2>2 DEF Semicolon
    <3> QED
      BY <1>1, <3>1, <3>2
  <2> QED
    BY <2>1, <2>2 DEF Plain
<1> HIDE DEF s
<1>4. f[t].done <= t
  <2>1. s.done \in Nat /\ s.done <= t - 1 /\ t \in Nat
    BY <1>1
  <2>2. s.done <= t
    BY <2>1
  <2> QED
    BY <1>3, <2>2
<1> QED
  BY <1>2, <1>3, <1>4 DEF Passed, s

\* A word without a "$".
LEMMA WordPassed ==
  ASSUME NEW q \in Seq(Chars), NEW f, ScanOf(q, f), NEW t \in 1..Len(q), Between(f, t),
         q[t] = "x", \A j \in t..TokenEnd(q, t) : q[j] # "$"
  PROVE  Passed(q, f, t)
<1> DEFINE s == f[t - 1]
           e == TokenEnd(q, t)
<1>1. /\ Len(q) \in Nat /\ t \in Nat /\ s \in State /\ s.done \in Nat /\ s.cuts \in SUBSET Nat
      /\ t - 1 \in 0..Len(q) /\ s.quote = <<>> /\ s.done <= t - 1
  BY BeforeToken DEF Between
<1>2. e \in t..Len(q) /\ \A j \in Closing(q, t) : e <= j
  BY TokenEndAt
<1>3. Closing(q, t) = {j \in t..(Len(q) - 1) : q[j + 1] \notin {"x", "$"}}
  BY DEF Closing, Quotes
<1> HIDE DEF e, s
<1>4. ASSUME NEW i \in t..e PROVE q[i] = "x"
  <2>1. CASE i = t
    BY <2>1
  <2>2. CASE i # t
    <3>1. i - 1 \in t..(Len(q) - 1) /\ ~(e <= i - 1) /\ (i - 1) + 1 = i
      BY <1>1, <1>2, <2>2
    <3>2. i - 1 \notin Closing(q, t)
      BY <1>2, <3>1
    <3>3. q[i] \in {"x", "$"}
      BY <1>3, <3>1, <3>2
    <3> QED
      BY <3>3 DEF e
  <2> QED
    BY <2>1, <2>2
<1>5. \A i \in ((t - 1) + 1)..e : ScanChar(q, s, i) = s
  <2> SUFFICES ASSUME NEW i \in ((t - 1) + 1)..e PROVE ScanChar(q, s, i) = s
    OBVIOUS
  <2>1. i \in 1..Len(q) /\ i \in t..e /\ ~(i <= s.done)
    BY <1>1, <1>2
  <2> QED
    BY <1>1, <1>4, <2>1, ScanOutside
<1>6. f[e] = s
  <2>1. e \in (t - 1)..Len(q) /\ e \in (t - 1)..e
    BY <1>1, <1>2
  <2>2. \A i \in (t - 1)..e : f[i] = f[t - 1]
    BY <1>1, <1>5, <2>1, ScanStays DEF s
  <2> QED
    BY <2>1, <2>2 DEF s
<1>7. s.done <= e /\ q[t] # Semicolon
  <2>1. s.done <= e
    BY <1>1, <1>2
  <2> QED
    BY <2>1 DEF Semicolon
<1> QED
  BY <1>1, <1>6, <1>7 DEF Passed, e, s

\* '...' or "...", to its end or to the end of the text.
LEMMA QuotePassed ==
  ASSUME NEW q \in Seq(Chars), NEW f, ScanOf(q, f), NEW t \in 1..Len(q), Between(f, t),
         q[t] \in Quotes
  PROVE  Passed(q, f, t)
<1> DEFINE s == f[t - 1]
           r == f[t]
           c == q[t]
           e == TokenEnd(q, t)
<1>1. /\ Len(q) \in Nat /\ t \in Nat /\ s \in State /\ s.done \in Nat /\ s.cuts \in SUBSET Nat
      /\ ~(t <= s.done) /\ f[t] = ScanChar(q, s, t) /\ s.quote = <<>> /\ s.done <= t - 1
      /\ r \in State
  BY BeforeToken DEF Between
<1>2. /\ e \in t..Len(q) /\ \A j \in Closing(q, t) : e <= j
      /\ Closing(q, t) = {} => e = Len(q)
      /\ Closing(q, t) # {} => e \in Closing(q, t)
  BY TokenEndAt
<1>3. Closing(q, t) = {j \in (t + 1)..Len(q) : q[j] = c}
  BY DEF Closing, Quotes
<1>4. r.quote = <<c>> /\ r.done = s.done /\ r.cuts = s.cuts /\ c # Semicolon
  <2> HIDE DEF s
  <2>1. ScanChar(q, s, t) = [s EXCEPT !.quote = <<q[t]>>]
    BY <1>1, ScanOutside
  <2>2. r = [s EXCEPT !.quote = <<c>>]
    BY <1>1, <2>1
  <2> QED
    BY <1>1, <2>2 DEF State, Quotes, Semicolon
<1> HIDE DEF e, s, r
<1>5. ASSUME NEW i \in (t + 1)..Len(q)
      PROVE  ScanChar(q, r, i) = IF q[i] = c THEN [r EXCEPT !.quote = <<>>] ELSE r
  <2>1. i \in 1..Len(q) /\ c \in Quotes
    BY <1>1
  <2>2. ~(i <= r.done)
    <3>1. r.done = s.done /\ s.done \in Nat /\ s.done <= t - 1
      BY <1>1, <1>4
    <3> QED
      BY <1>1, <3>1
  <2>3. r \in State /\ r.quote = <<c>>
    BY <1>1, <1>4
  <2> HIDE DEF c
  <2> QED
    BY <2>1, <2>2, <2>3, ScanInQuotes
<1>6. ASSUME NEW b \in t..Len(q), \A i \in (t + 1)..b : i \notin Closing(q, t)
      PROVE  f[b] = r
  <2>1. \A i \in (t + 1)..b : ScanChar(q, r, i) = r
    <3> SUFFICES ASSUME NEW i \in (t + 1)..b PROVE ScanChar(q, r, i) = r
      OBVIOUS
    <3>1. i \in (t + 1)..Len(q) /\ q[i] # c
      BY <1>1, <1>3, <1>6
    <3> QED
      BY <1>5, <3>1
  <2>2. t \in 0..Len(q) /\ b \in t..b
    BY <1>1
  <2>3. \A i \in t..b : f[i] = f[t]
    BY <2>1, <2>2, ScanStays DEF r
  <2> QED
    BY <2>2, <2>3 DEF r
<1>7. CASE Closing(q, t) = {}
  <2>1. f[Len(q)] = r /\ e = Len(q)
    BY <1>1, <1>2, <1>6, <1>7
  <2>2. f[e].cuts = s.cuts /\ ~(e < Len(q))
    <3>1. ~(Len(q) < Len(q))
      BY <1>1
    <3> QED
      BY <1>4, <2>1, <3>1
  <2> QED
    BY <1>4, <2>2 DEF Passed, e, s
<1>8. CASE Closing(q, t) # {}
  <2>1. e \in (t + 1)..Len(q) /\ q[e] = c
    BY <1>2, <1>3, <1>8
  <2>2. e - 1 \in t..Len(q) /\ \A i \in (t + 1)..(e - 1) : i \notin Closing(q, t)
    BY <1>1, <1>2, <2>1
  <2>3. f[e - 1] = r
    BY <1>6, <2>2
  <2>4. f[e] = [r EXCEPT !.quote = <<>>]
    <3>1. e \in 1..Len(q)
      BY <1>1, <2>1
    <3>2. f[e] = ScanChar(q, r, e)
      BY <2>3, <3>1 DEF ScanOf
    <3> QED
      BY <1>5, <2>1, <3>2
  <2>5. f[e].quote = <<>> /\ f[e].done = s.done /\ f[e].cuts = s.cuts
    BY <1>1, <1>4, <2>4 DEF State
  <2>6. s.done <= e
    BY <1>1, <2>1
  <2> QED
    BY <1>4, <2>5, <2>6 DEF Passed, e, s
<1> QED
  BY <1>7, <1>8

\* A dollar quote's tag: words between two "$", and where it stands in q.
LEMMA DollarTags ==
  ASSUME NEW q \in Seq(Chars), NEW t \in 1..Len(q), q[t] = "$", DollarTag(q, t) # <<>>
  PROVE  LET tag == UpToDollar(q, t)
         IN /\ DollarTag(q, t) = tag /\ tag \in Seq(Chars)
            /\ Len(tag) \in Nat /\ Len(tag) >= 2 /\ t + Len(tag) - 1 <= Len(q)
            /\ tag[1] = "$" /\ tag[Len(tag)] = "$"
            /\ \A j \in 2..(Len(tag) - 1) : tag[j] # "$"
<1> DEFINE tag == UpToDollar(q, t)
           L == Len(tag)
<1>1. /\ DollarTag(q, t) = tag /\ tag # <<>>
      /\ \A j \in 2..(L - 1) : tag[j] = "x"
  BY DEF DollarTag
<1>2. PICK e \in (t + 1)..Len(q) :
        /\ q[e] = "$" /\ tag \in Seq(Chars) /\ L = e - t + 1
        /\ \A j \in 1..(e - t + 1) : tag[j] = q[t + j - 1]
  BY <1>1, TagAt
<1> HIDE DEF tag
<1>3. Len(q) \in Nat /\ t \in Nat /\ e \in Nat
  BY LenProperties
<1>4. L \in Nat /\ L >= 2 /\ t + L - 1 <= Len(q)
  BY <1>2, <1>3
<1>5. tag[1] = "$" /\ tag[L] = "$"
  <2>1. tag[1] = q[t + 1 - 1] /\ t + 1 - 1 = t
    BY <1>2, <1>3
  <2>2. tag[e - t + 1] = q[t + (e - t + 1) - 1] /\ t + (e - t + 1) - 1 = e
    BY <1>2, <1>3
  <2> QED
    BY <1>2, <2>1, <2>2
<1>6. \A j \in 2..(L - 1) : tag[j] # "$"
  BY <1>1
<1> QED
  BY <1>1, <1>2, <1>4, <1>5, <1>6 DEF tag

\* What the code compares at i, and where PostgreSQL sees the tag again.
Finds(q, tag, i) == q[i] = "$" /\ UpToDollar(q, i) = tag
Recurs(q, tag, i) ==
  i + Len(tag) - 1 <= Len(q) /\ SubSeq(q, i, i + Len(tag) - 1) = tag

\* The code finds the tag at a "$" exactly where PostgreSQL does.
LEMMA TagFound ==
  ASSUME NEW q \in Seq(Chars), NEW i \in 1..Len(q), NEW tag \in Seq(Chars),
         Len(tag) >= 2, tag[1] = "$", tag[Len(tag)] = "$",
         \A j \in 2..(Len(tag) - 1) : tag[j] # "$"
  PROVE  Finds(q, tag, i) <=> Recurs(q, tag, i)
<1> DEFINE L == Len(tag)
           e == i + L - 1
           u == UpToDollar(q, i)
<1>1. Len(q) \in Nat /\ i \in Nat /\ L \in Nat /\ L >= 2
  BY LenProperties
<1>2. ASSUME u = tag PROVE e <= Len(q) /\ SubSeq(q, i, e) = tag
  <2>1. u # <<>>
    BY <1>1, <1>2, EmptySeq
  <2>2. PICK d \in (i + 1)..Len(q) : Len(u) = d - i + 1 /\ u = SubSeq(q, i, d)
    BY <2>1, TagAt
  <2> HIDE DEF u
  <2>3. d = e
    BY <1>1, <1>2, <2>2
  <2> QED
    BY <1>1, <1>2, <2>2, <2>3
<1>3. ASSUME e <= Len(q), SubSeq(q, i, e) = tag PROVE q[i] = "$" /\ u = tag
  <2>1. \A j \in 1..L : tag[j] = q[i + j - 1]
    <3>1. \A j \in i..e : q[j] \in Chars
      BY <1>1, <1>3, ElementOfSeq
    <3>2. /\ Len(SubSeq(q, i, e)) = L
          /\ \A j \in 1..L : SubSeq(q, i, e)[j] = q[i + j - 1]
      BY <1>1, <3>1, SubSeqProperties
    <3> QED
      BY <1>3, <3>2
  <2>2. q[i] = "$"
    <3>1. 1 \in 1..L /\ i + 1 - 1 = i
      BY <1>1
    <3> QED
      BY <2>1, <3>1
  <2>3. q[e] = "$" /\ e \in (i + 1)..Len(q)
    <3>1. L \in 1..L /\ i + L - 1 = e
      BY <1>1
    <3> QED
      BY <1>1, <1>3, <2>1, <3>1
  <2>4. \A j \in (i + 1)..(e - 1) : q[j] # "$"
    <3> SUFFICES ASSUME NEW j \in (i + 1)..(e - 1) PROVE q[j] # "$"
      OBVIOUS
    <3>1. j - i + 1 \in 2..(L - 1) /\ j - i + 1 \in 1..L /\ i + (j - i + 1) - 1 = j
      BY <1>1
    <3> QED
      BY <2>1, <3>1
  <2>5. u # <<>>
    BY <2>3, TagAt
  <2>6. PICK d \in (i + 1)..Len(q) :
           /\ q[d] = "$" /\ \A j \in (i + 1)..(d - 1) : q[j] # "$"
           /\ u = SubSeq(q, i, d)
    <3>1. ~(u = <<>> /\ \A j \in (i + 1)..Len(q) : q[j] # "$")
      BY <2>5
    <3> QED
      BY <3>1, TagAt
  <2> HIDE DEF u, e
  <2>7. d = e
    <3>1. d \in Nat /\ e \in Nat /\ ~(e \in (i + 1)..(d - 1)) /\ ~(d \in (i + 1)..(e - 1))
      BY <1>1, <2>3, <2>4, <2>6
    <3> QED
      BY <1>1, <2>3, <2>6, <3>1
  <2> QED
    BY <1>3, <2>2, <2>6, <2>7
<1> QED
  BY <1>2, <1>3 DEF Finds, Recurs

\* A dollar quote, to its closing tag or to the end of the text.
LEMMA DollarsPassed ==
  ASSUME NEW q \in Seq(Chars), NEW f, ScanOf(q, f), NEW t \in 1..Len(q), Between(f, t),
         q[t] = "$", DollarTag(q, t) # <<>>
  PROVE  Passed(q, f, t)
<1> DEFINE s == f[t - 1]
           r == f[t]
           tag == UpToDollar(q, t)
           L == Len(tag)
           e == TokenEnd(q, t)
           Found(i) == Finds(q, tag, i)
<1>1. /\ Len(q) \in Nat /\ t \in Nat /\ s \in State /\ s.done \in Nat /\ s.cuts \in SUBSET Nat
      /\ ~(t <= s.done) /\ f[t] = ScanChar(q, s, t) /\ s.quote = <<>> /\ s.done <= t - 1
      /\ r \in State
  BY BeforeToken DEF Between
<1>2. /\ DollarTag(q, t) = tag /\ tag \in Seq(Chars)
      /\ L \in Nat /\ L >= 2 /\ t + L - 1 <= Len(q)
      /\ tag[1] = "$" /\ tag[L] = "$" /\ \A j \in 2..(L - 1) : tag[j] # "$"
  BY DollarTags
<1>3. /\ e \in t..Len(q) /\ \A j \in Closing(q, t) : e <= j
      /\ Closing(q, t) = {} => e = Len(q)
      /\ Closing(q, t) # {} => e \in Closing(q, t)
  BY TokenEndAt
<1>4. Closing(q, t) = {j \in (t + 2 * L - 1)..Len(q) : SubSeq(q, j - L + 1, j) = tag}
  <2> HIDE DEF tag
  <2>1. q[t] \notin Quotes
    BY DEF Quotes
  <2> QED
    BY <1>2, <2>1 DEF Closing
<1>5. r.quote = tag /\ r.done = t + L - 1 /\ r.cuts = s.cuts /\ q[t] # Semicolon
  <2>1. tag # <<>>
    BY <1>2
  <2> HIDE DEF s
  <2>2. ScanChar(q, s, t) = Quoting(s, tag, t + L - 1)
    <3>1. s \in State /\ s.quote = <<>> /\ ~(t <= s.done)
      BY <1>1
    <3>2. tag = UpToDollar(q, t) /\ L = Len(tag)
      OBVIOUS
    <3> HIDE DEF r, e, Found, L, tag
    <3>3. ScanChar(q, s, t) = Quoting(s, UpToDollar(q, t), t + Len(UpToDollar(q, t)) - 1)
      BY <2>1, <3>1, <3>2, ScanOutside
    <3> QED
      BY <3>2, <3>3
  <2> HIDE DEF tag
  <2>3. r = Quoting(s, tag, t + L - 1)
    BY <1>1, <2>2
  <2>4. r.quote = tag /\ r.done = t + L - 1 /\ r.cuts = s.cuts
    BY <1>1, <2>3 DEF State, Quoting
  <2> QED
    BY <2>4 DEF Semicolon
<1> HIDE DEF e, s, r
<1>n. Len(q) \in Nat /\ t \in Nat /\ L \in Nat /\ L >= 2
  BY <1>1, <1>2
<1>6. ASSUME NEW i \in 1..Len(q)
      PROVE  Found(i) <=> i + L - 1 <= Len(q) /\ SubSeq(q, i, i + L - 1) = tag
  <2> HIDE DEF tag
  <2>1. /\ tag \in Seq(Chars) /\ Len(tag) >= 2 /\ tag[1] = "$" /\ tag[Len(tag)] = "$"
        /\ \A j \in 2..(Len(tag) - 1) : tag[j] # "$"
    BY <1>2
  <2> QED
    BY <2>1, TagFound DEF Recurs
<1> HIDE DEF tag
<1>7. ASSUME NEW i \in (t + 1)..Len(q)
      PROVE  ScanChar(q, r, i) = IF i >= t + L /\ Found(i)
                                   THEN Quoting(r, <<>>, i + L - 1) ELSE r
  <2>1. i \in 1..Len(q)
    BY <1>1
  <2>2. CASE i < t + L
    <3>1. i <= t + L - 1 /\ ~(i >= t + L)
      BY <1>n, <2>2
    <3>2. i <= r.done
      BY <1>5, <3>1
    <3>3. ScanChar(q, r, i) = r
      BY <3>2 DEF ScanChar
    <3> QED
      BY <3>1, <3>3
  <2>3. CASE i >= t + L
    <3>1. ~(i <= r.done) /\ Len(r.quote) >= 2
      BY <1>1, <1>2, <1>5, <2>3
    <3>2. r \in State /\ r.quote = tag
      BY <1>1, <1>5
    <3>3. CASE Found(i)
      <4>1. ScanChar(q, r, i) = Quoting(r, <<>>, i + Len(r.quote) - 1)
        BY <2>1, <3>1, <3>2, <3>3, ScanInDollars DEF Finds
      <4> QED
        BY <2>3, <3>2, <3>3, <4>1
    <3>4. CASE ~Found(i)
      <4>1. ScanChar(q, r, i) = r
        BY <2>1, <3>1, <3>2, <3>4, ScanInDollars DEF Finds
      <4> QED
        BY <3>4, <4>1
    <3> QED
      BY <3>3, <3>4
  <2> QED
    BY <1>1, <1>2, <2>2, <2>3
<1> HIDE DEF Found
<1>8. ASSUME NEW b \in t..Len(q), \A i \in (t + L)..b : ~Found(i)
      PROVE  f[b] = r
  <2>1. \A i \in (t + 1)..b : ScanChar(q, r, i) = r
    <3> SUFFICES ASSUME NEW i \in (t + 1)..b PROVE ScanChar(q, r, i) = r
      OBVIOUS
    <3>1. i \in (t + 1)..Len(q) /\ ~(i >= t + L /\ Found(i))
      BY <1>1, <1>2, <1>8
    <3> QED
      BY <1>7, <3>1
  <2>2. t \in 0..Len(q) /\ b \in t..b
    BY <1>1
  <2>3. \A i \in t..b : f[i] = f[t]
    BY <2>1, <2>2, ScanStays DEF r
  <2> QED
    BY <2>2, <2>3 DEF r
<1>9. ASSUME NEW i \in (t + L)..Len(q), Found(i)
      PROVE  i + L - 1 \in Closing(q, t)
  <2>1. i \in 1..Len(q) /\ i + L - 1 \in (t + 2 * L - 1)..Len(q) /\ (i + L - 1) - L + 1 = i
    <3>1. i \in 1..Len(q)
      BY <1>1, <1>2
    <3>2. i + L - 1 <= Len(q)
      BY <1>6, <1>9, <3>1
    <3> QED
      BY <1>1, <1>2, <3>1, <3>2
  <2>2. SubSeq(q, i, i + L - 1) = tag
    BY <1>6, <1>9, <2>1
  <2> QED
    BY <1>4, <2>1, <2>2
<1>10. CASE Closing(q, t) = {}
  <2>1. Len(q) \in t..Len(q) /\ \A i \in (t + L)..Len(q) : ~Found(i)
    BY <1>1, <1>9, <1>10
  <2>2. f[Len(q)] = r /\ e = Len(q)
    BY <1>3, <1>8, <1>10, <2>1
  <2>3. ~(Len(q) < Len(q))
    BY <1>1
  <2>4. f[e].cuts = s.cuts /\ ~(e < Len(q))
    BY <1>5, <2>2, <2>3
  <2> QED
    BY <1>5, <2>4 DEF Passed, e, s
<1>11. CASE Closing(q, t) # {}
  <2> DEFINE i == e - L + 1
  <2>1. e \in (t + 2 * L - 1)..Len(q) /\ SubSeq(q, e - L + 1, e) = tag
    BY <1>3, <1>4, <1>11
  <2>2. i = e - L + 1
    OBVIOUS
  <2> HIDE DEF i
  <2>3. /\ i \in (t + L)..Len(q) /\ i \in 1..Len(q) /\ i \in (t + 1)..Len(q) /\ i \in Nat
        /\ i + L - 1 = e /\ i - 1 \in t..Len(q) /\ i >= t + L
    <3>1. e \in Nat /\ t + 2 * L - 1 <= e /\ e <= Len(q)
      BY <1>n, <2>1
    <3>2. i \in Nat /\ i >= t + L /\ i <= Len(q) /\ i + L - 1 = e
      BY <1>n, <2>2, <3>1
    <3> QED
      BY <1>n, <3>2
  <2>4. Found(i)
    <3>1. i + L - 1 <= Len(q) /\ SubSeq(q, i, i + L - 1) = tag
      BY <1>1, <2>1, <2>2, <2>3
    <3> QED
      BY <1>6, <2>3, <3>1
  <2>5. \A j \in (t + L)..(i - 1) : ~Found(j)
    <3> SUFFICES ASSUME NEW j \in (t + L)..(i - 1), Found(j) PROVE FALSE
      OBVIOUS
    <3>1. j \in Nat /\ t + L <= j /\ j <= i - 1 /\ i <= Len(q)
      BY <1>n, <2>3
    <3>2. j \in (t + L)..Len(q)
      BY <1>n, <2>3, <3>1
    <3>3. ~(i + L - 1 <= j + L - 1)
      BY <1>n, <2>3, <3>1
    <3> QED
      BY <1>3, <1>9, <2>3, <3>2, <3>3
  <2>6. f[i - 1] = r
    BY <1>8, <2>3, <2>5
  <2>7. f[i] = Quoting(r, <<>>, e)
    <3>1. f[i] = ScanChar(q, r, i)
      BY <2>3, <2>6 DEF ScanOf
    <3>2. ScanChar(q, r, i) = Quoting(r, <<>>, i + L - 1)
      BY <1>7, <2>3, <2>4
    <3> QED
      BY <2>3, <3>1, <3>2
  <2>8. f[i].quote = <<>> /\ f[i].done = e /\ f[i].cuts = s.cuts
    BY <1>1, <1>5, <2>7 DEF State, Quoting
  <2>9. f[e] = f[i]
    <3>1. i \in 0..Len(q) /\ e \in i..Len(q) /\ e \in i..e
      BY <1>1, <1>2, <2>1, <2>3
    <3>2. \A j \in (i + 1)..e : ScanChar(q, f[i], j) = f[i]
      <4> SUFFICES ASSUME NEW j \in (i + 1)..e PROVE ScanChar(q, f[i], j) = f[i]
        OBVIOUS
      <4>1. j <= f[i].done
        BY <2>8
      <4> QED
        BY <4>1 DEF ScanChar
    <3> QED
      BY <3>1, <3>2, ScanStays
  <2>10. e <= e
    BY <2>1
  <2> QED
    BY <1>5, <2>8, <2>9, <2>10 DEF Passed, e, s
<1> QED
  BY <1>10, <1>11

\* The scan passes every token, whatever it is.
LEMMA TokenPassed ==
  ASSUME NEW q \in Seq(Chars), ~StrayDollar(q), NEW f, ScanOf(q, f),
         NEW t \in TokenStarts(q), Between(f, t)
  PROVE  Passed(q, f, t)
<1>1. t \in 1..Len(q) /\ q[t] \in Chars
  BY WhereTokensStart, ElementOfSeq
<1>2. q[t] = "x" => \A j \in t..TokenEnd(q, t) : q[j] # "$"
  BY DEF StrayDollar
<1>3. q[t] = "$" => DollarTag(q, t) # <<>>
  BY DEF StrayDollar
<1>4. q[t] = "x" \/ q[t] = "$" \/ q[t] \in Quotes \/ q[t] \in Plain
  BY <1>1 DEF Chars, Quotes, Plain, Semicolon
<1> QED
  BY <1>1, <1>2, <1>3, <1>4, WordPassed, DollarsPassed, QuotePassed, PlainPassed

\* The semicolons among the tokens that start before i.
Semicolons(q, i) == {j \in TokenStarts(q) : j < i /\ q[j] = Semicolon}

\* The semicolons before the next token.
LEMMA NextToken ==
  ASSUME NEW q \in Seq(Chars), NEW t \in TokenStarts(q)
  PROVE  Semicolons(q, TokenEnd(q, t) + 1) =
           Semicolons(q, t) \cup (IF q[t] = Semicolon THEN {t} ELSE {})
<1> DEFINE T == TokenStarts(q)
           e == TokenEnd(q, t)
<1>1. T \in SUBSET (1..Len(q)) /\ t \in T /\ e \in t..Len(q) /\ Len(q) \in Nat
  BY WhereTokensStart, TokenEndAt, LenProperties
<1>2. \A j \in T : t < j => e < j
  BY NoTokenInside
<1> HIDE DEF T, e
<1>3. ASSUME NEW j \in T PROVE j < e + 1 <=> j < t \/ j = t
  <2>1. j \in Nat /\ t \in Nat /\ e \in Nat /\ t <= e
    BY <1>1
  <2>2. ~(t < j /\ j <= e)
    BY <1>2, <2>1
  <2> QED
    BY <2>1, <2>2
<1>4. \A j : j \in Semicolons(q, e + 1) <=> j \in T /\ j < e + 1 /\ q[j] = Semicolon
  BY DEF Semicolons, T
<1>5. \A j : j \in Semicolons(q, t) <=> j \in T /\ j < t /\ q[j] = Semicolon
  BY DEF Semicolons, T
<1>6. \A j : j \in Semicolons(q, e + 1) <=>
               j \in Semicolons(q, t) \cup (IF q[t] = Semicolon THEN {t} ELSE {})
  BY <1>1, <1>3, <1>4, <1>5
<1> QED
  BY <1>6 DEF e

\* Wherever a token starts, the scan has read the tokens before it.
LEMMA ScanFollowsTokens ==
  ASSUME NEW q \in Seq(Chars), ~StrayDollar(q), NEW f, ScanOf(q, f)
  PROVE  \A t \in TokenStarts(q) : Between(f, t) /\ f[t - 1].cuts = Semicolons(q, t)
<1> DEFINE T == TokenStarts(q)
           Good(t) == Between(f, t) /\ f[t - 1].cuts = Semicolons(q, t)
           P == {m \in 0..Len(q) : \A t \in T : t <= m => Good(t)}
<1>1. T \in SUBSET (1..Len(q)) /\ Len(q) \in Nat
  BY WhereTokensStart, LenProperties
<1>2. \A t \in T : t = 1 \/ \E j \in T : TokenEnd(q, j) = t - 1
  BY <1>1, WhereTokensStart
<1> HIDE DEF T
<1>3. 0 \in P
  BY <1>1
<1>4. ASSUME NEW m \in (0 + 1)..Len(q), m - 1 \in P PROVE m \in P
  <2>1. m \in 0..Len(q) /\ m \in Nat
    BY <1>1
  <2>2. ASSUME m \in T PROVE Good(m)
    <3>1. CASE m = 1
      <4>1. /\ f[m - 1].quote = <<>> /\ f[m - 1].done = m - 1 /\ f[m - 1].cuts = {}
            /\ m - 1 <= m - 1
        BY <3>1 DEF ScanOf
      <4>2. Semicolons(q, 1) = {}
        BY <1>1 DEF Semicolons, T
      <4> QED
        BY <3>1, <4>1, <4>2, Zenon DEF Between
    <3>2. CASE m # 1
      <4>1. PICK j \in T : TokenEnd(q, j) = m - 1
        BY <1>2, <2>2, <3>2
      <4>2. j \in 1..Len(q) /\ m - 1 \in j..Len(q)
        <5>1. j \in 1..Len(q)
          BY <1>1
        <5> QED
          BY <4>1, <5>1, TokenEndAt
      <4>3. Good(j)
        <5>1. j <= m - 1
          BY <4>2
        <5> QED
          BY <1>4, <5>1
      <4>4. Passed(q, f, j)
        BY <4>3, TokenPassed DEF T
      <4>5. m - 1 < Len(q)
        BY <1>1, <2>1
      <4>6. /\ f[m - 1].cuts = f[j - 1].cuts \cup (IF q[j] = Semicolon THEN {j} ELSE {})
            /\ f[m - 1].quote = <<>> /\ f[m - 1].done <= m - 1
        BY <4>1, <4>4, <4>5 DEF Passed
      <4>7. Semicolons(q, (m - 1) + 1) =
              Semicolons(q, j) \cup (IF q[j] = Semicolon THEN {j} ELSE {})
        BY <4>1, NextToken DEF T
      <4>8. (m - 1) + 1 = m
        BY <2>1
      <4> QED
        BY <4>3, <4>6, <4>7, <4>8 DEF Between
    <3> QED
      BY <3>1, <3>2
  <2> HIDE DEF Good
  <2>3. \A t \in T : t <= m => t <= m - 1 \/ t = m
    BY <1>1, <2>1
  <2> QED
    BY <1>4, <2>1, <2>2, <2>3
<1>5. Len(q) \in 0..Len(q) /\ \A t \in T : t <= Len(q)
  BY <1>1
<1> HIDE DEF P
<1>6. Len(q) \in P
  BY <1>1, <1>3, <1>4, <1>5, Induction, 0 \in Nat
<1> QED
  BY <1>5, <1>6 DEF P, T

\* The scan cuts at the semicolons that are tokens, and nowhere else.
LEMMA CutsAgree ==
  ASSUME NEW q \in Seq(Chars), ~StrayDollar(q)
  PROVE  Scan(q).cuts = {i \in TokenStarts(q) : q[i] = Semicolon}
<1> DEFINE T == TokenStarts(q)
<1>1. PICK f : ScanOf(q, f) /\ Scan(q) = f[Len(q)]
  BY ScanUnfolds
<1>2. T \in SUBSET (1..Len(q)) /\ Len(q) \in Nat /\ T \in SUBSET Nat
  BY WhereTokensStart, LenProperties
<1>3. CASE Len(q) = 0
  <2>1. f[0].cuts = {}
    BY <1>1 DEF ScanOf
  <2>2. T = {}
    BY <1>2, <1>3
  <2> QED
    BY <1>1, <1>3, <2>1, <2>2
<1>4. CASE Len(q) # 0
  <2>1. 1 \in T
    <3>1. 1 \in 1..Len(q)
      BY <1>2, <1>4
    <3> QED
      BY <3>1, WhereTokensStart
  <2> DEFINE t == Max(T)
             e == TokenEnd(q, t)
  <2>2. t \in T /\ \A i \in T : i <= t
    <3>1. T # {} /\ \A i \in T : i <= Len(q)
      BY <1>2, <2>1
    <3> HIDE DEF T
    <3> QED
      BY <1>2, <3>1, MaxIsGreatest
  <2> HIDE DEF t
  <2>3. t \in 1..Len(q) /\ e \in t..Len(q)
    BY <1>2, <2>2, TokenEndAt
  <2>4. e = Len(q)
    <3>1. SUFFICES ASSUME e # Len(q) PROVE FALSE
      OBVIOUS
    <3>2. e + 1 \in 1..Len(q) /\ (e + 1) - 1 = e /\ ~(e + 1 <= t)
      BY <1>2, <2>3, <3>1
    <3>3. e + 1 \in T
      BY <2>2, <3>2, WhereTokensStart
    <3> QED
      BY <2>2, <3>2, <3>3
  <2>5. Between(f, t) /\ f[t - 1].cuts = Semicolons(q, t)
    BY <1>1, <2>2, ScanFollowsTokens
  <2>6. Passed(q, f, t)
    BY <1>1, <2>2, <2>5, TokenPassed
  <2>7. f[e].cuts = f[t - 1].cuts \cup (IF q[t] = Semicolon THEN {t} ELSE {})
    BY <2>6 DEF Passed
  <2>8. f[e].cuts = Semicolons(q, e + 1)
    BY <2>2, <2>5, <2>7, NextToken
  <2>9. Semicolons(q, e + 1) = {i \in T : q[i] = Semicolon}
    <3>1. \A i \in T : i < e + 1
      BY <1>2, <2>4
    <3> QED
      BY <3>1 DEF Semicolons
  <2> QED
    BY <1>1, <2>4, <2>8, <2>9
<1> QED
  BY <1>3, <1>4

\* So the code and PostgreSQL find the same statements.
LEMMA SplitsRight ==
  ASSUME NEW q \in Seq(Chars), ~StrayDollar(q)
  PROVE  splitStatements(q) = PostgresStatements(q)
BY CutsAgree DEF splitStatements, PostgresStatements, Semicolon
=============================================================================
