---------------------------- MODULE HistoryLemmas ----------------------------
(***************************************************************************)
(* Facts about the operators of TopologyMessages: what filtering a         *)
(* sequence by its positions returns, where lower_bound inserts, what      *)
(* PruneRemoved leaves of a history that was added to, and what Broadcast  *)
(* then finds unsent.                                                      *)
(***************************************************************************)
EXTENDS TopologyMessages, FiniteSetTheorems, SequenceTheorems,
        WellFoundedInduction, TLAPS

\* Every nonempty set of natural numbers has a least element.
LEMMA LeastNatural ==
    ASSUME NEW T \in SUBSET Nat, T # {}
    PROVE  \E x \in T : \A y \in T : x <= y
<1>1. \E x \in T : \A y \in T : ~(<<y, x>> \in OpToRel(<, Nat))
  BY NatLessThanWellFounded, WFMin
<1>2. PICK x \in T : \A y \in T : ~(<<y, x>> \in OpToRel(<, Nat))
  BY <1>1
<1>3. \A y \in T : ~(y < x)
  BY <1>2 DEF OpToRel
<1> QED
  BY <1>3

\* Sets of positions are finite.
LEMMA PositionsFinite ==
    ASSUME NEW n \in Nat, NEW S \in SUBSET (1..n)
    PROVE  IsFiniteSet(S) /\ Cardinality(S) \in Nat
<1>1. IsFiniteSet(1..n)
  BY FS_Interval
<1>2. IsFiniteSet(S)
  BY <1>1, FS_Subset
<1> QED
  BY <1>2, FS_CardinalityType

\* The positions of S up to a bound.
UpTo(S, i) == {j \in S : j <= i}

\* Their number, from one bound to the next.
LEMMA CountUpTo ==
    ASSUME NEW n \in Nat, NEW S \in SUBSET (1..n), NEW i \in 1..n
    PROVE  /\ Cardinality(UpTo(S, i)) \in Nat /\ Cardinality(UpTo(S, i - 1)) \in Nat
           /\ Cardinality(UpTo(S, i)) =
                 Cardinality(UpTo(S, i - 1)) + (IF i \in S THEN 1 ELSE 0)
<1>1. UpTo(S, i) \in SUBSET (1..n) /\ UpTo(S, i - 1) \in SUBSET (1..n)
  BY DEF UpTo
<1>2. /\ IsFiniteSet(UpTo(S, i)) /\ IsFiniteSet(UpTo(S, i - 1))
      /\ Cardinality(UpTo(S, i)) \in Nat /\ Cardinality(UpTo(S, i - 1)) \in Nat
  BY <1>1, PositionsFinite
<1>3. \A j \in S : j <= i <=> (j <= i - 1 \/ j = i)
  OBVIOUS
<1>4. CASE i \in S
  <2>1. \A x : x \in UpTo(S, i) <=> x \in UpTo(S, i - 1) \cup {i}
    BY <1>3, <1>4 DEF UpTo
  <2>2. UpTo(S, i) = UpTo(S, i - 1) \cup {i} /\ i \notin UpTo(S, i - 1)
    BY <2>1 DEF UpTo
  <2> QED
    BY <2>2, <1>2, <1>4, FS_AddElement
<1>5. CASE i \notin S
  <2>1. \A x : x \in UpTo(S, i) <=> x \in UpTo(S, i - 1)
    BY <1>3, <1>5 DEF UpTo
  <2>2. UpTo(S, i) = UpTo(S, i - 1)
    BY <2>1
  <2> QED
    BY <2>2, <1>2, <1>5
<1> QED
  BY <1>2, <1>4, <1>5

\* A set of positions has a k-th one, for every k up to its cardinality: the
\* least bound that has k positions up to it.
LEMMA KthExists ==
    ASSUME NEW n \in Nat, NEW S \in SUBSET (1..n), NEW k \in 1..Cardinality(S)
    PROVE  \E i \in S : Cardinality(UpTo(S, i)) = k
<1> DEFINE T == {i \in 1..n : Cardinality(UpTo(S, i)) >= k}
<1>1. Cardinality(S) \in Nat /\ k \in Nat /\ k >= 1
  BY PositionsFinite
<1>2. n \in 1..n /\ UpTo(S, n) = S
  <2>1. S # {}
    BY <1>1, FS_EmptySet
  <2>2. \A j \in S : j <= n
    OBVIOUS
  <2>3. \A x : x \in UpTo(S, n) <=> x \in S
    BY <2>2 DEF UpTo
  <2> QED
    BY <2>1, <2>2, <2>3
<1>3. n \in T /\ T \in SUBSET Nat
  BY <1>1, <1>2
<1>4. PICK i \in T : \A j \in T : i <= j
  BY <1>3, LeastNatural
<1>5. /\ i \in 1..n /\ Cardinality(UpTo(S, i)) >= k
      /\ Cardinality(UpTo(S, i)) \in Nat /\ Cardinality(UpTo(S, i - 1)) \in Nat
      /\ Cardinality(UpTo(S, i)) =
            Cardinality(UpTo(S, i - 1)) + (IF i \in S THEN 1 ELSE 0)
  BY <1>4, CountUpTo
<1>6. Cardinality(UpTo(S, i - 1)) < k
  <2>1. CASE i = 1
    <3>1. \A j \in S : ~(j <= i - 1)
      BY <2>1
    <3>2. UpTo(S, i - 1) = {}
      BY <3>1 DEF UpTo
    <3> QED
      BY <3>2, <1>1, FS_EmptySet
  <2>2. CASE i # 1
    <3>1. i - 1 \in 1..n /\ i - 1 \notin T
      BY <2>2, <1>4, <1>5
    <3>2. ~(Cardinality(UpTo(S, i - 1)) >= k)
      BY <3>1
    <3> QED
      BY <3>2, <1>1, <1>5
  <2> QED
    BY <2>1, <2>2
<1>7. i \in S /\ Cardinality(UpTo(S, i)) = k
  BY <1>1, <1>5, <1>6
<1> QED
  BY <1>7

\* The k-th position is in the set, and later positions are larger.
LEMMA KthProperties ==
    ASSUME NEW n \in Nat, NEW S \in SUBSET (1..n)
    PROVE  /\ IsFiniteSet(S) /\ Cardinality(S) \in Nat
           /\ \A k \in 1..Cardinality(S) : Kth(S, k) \in S
           /\ \A k, l \in 1..Cardinality(S) : k < l => Kth(S, k) < Kth(S, l)
<1>1. IsFiniteSet(S) /\ Cardinality(S) \in Nat
  BY PositionsFinite
<1>2. ASSUME NEW k \in 1..Cardinality(S)
      PROVE  Kth(S, k) \in S /\ Cardinality(UpTo(S, Kth(S, k))) = k
  <2>1. \E i \in S : Cardinality({j \in S : j <= i}) = k
    BY KthExists DEF UpTo
  <2> QED
    BY <2>1 DEF Kth, UpTo
<1>3. ASSUME NEW k \in 1..Cardinality(S), NEW l \in 1..Cardinality(S), k < l
      PROVE  Kth(S, k) < Kth(S, l)
  <2>1. /\ Kth(S, k) \in 1..n /\ Kth(S, l) \in 1..n
        /\ Kth(S, k) \in Nat /\ Kth(S, l) \in Nat
    <3>1. Kth(S, k) \in S /\ Kth(S, l) \in S
      BY <1>2
    <3>2. \A j \in S : j \in 1..n /\ j \in Nat
      OBVIOUS
    <3> QED
      BY <3>1, <3>2
  <2>2. SUFFICES ASSUME Kth(S, l) <= Kth(S, k) PROVE FALSE
    BY <2>1
  <2>3. UpTo(S, Kth(S, l)) \in SUBSET UpTo(S, Kth(S, k))
    <3>1. \A j \in S : j \in Nat
      OBVIOUS
    <3>2. \A j \in S : j <= Kth(S, l) => j <= Kth(S, k)
      BY <2>1, <2>2, <3>1
    <3> QED
      BY <3>2 DEF UpTo
  <2>4. IsFiniteSet(UpTo(S, Kth(S, k)))
    BY <1>1, FS_Subset DEF UpTo
  <2>5. Cardinality(UpTo(S, Kth(S, l))) <= Cardinality(UpTo(S, Kth(S, k)))
    BY <2>3, <2>4, FS_Subset
  <2> QED
    BY <1>2, <1>3, <2>5
<1> QED
  BY <1>1, <1>2, <1>3

\* Filtering a sequence gives a sequence of some of its elements, in their order.
LEMMA SubsequenceProperties ==
    ASSUME NEW T, NEW s \in Seq(T), NEW S \in SUBSET DOMAIN s
    PROVE  LET r == SubsequenceAt(s, S) IN
           /\ r \in Seq(T)
           /\ Len(r) = Cardinality(S) /\ DOMAIN r = 1..Cardinality(S)
           /\ \A k \in DOMAIN r : Kth(S, k) \in S /\ r[k] = s[Kth(S, k)]
           /\ \A k, l \in DOMAIN r : k < l => Kth(S, k) < Kth(S, l)
<1> DEFINE n == Cardinality(S)
           r == [k \in 1..n |-> s[Kth(S, k)]]
<1>1. Len(s) \in Nat /\ DOMAIN s = 1..Len(s) /\ \A i \in DOMAIN s : s[i] \in T
  BY LenProperties, ElementOfSeq
<1>2. /\ n \in Nat
      /\ \A k \in 1..n : Kth(S, k) \in S
      /\ \A k, l \in 1..n : k < l => Kth(S, k) < Kth(S, l)
  BY <1>1, KthProperties
<1> HIDE DEF n
<1>3. \A k \in 1..n : s[Kth(S, k)] \in T
  BY <1>1, <1>2
<1>4. r \in [1..n -> T]
  BY <1>3
<1>5. r \in Seq(T) /\ Len(r) = n /\ DOMAIN r = 1..n
  <2>1. r \in Seq(T)
    BY <1>2, <1>4, SeqDef
  <2>2. DOMAIN r = 1..n
    OBVIOUS
  <2> HIDE DEF r
  <2>3. Len(r) \in Nat /\ DOMAIN r = 1..Len(r)
    BY <2>1, LenProperties
  <2>4. Len(r) = n
    BY <1>2, <2>2, <2>3
  <2> QED
    BY <2>1, <2>2, <2>4
<1> QED
  BY <1>2, <1>5 DEF SubsequenceAt, n

\* A position of the set is the k-th when k positions are up to it, and no other is.
LEMMA KthUnique ==
    ASSUME NEW n \in Nat, NEW S \in SUBSET (1..n), NEW i \in S
    PROVE  /\ Cardinality(UpTo(S, i)) \in 1..Cardinality(S)
           /\ Kth(S, Cardinality(UpTo(S, i))) = i
<1> DEFINE k == Cardinality(UpTo(S, i))
           p == Kth(S, k)
<1>1. IsFiniteSet(S) /\ Cardinality(S) \in Nat /\ \A j \in S : j \in Nat
  <2>1. IsFiniteSet(S) /\ Cardinality(S) \in Nat
    BY PositionsFinite
  <2> QED
    BY <2>1
<1>2. \A j \in S : UpTo(S, j) \in SUBSET S /\ j \in UpTo(S, j)
  BY <1>1 DEF UpTo
<1>3. \A j \in S : IsFiniteSet(UpTo(S, j)) /\ Cardinality(UpTo(S, j)) <= Cardinality(S)
  BY <1>1, <1>2, FS_Subset
<1>4. k \in 1..Cardinality(S)
  <2>1. k \in Nat
    BY <1>3, FS_CardinalityType
  <2>2. k # 0
    BY <1>2, <1>3, FS_EmptySet
  <2> QED
    BY <1>1, <1>3, <2>1, <2>2
<1>5. p \in S /\ Cardinality(UpTo(S, p)) = k
  BY DEF Kth, UpTo
<1>6. ASSUME NEW a \in S, NEW b \in S, a < b, Cardinality(UpTo(S, a)) = Cardinality(UpTo(S, b))
      PROVE  FALSE
  <2>1. \A j \in S : j <= a => j <= b
    BY <1>6
  <2>2. UpTo(S, a) \in SUBSET UpTo(S, b)
    BY <2>1 DEF UpTo
  <2>3. UpTo(S, a) = UpTo(S, b)
    BY <1>3, <1>6, <2>2, FS_Subset
  <2> QED
    BY <1>1, <1>2, <1>6, <2>3 DEF UpTo
<1>7. p = i
  <2> HIDE DEF p, k
  <2>1. ~(p < i) /\ ~(i < p)
    BY <1>5, <1>6 DEF k
  <2> QED
    BY <1>1, <1>5, <2>1
<1> QED
  BY <1>4, <1>7

\* The positions up to a bound come first, in the same places.
LEMMA KthOfInitialPart ==
    ASSUME NEW n \in Nat, NEW S \in SUBSET (1..n), NEW m \in Nat
    PROVE  LET c == Cardinality(UpTo(S, m)) IN
           /\ c \in 0..Cardinality(S)
           /\ \A k \in 1..c : Kth(S, k) = Kth(UpTo(S, m), k)
           /\ \A k \in 1..Cardinality(S) : k <= c <=> Kth(S, k) <= m
<1> DEFINE I == UpTo(S, m)
           c == Cardinality(I)
<1>1. IsFiniteSet(S) /\ Cardinality(S) \in Nat /\ \A j \in S : j \in Nat
  BY PositionsFinite
<1>2. I \in SUBSET (1..n) /\ I \in SUBSET S /\ \A j \in S : j \in I <=> j <= m
  BY DEF UpTo
<1>3. \A j \in I : UpTo(I, j) = UpTo(S, j)
  <2>1. ASSUME NEW j \in I PROVE UpTo(I, j) = UpTo(S, j)
    <3>1. j \in S /\ j <= m
      BY <1>2
    <3>2. \A x \in S : x <= j => x \in I
      BY <1>1, <1>2, <3>1
    <3>3. \A x : x \in UpTo(I, j) <=> x \in UpTo(S, j)
      BY <1>2, <3>2 DEF UpTo
    <3> QED
      BY <3>3
  <2> QED
    BY <2>1
<1> HIDE DEF I
<1>4. c \in 0..Cardinality(S) /\ IsFiniteSet(I)
  <2>1. c <= Cardinality(S) /\ IsFiniteSet(I)
    BY <1>1, <1>2, FS_Subset
  <2>2. c \in Nat
    BY <2>1, FS_CardinalityType
  <2> QED
    BY <1>1, <2>1, <2>2
<1>5. ASSUME NEW k \in 1..c
      PROVE  Kth(S, k) = Kth(I, k) /\ Kth(S, k) \in I
  <2>1. PICK i \in I : Cardinality(UpTo(I, i)) = k
    BY <1>2, KthExists
  <2>2. Kth(I, k) = i
    BY <1>2, <2>1, KthUnique
  <2>3. Kth(S, k) = i
    BY <1>2, <1>3, <2>1, KthUnique
  <2> QED
    BY <2>1, <2>2, <2>3
<1>6. ASSUME NEW k \in 1..Cardinality(S), Kth(S, k) <= m
      PROVE  k <= c
  <2>1. PICK i \in S : Cardinality(UpTo(S, i)) = k
    BY KthExists
  <2>2. Kth(S, k) = i
    BY <2>1, KthUnique
  <2>3. i \in I
    BY <1>2, <1>6, <2>1, <2>2
  <2>4. UpTo(I, i) \in SUBSET I
    BY DEF UpTo
  <2>5. Cardinality(UpTo(I, i)) <= c
    BY <1>4, <2>4, FS_Subset
  <2> QED
    BY <1>3, <2>1, <2>3, <2>5
<1>7. \A k \in 1..Cardinality(S) : k <= c => Kth(S, k) <= m
  <2>1. SUFFICES ASSUME NEW k \in 1..Cardinality(S), k <= c PROVE Kth(S, k) <= m
    OBVIOUS
  <2>2. k \in 1..c
    BY <1>1, <1>4, <2>1
  <2>3. Kth(S, k) \in I /\ Kth(S, k) \in S
    BY <1>2, <1>5, <2>2
  <2> QED
    BY <1>2, <2>3
<1> QED
  BY <1>4, <1>5, <1>6, <1>7 DEF I

\* The positions of an interval.
LEMMA KthOfInterval ==
    ASSUME NEW a \in Nat, NEW b \in Nat, a <= b
    PROVE  /\ Cardinality((a + 1)..b) = b - a
           /\ \A k \in 1..(b - a) : Kth((a + 1)..b, k) = a + k
<1> DEFINE S == (a + 1)..b
<1>1. Cardinality(S) = b - a /\ S \in SUBSET (1..b)
  <2>1. Cardinality(S) = IF a + 1 > b THEN 0 ELSE b - (a + 1) + 1
    BY FS_Interval
  <2> QED
    BY <2>1
<1>2. ASSUME NEW k \in 1..(b - a) PROVE Kth(S, k) = a + k
  <2>1. a + k \in S
    OBVIOUS
  <2>2. UpTo(S, a + k) = (a + 1)..(a + k)
    <3>1. \A x : x \in UpTo(S, a + k) <=> x \in (a + 1)..(a + k)
      BY DEF UpTo
    <3> QED
      BY <3>1
  <2>3. Cardinality((a + 1)..(a + k)) = k
    BY FS_Interval
  <2> HIDE DEF S
  <2>4. Cardinality(UpTo(S, a + k)) = k
    BY <2>2, <2>3
  <2>5. Kth(S, Cardinality(UpTo(S, a + k))) = a + k
    BY <1>1, <2>1, KthUnique
  <2> QED
    BY <2>4, <2>5
<1> QED
  BY <1>1, <1>2

\* The tail of a sequence, element by element.
LEMMA TailProperties ==
    ASSUME NEW T, NEW s \in Seq(T), NEW a \in 0..Len(s)
    PROVE  LET t == SubSeq(s, a + 1, Len(s)) IN
           /\ t \in Seq(T) /\ Len(t) = Len(s) - a /\ DOMAIN t = 1..(Len(s) - a)
           /\ \A i \in DOMAIN t : a + i \in DOMAIN s /\ a + i > a /\ t[i] = s[a + i]
<1> DEFINE t == SubSeq(s, a + 1, Len(s))
<1>1. Len(s) \in Nat /\ DOMAIN s = 1..Len(s) /\ a \in Nat /\ a <= Len(s)
  BY LenProperties
<1>2. \A i \in (a + 1)..Len(s) : s[i] \in T
  BY <1>1, ElementOfSeq
<1>3. /\ t \in Seq(T)
      /\ Len(t) = IF a + 1 <= Len(s) THEN Len(s) - (a + 1) + 1 ELSE 0
      /\ \A i \in 1..(Len(s) - (a + 1) + 1) : t[i] = s[(a + 1) + i - 1]
  BY <1>1, <1>2, SubSeqProperties
<1> HIDE DEF t
<1>4. \A l \in Nat : a <= l => (IF a + 1 <= l THEN l - (a + 1) + 1 ELSE 0) = l - a
  BY <1>1
<1>5. Len(t) = Len(s) - a
  BY <1>1, <1>3, <1>4, Zenon
<1>6. DOMAIN t = 1..(Len(s) - a)
  BY <1>3, <1>5, LenProperties
<1>7. ASSUME NEW i \in 1..(Len(s) - a)
      PROVE  a + i \in DOMAIN s /\ a + i > a /\ t[i] = s[a + i]
  <2>1. i \in 1..(Len(s) - (a + 1) + 1) /\ (a + 1) + i - 1 = a + i
    BY <1>1
  <2>2. t[i] = s[(a + 1) + i - 1]
    BY ONLY <1>3, <2>1
  <2> QED
    BY <1>1, <2>1, <2>2
<1> QED
  BY <1>3, <1>5, <1>6, <1>7 DEF t

\* Filtering by an interval up to the end leaves a tail.
LEMMA TailAsSubsequence ==
    ASSUME NEW T, NEW s \in Seq(T), NEW a \in 0..Len(s)
    PROVE  SubsequenceAt(s, (a + 1)..Len(s)) = SubSeq(s, a + 1, Len(s))
<1> DEFINE S == (a + 1)..Len(s)
           r == SubsequenceAt(s, S)
           t == SubSeq(s, a + 1, Len(s))
<1>1. Len(s) \in Nat /\ DOMAIN s = 1..Len(s) /\ a \in Nat /\ a <= Len(s)
  BY LenProperties
<1>2. Cardinality(S) = Len(s) - a /\ \A k \in 1..(Len(s) - a) : Kth(S, k) = a + k
  BY <1>1, KthOfInterval
<1>3. r \in Seq(T) /\ Len(r) = Len(s) - a /\ DOMAIN r = 1..(Len(s) - a)
      /\ \A k \in DOMAIN r : r[k] = s[Kth(S, k)]
  <2>1. S \in SUBSET DOMAIN s
    BY <1>1
  <2> HIDE DEF S
  <2> QED
    BY <1>2, <2>1, SubsequenceProperties
<1>4. t \in Seq(T) /\ Len(t) = Len(s) - a /\ DOMAIN t = 1..(Len(s) - a)
      /\ \A k \in DOMAIN t : t[k] = s[a + k]
  BY TailProperties
<1> HIDE DEF r, t, S
<1>5. \A k \in 1..Len(r) : r[k] = t[k]
  BY <1>2, <1>3, <1>4
<1>6. r = t
  BY <1>3, <1>4, <1>5, SeqEqual
<1> QED
  BY <1>6 DEF r, t, S

\* PruneRemoved keeps a history sorted: it only leaves messages out.
LEMMA PruneKeepsOrder ==
    ASSUME NEW h \in Seq(Messages), SortedBySeq(h), NEW bound \in Nat,
           \A i \in DOMAIN h : h[i].seq < bound
    PROVE  /\ PruneRemoved(h) \in Seq(Messages)
           /\ SortedBySeq(PruneRemoved(h))
           /\ \A i \in DOMAIN PruneRemoved(h) : PruneRemoved(h)[i].seq < bound
<1> DEFINE S == {i \in DOMAIN h : ~Prunable(LeftNodes(h), h[i])}
           r == PruneRemoved(h)
<1>1. /\ r \in Seq(Messages)
      /\ \A k \in DOMAIN r : Kth(S, k) \in S /\ r[k] = h[Kth(S, k)]
      /\ \A k, l \in DOMAIN r : k < l => Kth(S, k) < Kth(S, l)
  <2>1. S \in SUBSET DOMAIN h
    OBVIOUS
  <2>2. r = SubsequenceAt(h, S)
    BY DEF PruneRemoved
  <2> HIDE DEF S, r
  <2> QED
    BY <2>1, <2>2, SubsequenceProperties
<1>2. S \subseteq DOMAIN h
  OBVIOUS
<1> HIDE DEF S, r
<1>3. SortedBySeq(r)
  BY <1>1, <1>2 DEF SortedBySeq
<1>4. \A k \in DOMAIN r : r[k].seq < bound
  BY <1>1, <1>2
<1> QED
  BY <1>1, <1>3, <1>4 DEF r

-----------------------------------------------------------------------------
(* Insertion by sequence number.                                           *)

\* lower_bound finds a place.
LEMMA LowerBoundExists ==
    ASSUME NEW h \in Seq(Messages), NEW seq \in Nat
    PROVE  /\ LowerBound(h, seq) \in 1..(Len(h) + 1)
           /\ LowerBound(h, seq) <= Len(h) => h[LowerBound(h, seq)].seq >= seq
           /\ \A j \in 1..(LowerBound(h, seq) - 1) : h[j].seq < seq
<1> DEFINE Fits(i) == /\ i <= Len(h) => h[i].seq >= seq
                      /\ \A j \in 1..(i - 1) : h[j].seq < seq
           T == {i \in 1..(Len(h) + 1) : i <= Len(h) => h[i].seq >= seq}
<1>1. Len(h) \in Nat /\ \A j \in 1..Len(h) : h[j].seq \in Nat
  <2>1. \A j \in 1..Len(h) : h[j] \in Messages
    OBVIOUS
  <2> QED
    BY <2>1 DEF Messages
<1>2. T \in SUBSET Nat /\ T # {}
  <2>1. Len(h) + 1 \in T
    BY <1>1
  <2> QED
    BY <1>1, <2>1
<1>3. PICK i \in T : \A y \in T : i <= y
  BY <1>2, LeastNatural
<1>4. ASSUME NEW j \in 1..(i - 1) PROVE h[j].seq < seq
  <2>1. j \in 1..Len(h) /\ j < i
    BY <1>1, <1>3, <1>4
  <2>2. j \notin T
    BY <1>1, <1>3, <2>1
  <2> QED
    BY <1>1, <2>1, <2>2
<1>5. i \in 1..(Len(h) + 1) /\ Fits(i)
  BY <1>3, <1>4
<1>6. LowerBound(h, seq) = CHOOSE k \in 1..(Len(h) + 1) : Fits(k)
  BY DEF LowerBound
<1> HIDE DEF Fits, T
<1>7. LowerBound(h, seq) \in 1..(Len(h) + 1) /\ Fits(LowerBound(h, seq))
  BY <1>5, <1>6
<1> QED
  BY <1>7 DEF Fits

\* Insertion keeps the type of a history.
LEMMA InsertBeforeType ==
    ASSUME NEW T, NEW h \in Seq(T), NEW i \in 1..(Len(h) + 1), NEW msg \in T
    PROVE  InsertBefore(h, i, msg) \in Seq(T)
<1>1. SubSeq(h, 1, i - 1) \in Seq(T)
  <2>1. \A j \in 1..(i - 1) : h[j] \in T
    OBVIOUS
  <2> QED
    BY <2>1
<1>2. SubSeq(h, i, Len(h)) \in Seq(T)
  <2>1. \A j \in i..Len(h) : h[j] \in T
    OBVIOUS
  <2> QED
    BY <2>1
<1>3. <<msg>> \in Seq(T)
  OBVIOUS
<1> QED
  BY <1>1, <1>2, <1>3 DEF InsertBefore

-----------------------------------------------------------------------------
(* The messages of a history, and their numbers.                           *)

\* What a history is made of.
LEMMA HistoryElements ==
    ASSUME NEW h \in Seq(Messages)
    PROVE  /\ Len(h) \in Nat /\ DOMAIN h = 1..Len(h)
           /\ \A i \in DOMAIN h : h[i] \in Messages
           /\ \A i \in DOMAIN h : h[i].seq \in Nat
           /\ \A i \in DOMAIN h : h[i].body.node \in Nat
<1>1. Len(h) \in Nat /\ DOMAIN h = 1..Len(h)
  BY LenProperties
<1>2. \A i \in DOMAIN h : h[i] \in Messages
  BY <1>1, ElementOfSeq
<1>3. \A m \in Messages : m.seq \in Nat /\ m.body.node \in Nat
  BY DEF Messages, Bodies
<1> QED
  BY <1>1, <1>2, <1>3

\* Two histories, one after the other, element by element.
LEMMA ConcatElements ==
    ASSUME NEW s \in Seq(Messages), NEW t \in Seq(Messages)
    PROVE  /\ s \o t \in Seq(Messages)
           /\ \A j \in DOMAIN (s \o t) :
                 \/ j \in DOMAIN s /\ (s \o t)[j] = s[j]
                 \/ j > Len(s) /\ j - Len(s) \in DOMAIN t /\ (s \o t)[j] = t[j - Len(s)]
           /\ \A i \in DOMAIN s : i \in DOMAIN (s \o t) /\ (s \o t)[i] = s[i]
           /\ \A i \in DOMAIN t : Len(s) + i \in DOMAIN (s \o t) /\ (s \o t)[Len(s) + i] = t[i]
<1>1. Len(s) \in Nat /\ DOMAIN s = 1..Len(s) /\ Len(t) \in Nat /\ DOMAIN t = 1..Len(t)
  BY LenProperties
<1>2. /\ s \o t \in Seq(Messages) /\ Len(s \o t) = Len(s) + Len(t)
      /\ \A i \in 1..Len(s) + Len(t) : (s \o t)[i] = IF i <= Len(s) THEN s[i] ELSE t[i - Len(s)]
  BY ConcatProperties
<1>3. DOMAIN (s \o t) = 1..Len(s) + Len(t)
  BY <1>2, LenProperties
<1>4. ASSUME NEW j \in 1..Len(s) + Len(t)
      PROVE  \/ j \in 1..Len(s) /\ (s \o t)[j] = s[j]
             \/ j > Len(s) /\ j - Len(s) \in 1..Len(t) /\ (s \o t)[j] = t[j - Len(s)]
  BY <1>1, <1>2
<1>5. \A i \in 1..Len(s) : i \in 1..Len(s) + Len(t) /\ (s \o t)[i] = s[i]
  BY <1>1, <1>2
<1>6. ASSUME NEW i \in 1..Len(t)
      PROVE  Len(s) + i \in 1..Len(s) + Len(t) /\ (s \o t)[Len(s) + i] = t[i]
  <2>1. Len(s) + i \in 1..Len(s) + Len(t) /\ ~(Len(s) + i <= Len(s)) /\ Len(s) + i - Len(s) = i
    BY <1>1
  <2> QED
    BY <1>2, <2>1
<1> QED
  BY <1>1, <1>2, <1>3, <1>4, <1>5, <1>6

LEMMA ConcatHolds ==
    ASSUME NEW s \in Seq(Messages), NEW t \in Seq(Messages)
    PROVE  /\ \A j \in DOMAIN (s \o t) :
                 (\E i \in DOMAIN s : (s \o t)[j] = s[i]) \/ \E i \in DOMAIN t : (s \o t)[j] = t[i]
           /\ \A i \in DOMAIN s : \E j \in DOMAIN (s \o t) : (s \o t)[j] = s[i]
           /\ \A i \in DOMAIN t : \E j \in DOMAIN (s \o t) : (s \o t)[j] = t[i]
<1>1. ASSUME NEW j \in DOMAIN (s \o t)
      PROVE  (\E i \in DOMAIN s : (s \o t)[j] = s[i]) \/ \E i \in DOMAIN t : (s \o t)[j] = t[i]
  BY ConcatElements
<1>2. ASSUME NEW i \in DOMAIN s PROVE \E j \in DOMAIN (s \o t) : (s \o t)[j] = s[i]
  BY ConcatElements
<1>3. ASSUME NEW i \in DOMAIN t PROVE \E j \in DOMAIN (s \o t) : (s \o t)[j] = t[i]
  <2>1. Len(s) + i \in DOMAIN (s \o t) /\ (s \o t)[Len(s) + i] = t[i]
    BY ConcatElements
  <2> QED
    BY <2>1
<1> QED
  BY <1>1, <1>2, <1>3

\* The number Broadcast leaves a client with.
LEMMA HighestSeqIsNat ==
    ASSUME NEW h \in Seq(Messages), SortedBySeq(h), NEW seq \in Nat
    PROVE  HighestSeq(h, seq) \in Nat
<1> DEFINE seqs == {seq} \cup {h[i].seq : i \in DOMAIN h}
<1>1. /\ Len(h) \in Nat /\ DOMAIN h = 1..Len(h)
      /\ \A i \in DOMAIN h : h[i].seq \in Nat
  BY HistoryElements
<1>2. \E m \in seqs : \A x \in seqs : x <= m
  <2>1. CASE \A i \in DOMAIN h : h[i].seq <= seq
    BY <2>1, <1>1
  <2>2. CASE \E i \in DOMAIN h : h[i].seq > seq
    <3>1. PICK i \in DOMAIN h : h[i].seq > seq
      BY <2>2
    <3>2. Len(h) \in DOMAIN h
      BY <1>1
    <3>3. \A j \in DOMAIN h : h[j].seq <= h[Len(h)].seq
      BY <1>1, <3>2 DEF SortedBySeq
    <3>4. seq <= h[Len(h)].seq
      BY <3>1, <3>2, <3>3, <1>1
    <3> QED
      BY <3>2, <3>3, <3>4
  <2> QED
    BY <1>1, <2>1, <2>2
<1>3. HighestSeq(h, seq) \in seqs
  BY <1>2 DEF HighestSeq
<1>4. \A x \in seqs : x \in Nat
  BY <1>1
<1> HIDE DEF seqs
<1> QED
  BY <1>3, <1>4

\* Appending messages that start at the end of what is there keeps the order.
LEMMA AppendKeepsOrder ==
    ASSUME NEW h \in Seq(Messages), SortedBySeq(h), NEW msg \in Messages,
           \A i \in DOMAIN h : h[i].seq < msg.seq
    PROVE  /\ Append(h, msg) \in Seq(Messages)
           /\ SortedBySeq(Append(h, msg))
           /\ \A i \in DOMAIN Append(h, msg) : Append(h, msg)[i].seq < msg.seq + 1
<1>1. /\ Len(h) \in Nat /\ DOMAIN h = 1..Len(h)
      /\ \A i \in DOMAIN h : h[i].seq \in Nat
  BY HistoryElements
<1> DEFINE g == Append(h, msg)
<1>2. /\ g \in Seq(Messages) /\ Len(g) = Len(h) + 1 /\ DOMAIN g = 1..(Len(h) + 1)
      /\ \A i \in 1..(Len(h) + 1) : g[i] = IF i <= Len(h) THEN h[i] ELSE msg
  BY <1>1
<1>3. msg.seq \in Nat
  BY DEF Messages
<1> HIDE DEF g
<1>4. SortedBySeq(g)
  <2>1. SUFFICES ASSUME NEW i \in DOMAIN g, NEW j \in DOMAIN g, i < j
                 PROVE  g[i].seq <= g[j].seq
    BY DEF SortedBySeq
  <2>2. i \in DOMAIN h /\ g[i] = h[i]
    BY <1>1, <1>2, <2>1
  <2>3. CASE j <= Len(h)
    <3>1. j \in DOMAIN h /\ g[j] = h[j]
      BY <1>1, <1>2, <2>3
    <3> QED
      BY <2>1, <2>2, <3>1 DEF SortedBySeq
  <2>4. CASE ~(j <= Len(h))
    <3>1. g[j] = msg
      BY <1>1, <1>2, <2>4
    <3> QED
      BY <1>1, <1>3, <2>2, <3>1
  <2> QED
    BY <2>3, <2>4
<1>5. \A i \in DOMAIN g : g[i].seq < msg.seq + 1
  BY <1>1, <1>2, <1>3
<1> QED
  BY <1>2, <1>4, <1>5 DEF g

\* The nodes a history names are finitely many.
LEMMA ActiveNodesFinite ==
    ASSUME NEW h \in Seq(Messages)
    PROVE  IsFiniteSet(HistoricallyActive(h)) /\ HistoricallyActive(h) \in SUBSET Nat
<1> DEFINE named == {h[i].body.node : i \in DOMAIN h}
           f     == [i \in DOMAIN h |-> h[i].body.node]
<1>1. /\ Len(h) \in Nat /\ DOMAIN h = 1..Len(h)
      /\ \A i \in DOMAIN h : h[i].body.node \in Nat
  BY HistoryElements
<1>2. f \in Surjection(DOMAIN h, named)
  BY DEF Surjection
<1>3. IsFiniteSet(DOMAIN h)
  BY <1>1, FS_Interval
<1>4. IsFiniteSet(named)
  <2> HIDE DEF f, named
  <2> QED
    BY <1>2, <1>3, FS_Surjection
<1>5. HistoricallyActive(h) \in SUBSET named
  BY DEF HistoricallyActive
<1>6. named \in SUBSET Nat
  BY <1>1
<1> HIDE DEF named
<1> QED
  BY <1>4, <1>5, <1>6, FS_Subset

\* The messages PurgeDisconnected mints, n of them from seq on.
Leaves(seq, n, order) ==
    [i \in 1..n |-> Message(seq + i - 1, 0, NodeChange("LEAVE", order[i]))]

\* They continue a history that ends below seq.
LEMMA LeavesKeepOrder ==
    ASSUME NEW h \in Seq(Messages), SortedBySeq(h), NEW seq \in Nat,
           \A i \in DOMAIN h : h[i].seq < seq,
           NEW n \in Nat, NEW order \in [1..n -> Nat]
    PROVE  LET g == h \o Leaves(seq, n, order) IN
           /\ g \in Seq(Messages)
           /\ SortedBySeq(g)
           /\ \A i \in DOMAIN g : g[i].seq < seq + n
<1> DEFINE l == Leaves(seq, n, order)
           g == h \o l
<1>1. /\ Len(h) \in Nat /\ DOMAIN h = 1..Len(h)
      /\ \A i \in DOMAIN h : h[i].seq \in Nat
  BY HistoryElements
<1>2. /\ l \in Seq(Messages) /\ Len(l) = n
      /\ \A i \in 1..n : l[i].seq = seq + i - 1
  <2>1. \A i \in 1..n : seq + i - 1 \in Nat /\ order[i] \in Nat
    OBVIOUS
  <2>2. \A node \in Nat : NodeChange("LEAVE", node) \in Bodies
    BY DEF NodeChange, Bodies, NodeOps
  <2>3. \A i \in 1..n : Message(seq + i - 1, 0, NodeChange("LEAVE", order[i])) \in Messages
    BY <2>1, <2>2 DEF Message, Messages
  <2>4. l \in [1..n -> Messages]
    BY <2>3 DEF Leaves
  <2>5. l \in Seq(Messages) /\ DOMAIN l = 1..n
    BY <2>4, SeqDef
  <2>6. \A i \in 1..n : l[i].seq = seq + i - 1
    BY DEF Leaves, Message
  <2> HIDE DEF l
  <2>7. Len(l) = n
    BY <2>5, LenProperties
  <2> QED
    BY <2>5, <2>6, <2>7
<1> HIDE DEF l
<1>3. /\ g \in Seq(Messages) /\ DOMAIN g = 1..(Len(h) + n)
      /\ \A i \in 1..(Len(h) + n) : g[i] = IF i <= Len(h) THEN h[i] ELSE l[i - Len(h)]
  <2>1. /\ g \in Seq(Messages) /\ Len(g) = Len(h) + n
        /\ \A i \in 1..(Len(h) + n) : g[i] = IF i <= Len(h) THEN h[i] ELSE l[i - Len(h)]
    BY <1>2, ConcatProperties
  <2> HIDE DEF g
  <2> QED
    BY <2>1, LenProperties
<1> HIDE DEF g
<1>4. \A i \in 1..(Len(h) + n) :
         IF i <= Len(h) THEN g[i] = h[i] /\ i \in DOMAIN h
                        ELSE g[i].seq = seq + (i - Len(h)) - 1 /\ i - Len(h) \in 1..n
  <2>1. ASSUME NEW i \in 1..(Len(h) + n), ~(i <= Len(h))
        PROVE  i - Len(h) \in 1..n
    BY <1>1, <2>1
  <2> QED
    BY <1>1, <1>2, <1>3, <2>1
<1>5. SortedBySeq(g)
  <2>1. SUFFICES ASSUME NEW i \in 1..(Len(h) + n), NEW j \in 1..(Len(h) + n), i < j
                 PROVE  g[i].seq <= g[j].seq
    BY <1>3 DEF SortedBySeq
  <2>2. CASE j <= Len(h)
    <3>1. i <= Len(h)
      BY <1>1, <2>1, <2>2
    <3> QED
      BY <1>4, <2>1, <2>2, <3>1 DEF SortedBySeq
  <2>3. CASE i <= Len(h) /\ ~(j <= Len(h))
    <3>1. g[i].seq < seq /\ g[i].seq \in Nat
      BY <1>1, <1>4, <2>3
    <3>2. g[j].seq = seq + (j - Len(h)) - 1 /\ j - Len(h) \in 1..n
      BY <1>4, <2>3
    <3> QED
      BY <1>1, <3>1, <3>2
  <2>4. CASE ~(i <= Len(h)) /\ ~(j <= Len(h))
    <3>1. g[i].seq = seq + (i - Len(h)) - 1 /\ g[j].seq = seq + (j - Len(h)) - 1
      BY <1>4, <2>4
    <3> QED
      BY <1>1, <2>1, <3>1
  <2> QED
    BY <1>1, <2>1, <2>2, <2>3, <2>4
<1>6. \A i \in 1..(Len(h) + n) : g[i].seq < seq + n
  <2>1. SUFFICES ASSUME NEW i \in 1..(Len(h) + n) PROVE g[i].seq < seq + n
    OBVIOUS
  <2>2. CASE i <= Len(h)
    <3>1. g[i] = h[i] /\ h[i].seq < seq /\ h[i].seq \in Nat
      BY <1>1, <1>4, <2>2
    <3> QED
      BY <3>1
  <2>3. CASE ~(i <= Len(h))
    <3>1. g[i].seq = seq + (i - Len(h)) - 1 /\ i - Len(h) \in 1..n
      BY <1>4, <2>3
    <3> QED
      BY <1>1, <3>1
  <2> QED
    BY <2>2, <2>3
<1> QED
  BY <1>3, <1>5, <1>6 DEF g, l

-----------------------------------------------------------------------------
(* What pruning leaves of a history that was added to.                     *)

\* The last number of a sorted history is its largest.
LEMMA LastSeqIsLargest ==
    ASSUME NEW h \in Seq(Messages), SortedBySeq(h)
    PROVE  /\ LastSeq(h) \in Nat
           /\ \A i \in DOMAIN h : h[i].seq <= LastSeq(h)
           /\ DOMAIN h # {} => Len(h) \in DOMAIN h /\ LastSeq(h) = h[Len(h)].seq
           /\ DOMAIN h = {} => LastSeq(h) = 0
<1>1. /\ Len(h) \in Nat /\ DOMAIN h = 1..Len(h)
      /\ \A i \in DOMAIN h : h[i].seq \in Nat
  BY HistoryElements
<1>2. CASE h = <<>>
  BY <1>1, <1>2 DEF LastSeq
<1>3. CASE h # <<>>
  <2>1. Len(h) \in DOMAIN h
    BY <1>1, <1>3, EmptySeq
  <2>2. LastSeq(h) = h[Len(h)].seq
    BY <1>3 DEF LastSeq
  <2>3. \A i \in DOMAIN h : h[i].seq <= h[Len(h)].seq
    BY <1>1, <2>1 DEF SortedBySeq
  <2> QED
    BY <1>1, <2>1, <2>2, <2>3
<1> QED
  BY <1>2, <1>3

\* A LEAVE is never pruned; what a set of nodes prunes, one of them prunes.
LEMMA PrunableByOne ==
    ASSUME NEW left, NEW msg
    PROVE  /\ IsLeave(msg) => ~Prunable(left, msg)
           /\ Prunable(left, msg) <=> \E n \in left : Prunable({n}, msg)
  BY DEF IsLeave, Prunable, TopicOps

\* The positions that PruneRemoved keeps.
Surviving(h) == {i \in DOMAIN h : ~Prunable(LeftNodes(h), h[i])}

\* A pruned history holds what is not prunable, in the old order, and every LEAVE.
LEMMA PruneProperties ==
    ASSUME NEW h \in Seq(Messages)
    PROVE  LET g == PruneRemoved(h)
               S == Surviving(h)
           IN  /\ g \in Seq(Messages) /\ S \in SUBSET (1..Len(h))
               /\ Len(g) = Cardinality(S) /\ DOMAIN g = 1..Cardinality(S)
               /\ \A k \in DOMAIN g : Kth(S, k) \in S /\ g[k] = h[Kth(S, k)]
               /\ \A k, l \in DOMAIN g : k < l => Kth(S, k) < Kth(S, l)
               /\ \A k \in DOMAIN g : ~Prunable(LeftNodes(h), g[k])
               /\ \A i \in S : \E k \in DOMAIN g : g[k] = h[i]
               /\ LeftNodes(g) = LeftNodes(h)
<1> DEFINE g == PruneRemoved(h)
           S == Surviving(h)
<1>1. Len(h) \in Nat /\ DOMAIN h = 1..Len(h)
  BY HistoryElements
<1>2. S \in SUBSET (1..Len(h)) /\ S \in SUBSET DOMAIN h
      /\ \A i \in DOMAIN h : i \in S <=> ~Prunable(LeftNodes(h), h[i])
  BY <1>1 DEF Surviving
<1>3. /\ g \in Seq(Messages)
      /\ Len(g) = Cardinality(S) /\ DOMAIN g = 1..Cardinality(S)
      /\ \A k \in DOMAIN g : Kth(S, k) \in S /\ g[k] = h[Kth(S, k)]
      /\ \A k, l \in DOMAIN g : k < l => Kth(S, k) < Kth(S, l)
  <2>1. g = SubsequenceAt(h, S)
    BY DEF PruneRemoved, Surviving
  <2> HIDE DEF g, S
  <2> QED
    BY <1>2, <2>1, SubsequenceProperties
<1> HIDE DEF g, S
<1>4. \A k \in DOMAIN g : ~Prunable(LeftNodes(h), g[k])
  BY <1>2, <1>3
<1>5. ASSUME NEW i \in S PROVE \E k \in DOMAIN g : g[k] = h[i]
  <2>1. Cardinality(UpTo(S, i)) \in 1..Cardinality(S) /\ Kth(S, Cardinality(UpTo(S, i))) = i
    BY <1>1, <1>2, KthUnique
  <2> QED
    BY <1>3, <2>1
<1>6. LeftNodes(g) = LeftNodes(h)
  <2>1. ASSUME NEW n \in LeftNodes(g) PROVE n \in LeftNodes(h)
    <3>1. PICK k \in DOMAIN g : IsLeave(g[k]) /\ g[k].body.node = n
      BY <2>1 DEF LeftNodes
    <3>2. Kth(S, k) \in DOMAIN h /\ g[k] = h[Kth(S, k)]
      BY <1>2, <1>3
    <3> QED
      BY <3>1, <3>2 DEF LeftNodes
  <2>2. ASSUME NEW n \in LeftNodes(h) PROVE n \in LeftNodes(g)
    <3>1. PICK i \in DOMAIN h : IsLeave(h[i]) /\ h[i].body.node = n
      BY <2>2 DEF LeftNodes
    <3>2. i \in S
      BY <1>2, <3>1, PrunableByOne
    <3>3. PICK k \in DOMAIN g : g[k] = h[i]
      BY <1>5, <3>2
    <3> QED
      BY <3>1, <3>3 DEF LeftNodes
  <2> QED
    BY <2>1, <2>2
<1> QED
  BY <1>2, <1>3, <1>4, <1>5, <1>6 DEF g, S

\* What a handler adds to the history: messages under new, increasing numbers.
Additions(old) ==
    {news \in Seq(Messages) :
        /\ StrictlySortedBySeq(news)
        /\ \A i \in DOMAIN news : LastSeq(old) < news[i].seq}

\* A history and additions to it, one after the other.
LEMMA Extended ==
    ASSUME NEW old \in Seq(Messages), SortedBySeq(old), NEW news \in Additions(old)
    PROVE  LET h == old \o news
               m == Len(old)
           IN  /\ h \in Seq(Messages) /\ m \in Nat /\ DOMAIN old = 1..m
               /\ DOMAIN h = 1..Len(h) /\ Len(h) \in Nat /\ m <= Len(h)
               /\ \A i \in 1..m : i \in DOMAIN h /\ h[i] = old[i]
               /\ \A i \in DOMAIN h : i > m => LastSeq(old) < h[i].seq
               /\ \A i, j \in DOMAIN h : i < j /\ j > m => h[i].seq < h[j].seq
               /\ SortedBySeq(h)
               /\ LeftNodes(old) \subseteq LeftNodes(h)
<1> DEFINE h == old \o news
           m == Len(old)
           l == Len(news)
<1>1. /\ m \in Nat /\ DOMAIN old = 1..m
      /\ \A i \in DOMAIN old : old[i].seq \in Nat
  BY HistoryElements
<1>2. news \in Seq(Messages) /\ StrictlySortedBySeq(news)
      /\ \A i \in DOMAIN news : LastSeq(old) < news[i].seq
  BY DEF Additions
<1>3. /\ l \in Nat /\ DOMAIN news = 1..l
      /\ \A i \in DOMAIN news : news[i].seq \in Nat
  BY <1>2, HistoryElements
<1>4. LastSeq(old) \in Nat /\ \A i \in DOMAIN old : old[i].seq <= LastSeq(old)
  BY LastSeqIsLargest
<1>5. /\ h \in Seq(Messages) /\ Len(h) = m + l
      /\ \A i \in 1..(m + l) : h[i] = IF i <= m THEN old[i] ELSE news[i - m]
  BY <1>2, ConcatProperties
<1> HIDE DEF h, m, l
<1>6. DOMAIN h = 1..(m + l)
  BY <1>5, LenProperties
<1>7. \A i \in 1..m : i \in DOMAIN h /\ h[i] = old[i]
  BY <1>1, <1>3, <1>5, <1>6
<1>8. ASSUME NEW i \in DOMAIN h, i > m
      PROVE  i - m \in DOMAIN news /\ h[i] = news[i - m]
  BY <1>1, <1>3, <1>5, <1>6, <1>8
<1>9. ASSUME NEW i \in DOMAIN h, i > m
      PROVE  LastSeq(old) < h[i].seq
  BY <1>2, <1>8, <1>9
<1>10. ASSUME NEW i \in DOMAIN h, NEW j \in DOMAIN h, i < j, j > m
       PROVE  h[i].seq < h[j].seq
  <2>1. CASE i <= m
    <3>1. i \in DOMAIN old /\ h[i] = old[i]
      BY <1>1, <1>3, <1>6, <1>7, <2>1
    <3>2. h[j].seq \in Nat
      BY <1>3, <1>8, <1>10
    <3> QED
      BY <1>1, <1>4, <1>9, <1>10, <3>1, <3>2
  <2>2. CASE ~(i <= m)
    <3>1. i > m
      BY <1>1, <1>3, <1>6, <2>2
    <3>2. /\ i - m \in DOMAIN news /\ h[i] = news[i - m]
          /\ j - m \in DOMAIN news /\ h[j] = news[j - m]
      BY <1>8, <1>10, <3>1
    <3>3. i - m < j - m
      BY <1>1, <1>3, <1>6, <1>10
    <3> QED
      BY <1>2, <3>2, <3>3 DEF StrictlySortedBySeq
  <2> QED
    BY <2>1, <2>2
<1>11. SortedBySeq(h)
  <2>1. SUFFICES ASSUME NEW i \in DOMAIN h, NEW j \in DOMAIN h, i < j
                 PROVE  h[i].seq <= h[j].seq
    BY DEF SortedBySeq
  <2>2. CASE j > m
    <3>1. h[i].seq < h[j].seq
      BY <1>10, <2>1, <2>2
    <3>2. h[i].seq \in Nat /\ h[j].seq \in Nat
      BY <1>5, HistoryElements
    <3> QED
      BY <3>1, <3>2
  <2>3. CASE ~(j > m)
    <3>1. i \in 1..m /\ j \in 1..m
      BY <1>1, <1>3, <1>6, <2>1, <2>3
    <3> QED
      BY <1>1, <1>7, <2>1, <3>1 DEF SortedBySeq
  <2> QED
    BY <2>2, <2>3
<1>12. LeftNodes(old) \subseteq LeftNodes(h)
  BY <1>1, <1>7 DEF LeftNodes
<1>13. Len(h) = m + l /\ Len(h) \in Nat /\ m <= Len(h)
  BY <1>1, <1>3, <1>5
<1> QED
  BY <1>1, <1>5, <1>6, <1>7, <1>9, <1>10, <1>11, <1>12, <1>13 DEF h, m
\* How many messages of the old history survive the additions.
KeptOf(old, news) == Cardinality(UpTo(Surviving(old \o news), Len(old)))

\* What PruneRemoved makes of a history and its additions: first survivors of the
\* old history, then additions, which are what nobody has been sent.  Its last
\* number is not below the old one: the last message of the old history is dropped
\* only for a LEAVE that comes after it, and a LEAVE is kept.
LEMMA PrunedExtension ==
    ASSUME NEW old \in Seq(Messages), SortedBySeq(old),
           OneMeaning(old), LeavesLast(old), NEW news \in Additions(old)
    PROVE  LET g == PruneRemoved(old \o news)
               c == KeptOf(old, news)
           IN  /\ g \in Seq(Messages) /\ Len(g) \in Nat /\ DOMAIN g = 1..Len(g)
               /\ c \in 0..Len(g)
               /\ \A k \in 1..c : \E j \in DOMAIN old : g[k] = old[j]
               /\ \A k \in DOMAIN g : k > c => LastSeq(old) < g[k].seq
               /\ \A k, l \in DOMAIN g : k < l /\ l > c => g[k].seq < g[l].seq
               /\ SortedBySeq(g) /\ OneMeaning(g) /\ LeavesLast(g)
               /\ LastSeq(old) <= LastSeq(g)
               /\ LeftNodes(old) \subseteq LeftNodes(g)
               /\ \A k \in DOMAIN g : ~Prunable(LeftNodes(g), g[k])
<1> DEFINE h == old \o news
           m == Len(old)
           S == Surviving(h)
           g == PruneRemoved(h)
           c == Cardinality(UpTo(S, m))
<1>1. /\ h \in Seq(Messages) /\ m \in Nat /\ DOMAIN old = 1..m
      /\ DOMAIN h = 1..Len(h) /\ Len(h) \in Nat /\ m <= Len(h)
      /\ \A i \in 1..m : i \in DOMAIN h /\ h[i] = old[i]
      /\ \A i \in DOMAIN h : i > m => LastSeq(old) < h[i].seq
      /\ \A i, j \in DOMAIN h : i < j /\ j > m => h[i].seq < h[j].seq
      /\ SortedBySeq(h)
      /\ LeftNodes(old) \subseteq LeftNodes(h)
  BY Extended
<1> HIDE DEF h, m
<1>2. /\ g \in Seq(Messages) /\ S \in SUBSET (1..Len(h))
      /\ Len(g) = Cardinality(S) /\ DOMAIN g = 1..Cardinality(S)
      /\ \A k \in DOMAIN g : Kth(S, k) \in S /\ g[k] = h[Kth(S, k)]
      /\ \A k, l \in DOMAIN g : k < l => Kth(S, k) < Kth(S, l)
      /\ \A k \in DOMAIN g : ~Prunable(LeftNodes(h), g[k])
      /\ \A i \in S : \E k \in DOMAIN g : g[k] = h[i]
      /\ LeftNodes(g) = LeftNodes(h)
  BY <1>1, PruneProperties
<1>3. \A i \in DOMAIN h : i \in S <=> ~Prunable(LeftNodes(h), h[i])
  BY DEF Surviving
<1> HIDE DEF S, g
<1>4. /\ Len(g) \in Nat /\ DOMAIN g = 1..Len(g)
      /\ \A k \in DOMAIN g : g[k].seq \in Nat
  BY <1>2, HistoryElements
<1>5. /\ c \in 0..Len(g)
      /\ \A k \in DOMAIN g : k <= c <=> Kth(S, k) <= m
  BY <1>1, <1>2, KthOfInitialPart
<1> HIDE DEF c
<1>6. \A k \in DOMAIN g : Kth(S, k) \in 1..Len(h) /\ Kth(S, k) \in DOMAIN h
  BY <1>1, <1>2
<1>7. ASSUME NEW k \in 1..c
      PROVE  Kth(S, k) \in DOMAIN old /\ g[k] = old[Kth(S, k)]
  <2>1. k \in DOMAIN g /\ k <= c
    BY <1>4, <1>5
  <2>2. Kth(S, k) \in 1..m
    BY <1>1, <1>5, <1>6, <2>1
  <2> QED
    BY <1>1, <1>2, <2>1, <2>2
<1>8. ASSUME NEW k \in DOMAIN g, k > c
      PROVE  Kth(S, k) > m
  <2>1. ~(k <= c)
    BY <1>4, <1>5, <1>8
  <2>2. ~(Kth(S, k) <= m)
    BY <1>5, <2>1
  <2> QED
    BY <1>1, <1>6, <2>2
<1>9. \A k \in DOMAIN g : k > c => LastSeq(old) < g[k].seq
  BY <1>1, <1>2, <1>6, <1>8
<1>10. ASSUME NEW k \in DOMAIN g, NEW l \in DOMAIN g, k < l, l > c
       PROVE  g[k].seq < g[l].seq
  BY <1>1, <1>2, <1>6, <1>8, <1>10
<1>11. SortedBySeq(g)
  <2>1. ASSUME NEW k \in DOMAIN g, NEW l \in DOMAIN g, k < l
        PROVE  g[k].seq <= g[l].seq
    BY <1>1, <1>2, <1>6, <2>1 DEF SortedBySeq
  <2> QED
    BY <2>1 DEF SortedBySeq
<1>12. OneMeaning(g)
  <2>1. SUFFICES ASSUME NEW k \in DOMAIN g, NEW l \in DOMAIN g, g[k].seq = g[l].seq
                 PROVE  g[k] = g[l]
    BY DEF OneMeaning
  <2>2. CASE k <= c /\ l <= c
    <3>1. k \in 1..c /\ l \in 1..c
      BY <1>4, <1>5, <2>2
    <3> QED
      BY <1>7, <2>1, <3>1 DEF OneMeaning
  <2>3. CASE k > c \/ l > c
    <3>1. ~(k < l) /\ ~(l < k)
      <4>1. CASE k > c
        <5>1. ~(l < k)
          BY <1>4, <1>10, <2>1, <4>1
        <5>2. k < l => l > c
          BY <1>4, <1>5, <4>1
        <5> QED
          BY <1>4, <1>10, <2>1, <5>1, <5>2
      <4>2. CASE l > c
        <5>1. ~(k < l)
          BY <1>4, <1>10, <2>1, <4>2
        <5>2. l < k => k > c
          BY <1>4, <1>5, <4>2
        <5> QED
          BY <1>4, <1>10, <2>1, <5>1, <5>2
      <4> QED
        BY <2>3, <4>1, <4>2
    <3>2. k = l
      BY <1>4, <3>1
    <3> QED
      BY <3>2
  <2>4. (k <= c /\ l <= c) \/ (k > c \/ l > c)
    BY <1>4, <1>5
  <2> QED
    BY <2>2, <2>3, <2>4
<1>13. \A k \in DOMAIN g : ~Prunable(LeftNodes(g), g[k])
  BY <1>2
<1>14. LeavesLast(g)
  <2>1. SUFFICES ASSUME NEW k \in DOMAIN g, NEW l \in DOMAIN g, IsLeave(g[k])
                 PROVE  ~Prunable({g[k].body.node}, g[l])
    BY DEF LeavesLast
  <2>2. g[k].body.node \in LeftNodes(g)
    BY <2>1 DEF LeftNodes
  <2> QED
    BY <1>13, <2>2, PrunableByOne
<1>15. LastSeq(old) <= LastSeq(g)
  <2>1. LastSeq(old) \in Nat /\ (DOMAIN old = {} => LastSeq(old) = 0)
        /\ (DOMAIN old # {} => m \in DOMAIN old /\ LastSeq(old) = old[m].seq)
    BY LastSeqIsLargest DEF m
  <2>2. LastSeq(g) \in Nat /\ \A k \in DOMAIN g : g[k].seq <= LastSeq(g)
    BY <1>2, <1>11, LastSeqIsLargest
  <2>3. CASE DOMAIN old = {}
    BY <2>1, <2>2, <2>3
  <2>4. CASE DOMAIN old # {}
    <3>1. m \in 1..m /\ m \in DOMAIN h /\ h[m] = old[m] /\ LastSeq(old) = h[m].seq
      BY <1>1, <2>1, <2>4
    <3>2. PICK i \in S : LastSeq(old) <= h[i].seq
      <4>1. CASE m \in S
        BY <2>1, <3>1, <4>1
      <4>2. CASE m \notin S
        <5>1. PICK n \in LeftNodes(h) : Prunable({n}, h[m])
          BY <1>3, <3>1, <4>2, PrunableByOne
        <5>2. PICK j \in DOMAIN h : IsLeave(h[j]) /\ h[j].body.node = n
          BY <5>1 DEF LeftNodes
        <5>3. j \in S
          BY <1>3, <5>2, PrunableByOne
        <5>4. ~(j <= m)
          <6>1. SUFFICES ASSUME j <= m PROVE FALSE
            OBVIOUS
          <6>2. j \in 1..m /\ j \in DOMAIN old /\ h[j] = old[j]
            BY <1>1, <6>1
          <6>3. j # m
            BY <3>1, <5>1, <5>2, PrunableByOne
          <6>4. j < m
            BY <1>1, <6>1, <6>2, <6>3
          <6> QED
            BY <2>1, <2>4, <3>1, <5>1, <5>2, <6>2, <6>4 DEF LeavesLast
        <5>5. j > m
          BY <1>1, <5>4
        <5>6. LastSeq(old) < h[j].seq /\ h[j].seq \in Nat
          BY <1>1, <5>5, HistoryElements
        <5> QED
          BY <2>1, <5>3, <5>6
      <4> QED
        BY <4>1, <4>2
    <3>3. PICK k \in DOMAIN g : g[k] = h[i]
      BY <1>2
    <3> QED
      BY <1>4, <2>1, <2>2, <3>2, <3>3
  <2> QED
    BY <2>3, <2>4
<1>16. LeftNodes(old) \subseteq LeftNodes(g)
  BY <1>1, <1>2
<1>17. \A k \in 1..c : \E j \in DOMAIN old : g[k] = old[j]
  BY <1>7
<1> QED
  BY <1>2, <1>4, <1>5, <1>9, <1>10, <1>11, <1>12, <1>13, <1>14, <1>15, <1>16, <1>17
     DEF g, c, S, h, m, KeptOf
\* What Broadcast finds unsent for a client that has the old history: the additions.
LEMMA UnsentAreAdditions ==
    ASSUME NEW old \in Seq(Messages), SortedBySeq(old),
           OneMeaning(old), LeavesLast(old), NEW news \in Additions(old)
    PROVE  LET g == PruneRemoved(old \o news)
               c == KeptOf(old, news)
           IN  /\ Unsent(g, LastSeq(old)) = (c + 1)..Len(g)
               /\ SubsequenceAt(g, Unsent(g, LastSeq(old))) = SubSeq(g, c + 1, Len(g))
               /\ HighestSeq(g, LastSeq(old)) = LastSeq(g)
<1> DEFINE g == PruneRemoved(old \o news)
           c == KeptOf(old, news)
           last == LastSeq(old)
<1>1. /\ g \in Seq(Messages) /\ Len(g) \in Nat /\ DOMAIN g = 1..Len(g)
      /\ c \in 0..Len(g)
      /\ \A k \in 1..c : \E j \in DOMAIN old : g[k] = old[j]
      /\ \A k \in DOMAIN g : k > c => last < g[k].seq
      /\ \A k, l \in DOMAIN g : k < l /\ l > c => g[k].seq < g[l].seq
      /\ SortedBySeq(g)
      /\ last <= LastSeq(g)
  BY PrunedExtension
<1>2. last \in Nat /\ \A j \in DOMAIN old : old[j].seq <= last
  BY LastSeqIsLargest
<1> HIDE DEF g, c, last
<1>3. \A k \in DOMAIN g : g[k].seq \in Nat
  BY <1>1, HistoryElements
<1>4. \A k \in 1..c : g[k].seq <= last
  BY <1>1, <1>2
<1>5. Unsent(g, last) = (c + 1)..Len(g)
  <2>1. ASSUME NEW k \in DOMAIN g, k > c
        PROVE  g[k].seq > last /\ \A j \in 1..(k - 1) : g[j].seq < g[k].seq
    <3>1. last < g[k].seq /\ g[k].seq \in Nat
      BY <1>1, <1>3, <2>1
    <3>2. ASSUME NEW j \in 1..(k - 1) PROVE g[j].seq < g[k].seq
      <4>1. j \in DOMAIN g /\ j < k
        BY <1>1
      <4> QED
        BY <1>1, <2>1, <4>1
    <3> QED
      BY <1>2, <3>1, <3>2
  <2>2. ASSUME NEW k \in DOMAIN g, ~(k > c)
        PROVE  ~(g[k].seq > last)
    <3>1. k \in 1..c
      BY <1>1, <2>2
    <3> QED
      BY <1>2, <1>3, <1>4, <3>1
  <2>3. \A k : k \in Unsent(g, last) <=> k \in DOMAIN g /\ k > c
    BY <2>1, <2>2 DEF Unsent
  <2>4. \A k : k \in DOMAIN g /\ k > c <=> k \in (c + 1)..Len(g)
    BY <1>1
  <2> QED
    BY <2>3, <2>4
<1>6. SubsequenceAt(g, Unsent(g, last)) = SubSeq(g, c + 1, Len(g))
  BY <1>1, <1>5, TailAsSubsequence
<1>7. HighestSeq(g, last) = LastSeq(g)
  <2> DEFINE seqs == {last} \cup {g[i].seq : i \in DOMAIN g}
  <2>1. /\ LastSeq(g) \in Nat /\ \A k \in DOMAIN g : g[k].seq <= LastSeq(g)
        /\ DOMAIN g # {} => Len(g) \in DOMAIN g /\ LastSeq(g) = g[Len(g)].seq
        /\ DOMAIN g = {} => LastSeq(g) = 0
    BY <1>1, LastSeqIsLargest
  <2>2. LastSeq(g) \in seqs
    <3>1. CASE DOMAIN g = {}
      <4>1. LastSeq(g) = last
        BY <1>1, <1>2, <2>1, <3>1
      <4> QED
        BY <4>1
    <3>2. CASE DOMAIN g # {}
      BY <2>1, <3>2
    <3> QED
      BY <3>1, <3>2
  <2>3. \A x \in seqs : x <= LastSeq(g) /\ x \in Nat
    BY <1>1, <1>2, <1>3, <2>1
  <2>4. HighestSeq(g, last) = CHOOSE x \in seqs : \A y \in seqs : y <= x
    BY DEF HighestSeq
  <2> HIDE DEF seqs
  <2>5. \A x \in seqs : (\A y \in seqs : y <= x) => x = LastSeq(g)
    BY <2>1, <2>2, <2>3
  <2> QED
    BY <2>2, <2>3, <2>4, <2>5
<1> QED
  BY <1>5, <1>6, <1>7 DEF g, c, last

\* Pruning leaves a strict history strict, whatever is added.
LEMMA StrictlyPruned ==
    ASSUME NEW old \in Seq(Messages), SortedBySeq(old), StrictlySortedBySeq(old),
           NEW news \in Additions(old)
    PROVE  StrictlySortedBySeq(PruneRemoved(old \o news))
<1> DEFINE h == old \o news
           m == Len(old)
           g == PruneRemoved(h)
           S == Surviving(h)
<1>1. /\ h \in Seq(Messages) /\ m \in Nat /\ DOMAIN old = 1..m
      /\ DOMAIN h = 1..Len(h) /\ Len(h) \in Nat
      /\ \A i \in 1..m : i \in DOMAIN h /\ h[i] = old[i]
      /\ \A i, j \in DOMAIN h : i < j /\ j > m => h[i].seq < h[j].seq
  BY Extended
<1> HIDE DEF h, m
<1>2. /\ S \in SUBSET (1..Len(h))
      /\ \A k \in DOMAIN g : Kth(S, k) \in S /\ g[k] = h[Kth(S, k)]
      /\ \A k, l \in DOMAIN g : k < l => Kth(S, k) < Kth(S, l)
  BY <1>1, PruneProperties
<1> HIDE DEF S, g
<1>3. ASSUME NEW i \in DOMAIN h, NEW j \in DOMAIN h, i < j
      PROVE  h[i].seq < h[j].seq
  <2>1. CASE j > m
    BY <1>1, <1>3, <2>1
  <2>2. CASE ~(j > m)
    <3>1. i \in 1..m /\ j \in 1..m
      BY <1>1, <1>3, <2>2
    <3> QED
      BY <1>1, <1>3, <3>1 DEF StrictlySortedBySeq
  <2> QED
    BY <2>1, <2>2
<1>4. StrictlySortedBySeq(g)
  <2>1. ASSUME NEW k \in DOMAIN g, NEW l \in DOMAIN g, k < l
        PROVE  g[k].seq < g[l].seq
    <3>1. Kth(S, k) \in DOMAIN h /\ Kth(S, l) \in DOMAIN h /\ Kth(S, k) < Kth(S, l)
      BY <1>1, <1>2, <2>1
    <3> QED
      BY <1>2, <1>3, <3>1
  <2> QED
    BY <2>1 DEF StrictlySortedBySeq
<1> QED
  BY <1>4 DEF g, h

\* It is in order and no newer than the history; a number means to it what it
\* means in the history; nothing follows a LEAVE that the LEAVE prunes, and
\* the history remembers the LEAVE.
Follows(w, h) ==
    /\ SortedBySeq(w)
    /\ \A i \in DOMAIN w : w[i].seq <= LastSeq(h)
    /\ \A i \in DOMAIN w, j \in DOMAIN h : w[i].seq = h[j].seq => w[i] = h[j]
    /\ LeavesLast(w)
    /\ LeftNodes(w) \subseteq LeftNodes(h)

\* Who is sent nothing still follows the history that has changed.
LEMMA StillFollows ==
    ASSUME NEW old \in Seq(Messages), SortedBySeq(old),
           OneMeaning(old), LeavesLast(old), NEW news \in Additions(old),
           NEW w \in Seq(Messages), Follows(w, old)
    PROVE  Follows(w, PruneRemoved(old \o news))
<1> DEFINE g == PruneRemoved(old \o news)
           c == KeptOf(old, news)
<1>1. /\ g \in Seq(Messages) /\ Len(g) \in Nat /\ DOMAIN g = 1..Len(g)
      /\ c \in 0..Len(g)
      /\ \A k \in 1..c : \E j \in DOMAIN old : g[k] = old[j]
      /\ \A k \in DOMAIN g : k > c => LastSeq(old) < g[k].seq
      /\ SortedBySeq(g)
      /\ LastSeq(old) <= LastSeq(g)
      /\ LeftNodes(old) \subseteq LeftNodes(g)
  BY PrunedExtension
<1> HIDE DEF g, c
<1>2. LastSeq(old) \in Nat /\ LastSeq(g) \in Nat
      /\ (\A i \in DOMAIN w : w[i].seq \in Nat) /\ (\A i \in DOMAIN g : g[i].seq \in Nat)
  BY <1>1, LastSeqIsLargest, HistoryElements
<1>3. \A i \in DOMAIN w : w[i].seq <= LastSeq(old) /\ w[i].seq <= LastSeq(g)
  BY <1>1, <1>2 DEF Follows
<1>4. ASSUME NEW i \in DOMAIN w, NEW k \in DOMAIN g, w[i].seq = g[k].seq
      PROVE  w[i] = g[k]
  <2>1. ~(k > c)
    BY <1>1, <1>2, <1>3, <1>4
  <2>2. k \in 1..c
    BY <1>1, <2>1
  <2> QED
    BY <1>1, <1>4, <2>2 DEF Follows
<1> QED
  BY <1>1, <1>3, <1>4 DEF Follows, g

\* Who is sent the additions follows it, too, and has all that is new in it.
LEMMA FollowsOn ==
    ASSUME NEW old \in Seq(Messages), SortedBySeq(old),
           OneMeaning(old), LeavesLast(old), NEW news \in Additions(old),
           NEW w \in Seq(Messages), Follows(w, old)
    PROVE  LET g  == PruneRemoved(old \o news)
               c  == KeptOf(old, news)
               w2 == w \o SubSeq(g, c + 1, Len(g))
           IN  /\ w2 \in Seq(Messages)
               /\ \A i \in DOMAIN w2 :
                     \/ i \in DOMAIN w /\ w2[i] = w[i]
                     \/ \E k \in DOMAIN g : w2[i] = g[k] /\ k > c
               /\ \A i \in DOMAIN w : i \in DOMAIN w2 /\ w2[i] = w[i]
               /\ \A k \in DOMAIN g : k > c => \E i \in DOMAIN w2 : w2[i] = g[k]
               /\ \A i, j \in DOMAIN w2 :
                     i < j /\ j \notin DOMAIN w => w2[i].seq < w2[j].seq
               /\ Follows(w2, g)
<1> DEFINE g == PruneRemoved(old \o news)
           c == KeptOf(old, news)
           added == SubSeq(g, c + 1, Len(g))
           w2 == w \o added
           m == Len(w)
<1>1. /\ g \in Seq(Messages) /\ Len(g) \in Nat /\ DOMAIN g = 1..Len(g)
      /\ c \in 0..Len(g)
      /\ \A k \in DOMAIN g : k > c => LastSeq(old) < g[k].seq
      /\ \A k, l \in DOMAIN g : k < l /\ l > c => g[k].seq < g[l].seq
      /\ SortedBySeq(g) /\ OneMeaning(g)
      /\ LastSeq(old) <= LastSeq(g)
      /\ LeftNodes(old) \subseteq LeftNodes(g)
      /\ \A k \in DOMAIN g : ~Prunable(LeftNodes(g), g[k])
  BY PrunedExtension
<1>2. Follows(w, g)
  BY StillFollows
<1> HIDE DEF g, c
<1>3. /\ LastSeq(old) \in Nat /\ LastSeq(g) \in Nat
      /\ \A i \in DOMAIN w : w[i].seq \in Nat
      /\ \A i \in DOMAIN g : g[i].seq \in Nat /\ g[i].seq <= LastSeq(g)
      /\ m \in Nat /\ DOMAIN w = 1..m
  BY <1>1, LastSeqIsLargest, HistoryElements
<1>4. /\ added \in Seq(Messages) /\ Len(added) = Len(g) - c
      /\ \A i \in 1..(Len(g) - c) : added[i] = g[c + i]
  <2>1. /\ added \in Seq(Messages) /\ Len(added) = Len(g) - c
        /\ DOMAIN added = 1..(Len(g) - c)
        /\ \A i \in DOMAIN added :
              c + i \in DOMAIN g /\ c + i > c /\ added[i] = g[c + i]
    BY <1>1, TailProperties
  <2> HIDE DEF added
  <2> QED
    BY <2>1
<1> HIDE DEF added
<1>5. /\ w2 \in Seq(Messages) /\ Len(w2) = m + (Len(g) - c)
      /\ \A i \in 1..(m + (Len(g) - c)) : w2[i] = IF i <= m THEN w[i] ELSE added[i - m]
  BY <1>3, <1>4, ConcatProperties
<1> HIDE DEF w2, m
<1>6. DOMAIN w2 = 1..(m + (Len(g) - c))
  BY <1>5, LenProperties
<1>7. \A i \in DOMAIN w : i \in DOMAIN w2 /\ w2[i] = w[i]
  BY <1>1, <1>3, <1>5, <1>6
<1>8. ASSUME NEW i \in DOMAIN w2, i \notin DOMAIN w
      PROVE  /\ i > m /\ c + (i - m) \in DOMAIN g /\ c + (i - m) > c
             /\ w2[i] = g[c + (i - m)]
  <2>1. i > m /\ i - m \in 1..(Len(g) - c)
    BY <1>1, <1>3, <1>6, <1>8
  <2>2. w2[i] = added[i - m]
    BY <1>1, <1>3, <1>5, <1>6, <2>1
  <2>3. added[i - m] = g[c + (i - m)]
    BY <1>4, <2>1
  <2>4. c + (i - m) \in 1..Len(g) /\ c + (i - m) > c
    BY <1>1, <2>1
  <2> QED
    BY <1>1, <2>1, <2>2, <2>3, <2>4
<1>9. \A i \in DOMAIN w2 :
         \/ i \in DOMAIN w /\ w2[i] = w[i]
         \/ \E k \in DOMAIN g : w2[i] = g[k] /\ k > c
  BY <1>7, <1>8
<1>10. ASSUME NEW k \in DOMAIN g, k > c
       PROVE  \E i \in DOMAIN w2 : w2[i] = g[k]
  <2>1. m + (k - c) \in DOMAIN w2 /\ m + (k - c) \notin DOMAIN w
    BY <1>1, <1>3, <1>6, <1>10
  <2>2. w2[m + (k - c)] = g[c + ((m + (k - c)) - m)]
    BY <1>8, <2>1
  <2>3. c + ((m + (k - c)) - m) = k
    BY <1>1, <1>3, <1>10
  <2> QED
    BY <2>1, <2>2, <2>3
<1>11. ASSUME NEW i \in DOMAIN w2, NEW j \in DOMAIN w2, i < j, j \notin DOMAIN w
       PROVE  w2[i].seq < w2[j].seq
  <2>1. /\ j > m /\ c + (j - m) \in DOMAIN g /\ c + (j - m) > c
        /\ w2[j] = g[c + (j - m)]
    BY <1>8, <1>11
  <2>2. CASE i \in DOMAIN w
    <3>1. w2[i] = w[i] /\ w[i].seq <= LastSeq(old) /\ w[i].seq \in Nat
      BY <1>3, <1>7, <2>2 DEF Follows
    <3>2. LastSeq(old) < w2[j].seq /\ w2[j].seq \in Nat
      BY <1>1, <1>3, <2>1
    <3> QED
      BY <1>3, <3>1, <3>2
  <2>3. CASE i \notin DOMAIN w
    <3>1. c + (i - m) \in DOMAIN g /\ w2[i] = g[c + (i - m)]
      BY <1>8, <2>3
    <3>2. c + (i - m) < c + (j - m)
      BY <1>1, <1>3, <1>6, <1>11
    <3> QED
      BY <1>1, <2>1, <3>1, <3>2
  <2> QED
    BY <2>2, <2>3
<1>12. Follows(w2, g)
  <2>1. SortedBySeq(w2)
    <3>1. SUFFICES ASSUME NEW i \in DOMAIN w2, NEW j \in DOMAIN w2, i < j
                   PROVE  w2[i].seq <= w2[j].seq
      BY DEF SortedBySeq
    <3>2. CASE j \in DOMAIN w
      <4>1. i \in DOMAIN w
        BY <1>3, <1>6, <3>1, <3>2
      <4> QED
        BY <1>7, <3>1, <3>2, <4>1 DEF Follows, SortedBySeq
    <3>3. CASE j \notin DOMAIN w
      <4>1. w2[i].seq < w2[j].seq
        BY <1>11, <3>1, <3>3
      <4>2. w2[i].seq \in Nat /\ w2[j].seq \in Nat
        BY <1>5, HistoryElements
      <4> QED
        BY <4>1, <4>2
    <3> QED
      BY <3>2, <3>3
  <2>2. ASSUME NEW i \in DOMAIN w2 PROVE w2[i].seq <= LastSeq(g)
    BY <1>2, <1>3, <1>9 DEF Follows
  <2>3. ASSUME NEW i \in DOMAIN w2, NEW j \in DOMAIN g, w2[i].seq = g[j].seq
        PROVE  w2[i] = g[j]
    <3>1. CASE i \in DOMAIN w /\ w2[i] = w[i]
      BY <1>2, <2>3, <3>1 DEF Follows
    <3>2. CASE \E k \in DOMAIN g : w2[i] = g[k] /\ k > c
      BY <1>1, <2>3, <3>2 DEF OneMeaning
    <3> QED
      BY <1>9, <3>1, <3>2
  <2>4. LeftNodes(w2) \subseteq LeftNodes(g)
    <3>1. SUFFICES ASSUME NEW i \in DOMAIN w2, IsLeave(w2[i])
                   PROVE  w2[i].body.node \in LeftNodes(g)
      BY DEF LeftNodes
    <3>2. CASE i \in DOMAIN w /\ w2[i] = w[i]
      <4>1. w2[i].body.node \in LeftNodes(w)
        BY <3>1, <3>2 DEF LeftNodes
      <4> QED
        BY <1>2, <4>1 DEF Follows
    <3>3. CASE \E k \in DOMAIN g : w2[i] = g[k] /\ k > c
      BY <3>1, <3>3 DEF LeftNodes
    <3> QED
      BY <1>9, <3>2, <3>3
  <2>5. LeavesLast(w2)
    <3>1. SUFFICES ASSUME NEW i \in DOMAIN w2, NEW j \in DOMAIN w2, i < j, IsLeave(w2[i])
                   PROVE  ~Prunable({w2[i].body.node}, w2[j])
      BY DEF LeavesLast
    <3>2. CASE j \in DOMAIN w
      <4>1. i \in DOMAIN w
        BY <1>3, <1>6, <3>1, <3>2
      <4>2. w2[i] = w[i] /\ w2[j] = w[j]
        BY <1>7, <3>2, <4>1
      <4> QED
        BY <3>1, <3>2, <4>1, <4>2 DEF Follows, LeavesLast
    <3>3. CASE j \notin DOMAIN w
      <4>1. PICK k \in DOMAIN g : w2[j] = g[k]
        BY <1>8, <3>3
      <4>2. w2[i].body.node \in LeftNodes(g)
        BY <2>4, <3>1 DEF LeftNodes
      <4> QED
        BY <1>1, <4>1, <4>2, PrunableByOne
    <3> QED
      BY <3>2, <3>3
  <2> QED
    BY <2>1, <2>2, <2>3, <2>4, <2>5 DEF Follows
<1> QED
  BY <1>5, <1>7, <1>9, <1>10, <1>11, <1>12 DEF g, c, added, w2, m

\* Nothing, or one message above the last number, may be added.
LEMMA SmallAdditions ==
    ASSUME NEW old \in Seq(Messages), NEW msg \in Messages, LastSeq(old) < msg.seq
    PROVE  <<msg>> \in Additions(old) /\ Append(old, msg) = old \o <<msg>>
<1> DEFINE one == <<msg>>
<1>1. one \in Seq(Messages) /\ Len(one) = 1 /\ DOMAIN one = 1..1 /\ one[1] = msg
  OBVIOUS
<1>2. StrictlySortedBySeq(one)
  <2> HIDE DEF one
  <2> QED
    BY <1>1 DEF StrictlySortedBySeq
<1>3. one \in Additions(old)
  <2> HIDE DEF one
  <2> QED
    BY <1>1, <1>2 DEF Additions
<1>4. Append(old, msg) = old \o one
  OBVIOUS
<1> QED
  BY <1>3, <1>4

\* A handler that takes nothing in settles the history as it is.
LEMMA NoAdditions ==
    ASSUME NEW old \in Seq(Messages)
    PROVE  <<>> \in Additions(old) /\ old \o <<>> = old
<1>1. <<>> \in Seq(Messages) /\ DOMAIN <<>> = {}
  OBVIOUS
<1>2. <<>> \in Additions(old)
  BY <1>1 DEF Additions, StrictlySortedBySeq
<1> QED
  BY <1>2, ConcatEmptySeq

\* The LEAVEs that the purge mints are under the next numbers.
LEMMA LeavesAreAdditions ==
    ASSUME NEW old \in Seq(Messages), NEW seq \in Nat, LastSeq(old) < seq,
           SortedBySeq(old), NEW n \in Nat, NEW order \in [1..n -> Nat]
    PROVE  Leaves(seq, n, order) \in Additions(old)
<1> DEFINE l == Leaves(seq, n, order)
<1>1. \A i \in 1..n : seq + i - 1 \in Nat /\ order[i] \in Nat
  OBVIOUS
<1>2. \A node \in Nat : NodeChange("LEAVE", node) \in Bodies
  BY DEF NodeChange, Bodies, NodeOps
<1>3. \A i \in 1..n : Message(seq + i - 1, 0, NodeChange("LEAVE", order[i])) \in Messages
  BY <1>1, <1>2 DEF Message, Messages
<1>4. l \in [1..n -> Messages]
  BY <1>3 DEF Leaves
<1>5. l \in Seq(Messages) /\ DOMAIN l = 1..n
  BY <1>4, SeqDef
<1>6. \A i \in 1..n : l[i].seq = seq + i - 1
  BY DEF Leaves, Message
<1>7. LastSeq(old) \in Nat
  BY LastSeqIsLargest
<1> HIDE DEF l
<1>8. StrictlySortedBySeq(l)
  BY <1>5, <1>6 DEF StrictlySortedBySeq
<1>9. \A i \in DOMAIN l : LastSeq(old) < l[i].seq
  BY <1>5, <1>6, <1>7
<1> QED
  BY <1>5, <1>8, <1>9 DEF Additions, l

=============================================================================
