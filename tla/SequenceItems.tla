--------------------------- MODULE SequenceItems ---------------------------
(* What the operations on queues do to the items held: lemmas about the      *)
(* sequence operators from which the queues, pipes and channels are built.   *)
EXTENDS Naturals, Sequences, SequencesExt, SequenceTheorems, FiniteSetTheorems, TLAPS

-----------------------------------------------------------------------------
(* The items held.                                                           *)

\* What VecDeque::remove(i) leaves: the same items without the i-th, in order.
LEMMA RemoveAtProperties ==
    ASSUME NEW S, NEW s \in Seq(S), NEW i \in 1..Len(s)
    PROVE  /\ RemoveAt(s, i) \in Seq(S)
           /\ Len(RemoveAt(s, i)) = Len(s) - 1
           /\ \A j \in 1..(Len(s) - 1) :
                 RemoveAt(s, i)[j] = IF j < i THEN s[j] ELSE s[j + 1]
<1> DEFINE a == SubSeq(s, 1, i - 1)
           b == SubSeq(s, i + 1, Len(s))
<1>1. a \in Seq(S) /\ Len(a) = i - 1 /\ \A j \in 1..(i - 1) : a[j] = s[j]
  BY SMT
<1>2. b \in Seq(S) /\ Len(b) = Len(s) - i
      /\ \A j \in 1..(Len(s) - i) : b[j] = s[i + j]
  BY SMT
<1>3. RemoveAt(s, i) = a \o b
  BY DEF RemoveAt
<1> HIDE DEF a, b
<1>4. Len(s) \in Nat
  BY LenProperties
<1>5. /\ a \o b \in Seq(S)
      /\ Len(a \o b) = Len(a) + Len(b)
      /\ \A j \in 1..(Len(a) + Len(b)) :
            (a \o b)[j] = IF j <= Len(a) THEN a[j] ELSE b[j - Len(a)]
  BY <1>1, <1>2, ConcatProperties
<1>6. Len(a) + Len(b) = Len(s) - 1
  BY <1>1, <1>2, <1>4
<1>7. ASSUME NEW j \in 1..(Len(s) - 1)
      PROVE  (a \o b)[j] = IF j < i THEN s[j] ELSE s[j + 1]
  <2>1. (a \o b)[j] = IF j <= Len(a) THEN a[j] ELSE b[j - Len(a)]
    BY <1>5, <1>6
  <2>2. CASE j < i
    BY <2>1, <2>2, <1>1, <1>4
  <2>3. CASE ~(j < i)
    <3>1. j - (i - 1) \in 1..(Len(s) - i) /\ i + (j - (i - 1)) = j + 1
      BY <2>3, <1>4
    <3>2. (a \o b)[j] = b[j - (i - 1)]
      BY <2>1, <2>3, <1>1, <1>4
    <3> QED
      BY <3>1, <3>2, <2>3, <1>2
  <2> QED
    BY <2>2, <2>3
<1> QED
  BY <1>3, <1>5, <1>6, <1>7

\* The effect on the items held, and on their being held once, of push_back,
LEMMA AppendItems ==
    ASSUME NEW S, NEW s \in Seq(S), NEW x \in S
    PROVE  /\ ToSet(Append(s, x)) = ToSet(s) \union {x}
           /\ IsInjective(s) /\ x \notin ToSet(s) => IsInjective(Append(s, x))
<1>1. /\ Append(s, x) \in Seq(S) /\ Len(Append(s, x)) = Len(s) + 1
      /\ \A j \in 1..Len(s) : Append(s, x)[j] = s[j]
      /\ Append(s, x)[Len(s) + 1] = x
  BY AppendProperties
<1>2. Len(s) \in Nat /\ DOMAIN s = 1..Len(s)
  BY LenProperties
<1>3. DOMAIN Append(s, x) = 1..(Len(s) + 1)
  BY <1>1, LenProperties
<1> QED
  BY <1>1, <1>2, <1>3 DEF ToSet, IsInjective

\* pop_front,
LEMMA TailItems ==
    ASSUME NEW S, NEW s \in Seq(S), s # <<>>, IsInjective(s)
    PROVE  /\ ToSet(Tail(s)) = ToSet(s) \ {Head(s)} /\ IsInjective(Tail(s))
           /\ Head(s) \in ToSet(s)
<1> DEFINE h == Head(s)
           t == Tail(s)
<1>1. /\ t \in Seq(S) /\ Len(t) = Len(s) - 1 /\ h = s[1]
      /\ \A j \in 1..Len(t) : t[j] = s[j + 1]
  BY HeadTailProperties
<1> HIDE DEF h, t
<1>2. Len(s) \in Nat /\ DOMAIN s = 1..Len(s) /\ Len(s) # 0
  BY LenProperties, EmptySeq
<1>3. DOMAIN t = 1..(Len(s) - 1)
  BY <1>1, LenProperties
<1>4. ASSUME NEW k \in DOMAIN s, k # 1 PROVE s[k] \in ToSet(t)
  <2>1. k - 1 \in DOMAIN t /\ t[k - 1] = s[k]
    BY <1>1, <1>2, <1>3, <1>4
  <2> QED
    BY <2>1 DEF ToSet
<1>5. ASSUME NEW j \in DOMAIN t
      PROVE  \E k \in DOMAIN s : k # 1 /\ t[j] = s[k] /\ k = j + 1
  BY <1>1, <1>2, <1>3
<1>6. 1 \in DOMAIN s
  BY <1>2
<1>7. ToSet(t) = ToSet(s) \ {h}
  <2>1. ASSUME NEW x \in ToSet(t) PROVE x \in ToSet(s) \ {h}
    <3>1. PICK k \in DOMAIN s : k # 1 /\ x = s[k]
      BY <1>5 DEF ToSet
    <3> QED
      BY <1>1, <1>6, <3>1 DEF ToSet, IsInjective
  <2>2. ASSUME NEW x \in ToSet(s) \ {h} PROVE x \in ToSet(t)
    <3>1. PICK k \in DOMAIN s : x = s[k]
      BY DEF ToSet
    <3> QED
      BY <1>1, <1>4, <3>1
  <2> QED
    BY <2>1, <2>2
<1>8. IsInjective(t)
  BY <1>3, <1>5 DEF IsInjective
<1>9. h \in ToSet(s)
  BY <1>1, <1>6 DEF ToSet
<1> QED
  BY <1>7, <1>8, <1>9 DEF h, t

\* remove(i),
LEMMA RemoveAtItems ==
    ASSUME NEW S, NEW s \in Seq(S), NEW i \in 1..Len(s), IsInjective(s)
    PROVE  /\ ToSet(RemoveAt(s, i)) = ToSet(s) \ {s[i]}
           /\ IsInjective(RemoveAt(s, i))
           /\ s[i] \in ToSet(s)
<1> DEFINE t == RemoveAt(s, i)
<1>1. /\ t \in Seq(S) /\ Len(t) = Len(s) - 1
      /\ \A j \in 1..(Len(s) - 1) : t[j] = IF j < i THEN s[j] ELSE s[j + 1]
  BY RemoveAtProperties
<1> HIDE DEF t
<1>2. Len(s) \in Nat /\ DOMAIN s = 1..Len(s)
  BY LenProperties
<1>3. DOMAIN t = 1..(Len(s) - 1)
  BY <1>1, LenProperties
<1>4. ASSUME NEW k \in DOMAIN s, k # i PROVE s[k] \in ToSet(t)
  <2>1. CASE k < i
    <3>1. k \in DOMAIN t /\ t[k] = s[k]
      BY <2>1, <1>1, <1>2, <1>3
    <3> QED
      BY <3>1 DEF ToSet
  <2>2. CASE k > i
    <3>1. k - 1 \in DOMAIN t /\ t[k - 1] = s[k]
      BY <2>2, <1>1, <1>2, <1>3
    <3> QED
      BY <3>1 DEF ToSet
  <2> QED
    BY <2>1, <2>2, <1>2, <1>4
<1>5. ASSUME NEW j \in DOMAIN t
      PROVE  \E k \in DOMAIN s : /\ k # i /\ t[j] = s[k]
                                 /\ k = IF j < i THEN j ELSE j + 1
  BY <1>1, <1>2, <1>3
<1>6. ToSet(t) = ToSet(s) \ {s[i]}
  BY <1>2, <1>4, <1>5 DEF ToSet, IsInjective
<1>7. IsInjective(t)
  <2> SUFFICES ASSUME NEW p \in DOMAIN t, NEW q \in DOMAIN t, t[p] = t[q]
               PROVE  p = q
    BY DEF IsInjective
  <2>1. PICK k \in DOMAIN s : t[p] = s[k] /\ k = IF p < i THEN p ELSE p + 1
    BY <1>5
  <2>2. PICK l \in DOMAIN s : t[q] = s[l] /\ l = IF q < i THEN q ELSE q + 1
    BY <1>5
  <2>3. k = l
    BY <2>1, <2>2 DEF IsInjective
  <2> QED
    BY <2>1, <2>2, <2>3, <1>2, <1>3
<1> QED
  BY <1>2, <1>6, <1>7 DEF ToSet, t

\* and of putting one sequence in front of another.
LEMMA ConcatItems ==
    ASSUME NEW S, NEW s \in Seq(S), NEW t \in Seq(S)
    PROVE  /\ ToSet(s \o t) = ToSet(s) \union ToSet(t)
           /\ IsInjective(s) /\ IsInjective(t) /\ ToSet(s) \intersect ToSet(t) = {}
                 => IsInjective(s \o t)
<1>1. /\ s \o t \in Seq(S) /\ Len(s \o t) = Len(s) + Len(t)
      /\ \A j \in 1..(Len(s) + Len(t)) :
            (s \o t)[j] = IF j <= Len(s) THEN s[j] ELSE t[j - Len(s)]
  BY ConcatProperties
<1>2. /\ Len(s) \in Nat /\ DOMAIN s = 1..Len(s)
      /\ Len(t) \in Nat /\ DOMAIN t = 1..Len(t)
  BY LenProperties
<1> DEFINE u == s \o t
<1>3. DOMAIN u = 1..(Len(s) + Len(t))
  BY <1>1, LenProperties
<1>4. ASSUME NEW k \in DOMAIN s PROVE k \in DOMAIN u /\ u[k] = s[k]
  BY <1>1, <1>2, <1>3
<1>5. ASSUME NEW k \in DOMAIN t
      PROVE  Len(s) + k \in DOMAIN u /\ u[Len(s) + k] = t[k]
  BY <1>1, <1>2, <1>3
<1>6. ASSUME NEW j \in DOMAIN u
      PROVE  \/ j \in DOMAIN s /\ u[j] = s[j]
             \/ j - Len(s) \in DOMAIN t /\ u[j] = t[j - Len(s)]
  BY <1>1, <1>2, <1>3
<1> HIDE DEF u
<1>7. ToSet(u) = ToSet(s) \union ToSet(t)
  BY <1>4, <1>5, <1>6 DEF ToSet
<1>8. ASSUME IsInjective(s), IsInjective(t), ToSet(s) \intersect ToSet(t) = {}
      PROVE  IsInjective(u)
  <2> SUFFICES ASSUME NEW p \in DOMAIN u, NEW q \in DOMAIN u, u[p] = u[q]
               PROVE  p = q
    BY DEF IsInjective
  <2>1. \A k \in DOMAIN s, l \in DOMAIN t : s[k] # t[l]
    BY <1>8 DEF ToSet
  <2>2. p \in Nat /\ q \in Nat
    BY <1>3
  <2> QED
    BY <1>2, <1>6, <1>8, <2>1, <2>2 DEF IsInjective
<1> QED
  BY <1>7, <1>8 DEF u

\* A pipe that holds one item: taking it leaves the pipe empty,
LEMMA SingleItem ==
    ASSUME NEW S, NEW s \in Seq(S), Len(s) <= 1, s # <<>>
    PROVE  /\ Head(s) \in S
           /\ ToSet(s) = {Head(s)}
           /\ Tail(s) = <<>>
<1>1. Len(s) = 1
  <2> DEFINE n == Len(s)
  <2>1. n \in Nat /\ n # 0 /\ n <= 1
    BY EmptySeq, LenProperties
  <2> HIDE DEF n
  <2>2. n = 1
    BY <2>1
  <2> QED
    BY <2>2 DEF n
<1>2. DOMAIN s = 1..1 /\ Head(s) = s[1]
  BY <1>1, LenProperties
<1>3. Tail(s) \in Seq(S) /\ Len(Tail(s)) = 0 /\ Head(s) \in S
  BY <1>1, HeadTailProperties
<1>4. Tail(s) = <<>>
  BY <1>3, EmptySeq
<1> QED
  BY <1>2, <1>3, <1>4 DEF ToSet

\* and putting one into an empty pipe.
LEMMA AppendToEmpty ==
    ASSUME NEW S, NEW x \in S
    PROVE  /\ Append(<<>>, x) \in Seq(S)
           /\ Append(<<>>, x) # <<>>
           /\ Len(Append(<<>>, x)) = 1
           /\ ToSet(Append(<<>>, x)) = {x}
<1>1. <<>> \in Seq(S) /\ Len(<<>>) = 0
  BY EmptySeq
<1>2. Append(<<>>, x) \in Seq(S) /\ Append(<<>>, x) # <<>>
      /\ Len(Append(<<>>, x)) = 1
  BY <1>1, AppendProperties
<1>3. DOMAIN Append(<<>>, x) = 1..1 /\ Append(<<>>, x)[1] = x
  BY <1>1, <1>2, AppendProperties, LenProperties
<1> QED
  BY <1>2, <1>3 DEF ToSet

\* As many items are in a queue that holds none twice as it is long.
LEMMA ItemsCounted ==
    ASSUME NEW S, NEW s \in Seq(S), IsInjective(s)
    PROVE  Cardinality(ToSet(s)) = Len(s)
<1>1. Len(s) \in Nat /\ DOMAIN s = 1..Len(s)
  BY LenProperties
<1>2. ToSet(s) = {s[i] : i \in 1..Len(s)}
  BY <1>1 DEF ToSet
<1>3. s \in [1..Len(s) -> ToSet(s)]
  BY <1>1, <1>2
<1>4. s \in Bijection(1..Len(s), ToSet(s))
  BY <1>2, <1>3 DEF Bijection, Injection, Surjection
<1>5. ExistsBijection(1..Len(s), ToSet(s))
  BY <1>4 DEF ExistsBijection
<1> QED
  BY <1>1, <1>5, FS_CountingElements

-----------------------------------------------------------------------------
(* Induction.  The theorems of the library about it take an operator; these   *)
(* take a set, and rest on the well-foundedness of inclusion.                *)

\* A non-empty set of naturals has a least element.
LEMMA LeastNatural ==
    ASSUME NEW T \in SUBSET Nat, T # {}
    PROVE  \E x \in T : \A y \in T : x <= y
<1> DEFINE I == {1..n : n \in T}
<1>1. IsWellFoundedOn(StrictSubsetOrdering(Nat), FiniteSubsetsOf(Nat))
  BY FS_StrictSubsetOrderingWellFounded
<1>2. I \subseteq FiniteSubsetsOf(Nat)
  <2>1. \A n \in T : IsFiniteSet(1..n) /\ 1..n \in SUBSET Nat
    BY FS_Interval
  <2> QED
    BY <2>1 DEF FiniteSubsetsOf
<1>3. I # {}
  OBVIOUS
<1>4. \E i \in I : \A j \in I : ~(<<j, i>> \in StrictSubsetOrdering(Nat))
  <2> HIDE DEF I
  <2> QED
    BY <1>1, <1>2, <1>3, WFMin
<1>5. PICK x \in T : \A y \in T : ~(<<1..y, 1..x>> \in StrictSubsetOrdering(Nat))
  BY <1>4
<1>6. ASSUME NEW y \in T, y < x PROVE FALSE
  <2>1. x \in 1..x /\ x \notin 1..y
    BY <1>6
  <2>2. 1..y \in SUBSET Nat /\ 1..x \in SUBSET Nat /\ 1..y \subseteq 1..x /\ 1..y # 1..x
    BY <1>6, <2>1
  <2>3. <<1..y, 1..x>> \in StrictSubsetOrdering(Nat)
    BY <2>2 DEF StrictSubsetOrdering
  <2> QED
    BY <1>5, <2>3
<1> QED
  BY <1>6

\* A set of sequences that holds the empty one and every extension of one of its
\* own by an item holds all.
LEMMA SequencesByAppend ==
    ASSUME NEW S, NEW P, <<>> \in P,
           \A s \in Seq(S), x \in S : s \in P => Append(s, x) \in P
    PROVE  Seq(S) \subseteq P
<1> SUFFICES ASSUME NEW u \in Seq(S) PROVE u \in P
  OBVIOUS
<1> DEFINE Bad == {n \in 0..Len(u) : SubSeq(u, 1, n) \notin P}
<1>1. Len(u) \in Nat /\ SubSeq(u, 1, Len(u)) = u
  BY LenProperties, SubSeqFull
<1> SUFFICES ASSUME u \notin P PROVE FALSE
  OBVIOUS
<1>2. PICK n \in Bad : \A k \in Bad : n <= k
  <2>1. Bad \in SUBSET Nat
    OBVIOUS
  <2>2. \E m : m \in 0..Len(u) /\ SubSeq(u, 1, m) \notin P
    <3>1. Len(u) \in 0..Len(u)
      BY <1>1
    <3> QED
      BY <1>1, <3>1, Zenon
  <2>3. Bad # {}
    BY <2>2
  <2> HIDE DEF Bad
  <2> QED
    BY <2>1, <2>3, LeastNatural
<1>3. n # 0
  <2>1. SubSeq(u, 1, 0) = <<>>
    BY SubSeqEmpty
  <2> QED
    BY <2>1
<1>4. n \in 1..Len(u) /\ n - 1 \in 0..Len(u) /\ ~(n <= n - 1)
  BY <1>1, <1>3
<1>5. SubSeq(u, 1, n - 1) \in P
  <2>1. n - 1 \notin Bad
    <3> HIDE DEF Bad
    <3> QED
      BY <1>2, <1>4
  <2> QED
    BY <1>4, <2>1
<1>6. SubSeq(u, 1, n - 1) \in Seq(S) /\ u[n] \in S
  <2>1. \A i \in 1..Len(u) : u[i] \in S
    BY ElementOfSeq
  <2>2. \A i \in 1..(n - 1) : u[i] \in S
    BY <1>4, <2>1
  <2> QED
    BY <1>4, <2>1, <2>2, SubSeqProperties
<1>7. SubSeq(u, 1, n) = Append(SubSeq(u, 1, n - 1), u[n])
  <2>1. SubSeq(u, 1, n) = SubSeq(u, 1, n - 1) \o <<u[n]>>
    BY <1>1, <1>4, SubSeqRecursiveSecond
  <2> QED
    BY <1>6, <2>1
<1> QED
  BY <1>5, <1>6, <1>7

-----------------------------------------------------------------------------
(* FlattenSeq, whose definition is recursive.                                *)

\* f flattens the first n sequences of ss, one more with each argument.
Flattens(f, ss, n) ==
    f = [i \in 1..n |-> IF i = 1 THEN ss[i] ELSE f[i - 1] \o ss[i]]

\* FlattenSeq is defined by such a function: there is one, ...
LEMMA FlattenExists ==
    ASSUME NEW S, NEW ss \in Seq(Seq(S)), NEW n \in Nat, n <= Len(ss)
    PROVE  \E f : Flattens(f, ss, n)
<1> DEFINE Bad == {m \in 0..n : ~ \E f : Flattens(f, ss, m)}
<1> SUFFICES ASSUME Bad # {} PROVE FALSE
  BY n \in 0..n
<1>1. PICK m \in Bad : \A k \in Bad : m <= k
  BY LeastNatural, Bad \in SUBSET Nat
<1>2. m # 0
  <2> SUFFICES \E f : Flattens(f, ss, 0)
    OBVIOUS
  <2> Flattens([i \in 1..0 |-> ss[i]], ss, 0)
    BY DEF Flattens
  <2> QED
    OBVIOUS
<1>3. m - 1 \in 0..n /\ m - 1 \notin Bad
  <2>1. m \in 0..n /\ m - 1 \in 0..n /\ ~(m <= m - 1)
    BY <1>2
  <2> HIDE DEF Bad
  <2> QED
    BY <1>1, <2>1
<1>4. PICK g : Flattens(g, ss, m - 1)
  BY <1>3
<1> DEFINE f == [i \in 1..m |-> IF i < m THEN g[i] ELSE IF m = 1 THEN ss[1] ELSE g[m - 1] \o ss[m]]
<1>5. \A i \in 1..(m - 1) : g[i] = IF i = 1 THEN ss[i] ELSE g[i - 1] \o ss[i]
  BY <1>4 DEF Flattens
<1>6. ASSUME NEW i \in 1..m PROVE f[i] = IF i = 1 THEN ss[i] ELSE f[i - 1] \o ss[i]
  <2>1. CASE i < m
    <3>1. f[i] = g[i] /\ (i # 1 => f[i - 1] = g[i - 1]) /\ i \in 1..(m-1)
      BY <2>1
    <3> QED
      BY <1>5, <3>1
  <2>2. CASE i = m
    <3>1. m # 1 => f[m - 1] = g[m - 1]
      BY <1>2
    <3> QED
      BY <2>2, <3>1
  <2> QED
    BY <2>1, <2>2
<1>7. Flattens(f, ss, m)
  <2> HIDE DEF f
  <2>1. DOMAIN f = 1..m /\ f = [i \in DOMAIN f |-> f[i]]
    BY DEF f
  <2> QED
    BY <1>6, <2>1 DEF Flattens
<1> QED
  BY <1>7, <1>1

\* ... and only one, so that a longer one extends a shorter one.
LEMMA FlattenUnique ==
    ASSUME NEW ss, NEW f, NEW g, NEW m \in Nat, NEW n \in Nat, m <= n,
           Flattens(f, ss, m), Flattens(g, ss, n)
    PROVE  \A i \in 1..m : f[i] = g[i]
<1> DEFINE Differ == {i \in 1..m : f[i] # g[i]}
<1> SUFFICES ASSUME Differ # {} PROVE FALSE
  OBVIOUS
<1>1. PICK i \in Differ : \A j \in Differ : i <= j
  <2>1. Differ \in SUBSET Nat
    OBVIOUS
  <2> HIDE DEF Differ
  <2> QED
    BY <2>1, LeastNatural
<1>2. /\ f[i] = IF i = 1 THEN ss[i] ELSE f[i - 1] \o ss[i]
      /\ g[i] = IF i = 1 THEN ss[i] ELSE g[i - 1] \o ss[i]
  <2>1. i \in 1..m /\ i \in 1..n
    OBVIOUS
  <2>2. f = [j \in 1..m |-> IF j = 1 THEN ss[j] ELSE f[j - 1] \o ss[j]]
    BY DEF Flattens
  <2>3. g = [j \in 1..n |-> IF j = 1 THEN ss[j] ELSE g[j - 1] \o ss[j]]
    BY DEF Flattens
  <2> HIDE DEF Differ
  <2>4. f[i] = IF i = 1 THEN ss[i] ELSE f[i - 1] \o ss[i]
    BY <2>1, <2>2
  <2>5. g[i] = IF i = 1 THEN ss[i] ELSE g[i - 1] \o ss[i]
    BY <2>1, <2>3
  <2> QED
    BY <2>4, <2>5
<1>3. i # 1 => i - 1 \in 1..m /\ ~(i <= i - 1)
  OBVIOUS
<1>4. i # 1 => f[i - 1] = g[i - 1]
  BY <1>1, <1>3
<1> QED
  BY <1>2, <1>4

\* FlattenSeq is the last value of a function that flattens.
LEMMA FlattenByFunction ==
    ASSUME NEW S, NEW ss \in Seq(Seq(S)), ss # <<>>
    PROVE  \E f : /\ Flattens(f, ss, Len(ss))
                  /\ FlattenSeq(ss) = f[Len(ss)]
<1>1. Len(ss) \in Nat \ {0}
  BY EmptySeq
<1> DEFINE flatten == CHOOSE f : f = [i \in 1..Len(ss) |->
                         IF i = 1 THEN ss[i] ELSE f[i - 1] \o ss[i]]
<1>2. FlattenSeq(ss) = flatten[Len(ss)]
  BY <1>1 DEF FlattenSeq
<1>3. \E f : Flattens(f, ss, Len(ss))
  BY <1>1, FlattenExists
<1>4. Flattens(flatten, ss, Len(ss))
  BY <1>3 DEF Flattens
<1> QED
  BY <1>2, <1>4

\* What flattening makes of no sequence, of one more sequence at the end,
LEMMA FlattenEmpty == FlattenSeq(<<>>) = <<>>
BY DEF FlattenSeq

\* One more sequence at the end.
LEMMA FlattenAppend ==
    ASSUME NEW S, NEW ss \in Seq(Seq(S)), NEW s \in Seq(S)
    PROVE  FlattenSeq(Append(ss, s)) = FlattenSeq(ss) \o s
<1> DEFINE n == Len(ss)
           t == Append(ss, s)
<1>1. /\ t \in Seq(Seq(S)) /\ t # <<>> /\ Len(t) = n + 1 /\ t[n + 1] = s
      /\ n \in Nat /\ \A i \in 1..n : t[i] = ss[i]
  BY AppendProperties, LenProperties
<1> HIDE DEF t
<1>2. PICK g : Flattens(g, t, n + 1) /\ FlattenSeq(t) = g[n + 1]
  BY <1>1, FlattenByFunction
<1>3. g[n + 1] = IF n + 1 = 1 THEN s ELSE g[n] \o s
  <2>1. n + 1 \in 1..(n + 1) /\ (n + 1) - 1 = n
    BY <1>1
  <2> QED
    BY <1>1, <1>2, <2>1 DEF Flattens
<1>4. CASE ss = <<>>
  <2>1. n = 0
    BY <1>4
  <2>2. FlattenSeq(t) = s
    BY <1>2, <1>3, <2>1
  <2>3. FlattenSeq(ss) = <<>>
    BY <1>4, FlattenEmpty
  <2> QED
    BY <2>2, <2>3, ConcatEmptySeq DEF t
<1>5. CASE ss # <<>>
  <2>1. n \in Nat \ {0}
    BY <1>5, EmptySeq
  <2>2. PICK f : Flattens(f, ss, n) /\ FlattenSeq(ss) = f[n]
    BY <1>5, FlattenByFunction
  <2>3. Flattens(f, t, n)
    <3>1. \A i \in 1..n : t[i] = ss[i]
      BY <1>1
    <3> HIDE DEF n
    <3>2. [i \in 1..n |-> IF i = 1 THEN t[i] ELSE f[i - 1] \o t[i]]
          = [i \in 1..n |-> IF i = 1 THEN ss[i] ELSE f[i - 1] \o ss[i]]
      BY <3>1
    <3> QED
      BY <2>2, <3>2 DEF Flattens
  <2>4. f[n] = g[n]
    BY <1>1, <1>2, <2>1, <2>3, FlattenUnique
  <2>5. FlattenSeq(t) = f[n] \o s
    BY <1>2, <1>3, <2>1, <2>4
  <2> QED
    BY <2>2, <2>5 DEF t
<1> QED
  BY <1>4, <1>5

\* and of two sequences of sequences one after the other.
LEMMA FlattenConcat ==
    ASSUME NEW S, NEW ss \in Seq(Seq(S)), NEW tt \in Seq(Seq(S))
    PROVE  /\ FlattenSeq(tt) \in Seq(S)
           /\ FlattenSeq(ss \o tt) = FlattenSeq(ss) \o FlattenSeq(tt)
<1> DEFINE Typed == {u \in Seq(Seq(S)) : FlattenSeq(u) \in Seq(S)}
           Good == {u \in Seq(Seq(S)) :
                      FlattenSeq(ss \o u) = FlattenSeq(ss) \o FlattenSeq(u)}
<1>1. \A u \in Seq(Seq(S)) : FlattenSeq(u) \in Seq(S)
  <2>1. <<>> \in Typed
    BY FlattenEmpty, EmptySeq
  <2>2. ASSUME NEW u \in Seq(Seq(S)), NEW x \in Seq(S), u \in Typed
        PROVE  Append(u, x) \in Typed
    <3>1. FlattenSeq(Append(u, x)) = FlattenSeq(u) \o x /\ FlattenSeq(u) \in Seq(S)
      BY <2>2, FlattenAppend
    <3> QED
      BY <3>1, ConcatProperties, AppendProperties
  <2> HIDE DEF Typed
  <2>3. Seq(Seq(S)) \subseteq Typed
    BY <2>1, <2>2, SequencesByAppend
  <2> QED
    BY <2>3 DEF Typed
<1>2. <<>> \in Good
  BY <1>1, FlattenEmpty, EmptySeq, ConcatEmptySeq
<1>3. ASSUME NEW u \in Seq(Seq(S)), NEW x \in Seq(S), u \in Good
      PROVE  Append(u, x) \in Good
  <2>1. ss \o Append(u, x) = Append(ss \o u, x) /\ ss \o u \in Seq(Seq(S))
    BY ConcatProperties, AppendProperties
  <2>2. FlattenSeq(ss \o Append(u, x)) = (FlattenSeq(ss) \o FlattenSeq(u)) \o x
    BY <1>3, <2>1, FlattenAppend
  <2>3. FlattenSeq(Append(u, x)) = FlattenSeq(u) \o x
    BY FlattenAppend
  <2>4. (FlattenSeq(ss) \o FlattenSeq(u)) \o x = FlattenSeq(ss) \o (FlattenSeq(u) \o x)
    <3> DEFINE a == FlattenSeq(ss)
               b == FlattenSeq(u)
    <3>1. a \in Seq(S) /\ b \in Seq(S)
      BY <1>1
    <3> HIDE DEF a, b
    <3>2. (a \o b) \o x = a \o (b \o x)
      BY <3>1, ConcatAssociative, SMTT(20)
    <3> QED
      BY <3>2 DEF a, b
  <2> QED
    BY <2>2, <2>3, <2>4, AppendProperties
<1> HIDE DEF Good
<1>4. Seq(Seq(S)) \subseteq Good
  BY <1>2, <1>3, SequencesByAppend
<1> QED
  BY <1>1, <1>4 DEF Good

-----------------------------------------------------------------------------
(* The data of a sequence of records: frames or messages.                    *)

\* The payloads of a sequence of messages, one after the other.
DataOf(s) == FlattenSeq([i \in DOMAIN s |-> s[i].data])

\* The data of the records of R are sequences over T.
Carry(R, T) == \A r \in R : r.data \in Seq(T)

\* The data of two sequences, one after the other, is theirs, one after the other.
LEMMA DataConcat ==
    ASSUME NEW T, NEW R, Carry(R, T), NEW s \in Seq(R), NEW t \in Seq(R)
    PROVE  /\ DataOf(t) \in Seq(T)
           /\ DataOf(s \o t) = DataOf(s) \o DataOf(t)
<1> DEFINE D(u) == [i \in DOMAIN u |-> u[i].data]
<1>1. ASSUME NEW u \in Seq(R)
      PROVE  D(u) \in Seq(Seq(T)) /\ Len(D(u)) = Len(u)
             /\ \A i \in 1..Len(u) : D(u)[i] = u[i].data
  <2>1. Len(u) \in Nat /\ DOMAIN u = 1..Len(u) /\ \A i \in 1..Len(u) : u[i] \in R
    BY LenProperties, ElementOfSeq
  <2>2. \A i \in 1..Len(u) : u[i].data \in Seq(T)
    BY <2>1 DEF Carry
  <2>3. D(u) \in [1..Len(u) -> Seq(T)]
    BY <2>1, <2>2
  <2> QED
    BY <2>1, <2>3
<1>2. s \o t \in Seq(R) /\ Len(s \o t) = Len(s) + Len(t)
      /\ \A i \in 1..(Len(s) + Len(t)) :
            (s \o t)[i] = IF i <= Len(s) THEN s[i] ELSE t[i - Len(s)]
  BY ConcatProperties
<1>3. Len(s) \in Nat /\ Len(t) \in Nat
  BY LenProperties
<1>4. D(s \o t) = D(s) \o D(t)
  <2>1. /\ D(s) \o D(t) \in Seq(Seq(T)) /\ Len(D(s) \o D(t)) = Len(s) + Len(t)
        /\ \A i \in 1..(Len(s) + Len(t)) :
              (D(s) \o D(t))[i] = IF i <= Len(s) THEN D(s)[i] ELSE D(t)[i - Len(s)]
    <3>1. D(s) \in Seq(Seq(T)) /\ Len(D(s)) = Len(s)
      BY <1>1
    <3>2. D(t) \in Seq(Seq(T)) /\ Len(D(t)) = Len(t)
      BY <1>1
    <3> HIDE DEF D
    <3>3. /\ D(s) \o D(t) \in Seq(Seq(T)) /\ Len(D(s) \o D(t)) = Len(D(s)) + Len(D(t))
          /\ \A i \in 1..(Len(D(s)) + Len(D(t))) : (D(s) \o D(t))[i] =
                IF i <= Len(D(s)) THEN D(s)[i] ELSE D(t)[i - Len(D(s))]
      BY <3>1, <3>2, ConcatProperties
    <3> QED
      BY <3>1, <3>2, <3>3
  <2>2. /\ D(s \o t) \in Seq(Seq(T)) /\ Len(D(s \o t)) = Len(s) + Len(t)
        /\ \A i \in 1..(Len(s) + Len(t)) : D(s \o t)[i] = (s \o t)[i].data
    <3> HIDE DEF D
    <3> QED
      BY <1>1, <1>2
  <2>3. \A i \in 1..(Len(s) + Len(t)) : (D(s) \o D(t))[i] = D(s \o t)[i]
    <3> SUFFICES ASSUME NEW i \in 1..(Len(s) + Len(t))
                 PROVE  (D(s) \o D(t))[i] = D(s \o t)[i]
      OBVIOUS
    <3>1. D(s \o t)[i] = (s \o t)[i].data
      BY <2>2
    <3>2. CASE i <= Len(s)
      <4>1. i \in 1..Len(s)
        BY <1>3, <3>2
      <4>2. D(s)[i] = s[i].data
        BY <1>1, <4>1
      <4> HIDE DEF D
      <4> QED
        BY <1>2, <2>1, <3>1, <3>2, <4>2
    <3>3. CASE ~(i <= Len(s))
      <4>1. i - Len(s) \in 1..Len(t)
        BY <1>3, <3>3
      <4>2. D(t)[i - Len(s)] = t[i - Len(s)].data
        BY <1>1, <4>1
      <4> HIDE DEF D
      <4> QED
        BY <1>2, <2>1, <3>1, <3>3, <4>2
    <3> QED
      BY <3>2, <3>3
  <2> HIDE DEF D
  <2> QED
    BY <2>1, <2>2, <2>3, SeqEqual
<1>5. /\ DataOf(s \o t) = FlattenSeq(D(s \o t)) /\ DataOf(s) = FlattenSeq(D(s))
      /\ DataOf(t) = FlattenSeq(D(t))
  BY DEF DataOf
<1>6. D(s) \in Seq(Seq(T)) /\ D(t) \in Seq(Seq(T))
  BY <1>1
<1> HIDE DEF D
<1>7. /\ FlattenSeq(D(t)) \in Seq(T)
      /\ FlattenSeq(D(s) \o D(t)) = FlattenSeq(D(s)) \o FlattenSeq(D(t))
  BY <1>6, FlattenConcat
<1> QED
  BY <1>4, <1>5, <1>7


\* The data of a single record is its own.
LEMMA DataOfOne ==
    ASSUME NEW T, NEW r, r.data \in Seq(T)
    PROVE  DataOf(<<r>>) = r.data
<1>1. [i \in DOMAIN <<r>> |-> <<r>>[i].data] = Append(<<>>, r.data)
  OBVIOUS
<1>2. <<>> \in Seq(Seq(T))
  BY EmptySeq
<1>3. FlattenSeq(Append(<<>>, r.data)) = <<>> \o r.data
  BY <1>2, FlattenAppend, FlattenEmpty
<1> QED
  BY <1>1, <1>3, ConcatEmptySeq DEF DataOf

\* Without records there is no data.
LEMMA DataOfNone == DataOf(<<>>) = <<>>
<1>1. [i \in DOMAIN <<>> |-> <<>>[i].data] = <<>>
  OBVIOUS
<1> QED
  BY <1>1, FlattenEmpty DEF DataOf

-----------------------------------------------------------------------------
(* The head of a sequence.                                                   *)

\* A sequence that is not empty is its head and the rest.
LEMMA HeadFirst ==
    ASSUME NEW S, NEW t \in Seq(S), t # <<>>
    PROVE  <<Head(t)>> \in Seq(S) /\ Tail(t) \in Seq(S) /\ <<Head(t)>> \o Tail(t) = t
<1>1. Len(t) \in Nat \ {0} /\ 1 \in 1..Len(t) /\ Len(t) \in 1..Len(t)
  BY EmptySeq
<1>2. SubSeq(t, 1, Len(t)) = <<t[1]>> \o SubSeq(t, 2, Len(t))
  <2>1. 1 + 1 = 2
    OBVIOUS
  <2> QED
    BY <1>1, <2>1, SubSeqRecursiveFirst
<1>3. SubSeq(t, 1, Len(t)) = t /\ Tail(t) = SubSeq(t, 2, Len(t)) /\ Head(t) = t[1]
  <2>1. SubSeq(t, 1, Len(t)) = t
    BY SubSeqFull
  <2>2. Tail(t) = SubSeq(t, 2, Len(t))
    BY TailIsSubSeq
  <2>3. Head(t) = t[1]
    BY <1>1
  <2> QED
    BY <2>1, <2>2, <2>3
<1>4. Head(t) \in S /\ Tail(t) \in Seq(S)
  BY HeadTailProperties
<1>5. <<Head(t)>> \in Seq(S)
  BY <1>4
<1> QED
  BY <1>2, <1>3, <1>4, <1>5

\* Its items are its head and those of the rest.
LEMMA HeadAndTailItems ==
    ASSUME NEW S, NEW t \in Seq(S), t # <<>>
    PROVE  ToSet(t) = {Head(t)} \union ToSet(Tail(t))
<1> DEFINE h == <<Head(t)>>
           r == Tail(t)
<1>1. h \in Seq(S) /\ r \in Seq(S) /\ h \o r = t
  BY HeadFirst
<1>2. ToSet(h) = {Head(t)}
  <2>1. Head(t) \in S /\ h = Append(<<>>, Head(t))
    BY HeadTailProperties
  <2> HIDE DEF h
  <2> QED
    BY <2>1, AppendToEmpty
<1> HIDE DEF h
<1>3. ToSet(t) = ToSet(h) \union ToSet(r)
  <2> HIDE DEF r
  <2>1. ToSet(h \o r) = ToSet(h) \union ToSet(r)
    BY <1>1, ConcatItems
  <2> QED
    BY <1>1, <2>1
<1> QED
  BY <1>2, <1>3

\* Moving the head of one sequence to the end of another leaves their
\* concatenation as it was: what Send does between outbox and chan.
LEMMA HeadMoves ==
    ASSUME NEW S, NEW s \in Seq(S), NEW t \in Seq(S), t # <<>>
    PROVE  Append(s, Head(t)) \o Tail(t) = s \o t
<1>1. <<Head(t)>> \in Seq(S) /\ Tail(t) \in Seq(S) /\ <<Head(t)>> \o Tail(t) = t
      /\ Head(t) \in S
  BY HeadFirst, HeadTailProperties
<1>2. Append(s, Head(t)) = s \o <<Head(t)>>
  BY <1>1, AppendIsConcat
<1>3. (s \o <<Head(t)>>) \o Tail(t) = s \o (<<Head(t)>> \o Tail(t))
  BY <1>1, ConcatAssociative
<1> QED
  BY <1>1, <1>2, <1>3

=============================================================================
