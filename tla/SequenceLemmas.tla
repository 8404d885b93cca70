--------------------------- MODULE SequenceLemmas ---------------------------
(***************************************************************************)
(* Lemmas about queues, and about counting what is in them, that the       *)
(* proofs of several modules rest on.                                      *)
(***************************************************************************)
EXTENDS Integers, Sequences, FiniteSets, FiniteSetTheorems, SequenceTheorems, TLAPS

\* Appending to a sequence and taking its head off, element by element.
LEMMA AppendElements ==
    ASSUME NEW S, NEW s \in Seq(S), NEW x \in S
    PROVE  /\ Append(s, x) \in Seq(S)
           /\ Len(s) \in Nat /\ Len(Append(s, x)) = Len(s) + 1
           /\ \A k \in 1 .. Len(s) : Append(s, x)[k] = s[k]
           /\ Append(s, x)[Len(s) + 1] = x
  OBVIOUS

LEMMA TailElements ==
    ASSUME NEW S, NEW s \in Seq(S), s # <<>>
    PROVE  /\ Head(s) \in S /\ Head(s) = s[1]
           /\ Tail(s) \in Seq(S)
           /\ Len(s) \in Nat \ {0}
           /\ Len(Tail(s)) = Len(s) - 1
           /\ \A k \in 1 .. Len(s) - 1 : Tail(s)[k] = s[k + 1]
  OBVIOUS

\* A function on 1 .. n is a sequence of length n.
LEMMA FunctionIsSeq ==
    ASSUME NEW S, NEW n \in Nat, NEW f \in [1 .. n -> S]
    PROVE  f \in Seq(S) /\ Len(f) = n
<1>1. f \in Seq(S)
  BY SeqDef
<1> QED
  BY <1>1, LenProperties

-----------------------------------------------------------------------------
(* How many elements of a sequence are in a set.                             *)

PlacesIn(s, V) == {k \in 1 .. Len(s) : s[k] \in V}
NumberOf(s, V) == Cardinality(PlacesIn(s, V))

LEMMA NumberIsNat ==
    ASSUME NEW S, NEW s \in Seq(S), NEW V
    PROVE  IsFiniteSet(PlacesIn(s, V)) /\ NumberOf(s, V) \in Nat
<1>1. Len(s) \in Nat
  OBVIOUS
<1>2. IsFiniteSet(1 .. Len(s)) /\ PlacesIn(s, V) \in SUBSET (1 .. Len(s))
  BY <1>1, FS_Interval DEF PlacesIn
<1> QED
  BY <1>2, FS_Subset, FS_CardinalityType DEF NumberOf

LEMMA NumberAtMost ==
    ASSUME NEW S, NEW s \in Seq(S), NEW V
    PROVE  NumberOf(s, V) <= Len(s)
<1>1. Len(s) \in Nat
  OBVIOUS
<1>2. IsFiniteSet(1 .. Len(s)) /\ Cardinality(1 .. Len(s)) = Len(s)
  BY <1>1, FS_Interval, SMTT(30)
<1>3. PlacesIn(s, V) \in SUBSET (1 .. Len(s))
  BY DEF PlacesIn
<1> QED
  BY <1>2, <1>3, FS_Subset DEF NumberOf

LEMMA NumberOfEmpty ==
    ASSUME NEW S, NEW s \in Seq(S), NEW V, Len(s) = 0
    PROVE  NumberOf(s, V) = 0
<1>1. PlacesIn(s, V) = {}
  BY DEF PlacesIn
<1> QED
  BY <1>1, FS_EmptySet DEF NumberOf

LEMMA NumberOfAppend ==
    ASSUME NEW S, NEW s \in Seq(S), NEW x \in S, NEW V
    PROVE  NumberOf(Append(s, x), V) = NumberOf(s, V) + (IF x \in V THEN 1 ELSE 0)
<1>1. /\ Append(s, x) \in Seq(S) /\ Len(s) \in Nat /\ Len(Append(s, x)) = Len(s) + 1
      /\ \A k \in 1 .. Len(s) : Append(s, x)[k] = s[k]
      /\ Append(s, x)[Len(s) + 1] = x
  BY AppendElements
<1>2. IsFiniteSet(PlacesIn(s, V)) /\ NumberOf(s, V) \in Nat
  BY NumberIsNat
<1>3. CASE x \in V
  <2>1. PlacesIn(Append(s, x), V) = PlacesIn(s, V) \cup {Len(s) + 1}
    BY <1>1, <1>3 DEF PlacesIn
  <2>2. Len(s) + 1 \notin PlacesIn(s, V)
    BY <1>1 DEF PlacesIn
  <2> QED
    BY <1>2, <1>3, <2>1, <2>2, FS_AddElement DEF NumberOf
<1>4. CASE x \notin V
  <2>1. PlacesIn(Append(s, x), V) = PlacesIn(s, V)
    BY <1>1, <1>4 DEF PlacesIn
  <2> QED
    BY <1>2, <1>4, <2>1 DEF NumberOf
<1> QED
  BY <1>3, <1>4

LEMMA NumberOfTail ==
    ASSUME NEW S, NEW s \in Seq(S), s # <<>>, NEW V
    PROVE  NumberOf(s, V) = NumberOf(Tail(s), V) + (IF Head(s) \in V THEN 1 ELSE 0)
<1>1. /\ Head(s) = s[1] /\ Tail(s) \in Seq(S) /\ Len(s) \in Nat \ {0}
      /\ Len(Tail(s)) = Len(s) - 1
      /\ \A k \in 1 .. Len(s) - 1 : Tail(s)[k] = s[k + 1]
  BY TailElements
<1> DEFINE rest == {k \in 2 .. Len(s) : s[k] \in V}
           up == [k \in PlacesIn(Tail(s), V) |-> k + 1]
<1>2. IsFiniteSet(PlacesIn(Tail(s), V)) /\ NumberOf(Tail(s), V) \in Nat
  BY <1>1, NumberIsNat
<1>3. up \in Bijection(PlacesIn(Tail(s), V), rest)
  <2>1. \A k \in PlacesIn(Tail(s), V) : k \in Nat /\ k + 1 \in rest
    BY <1>1 DEF PlacesIn
  <2>2. \A k \in rest : k - 1 \in PlacesIn(Tail(s), V) /\ (k - 1) + 1 = k
    BY <1>1 DEF PlacesIn
  <2>3. up \in [PlacesIn(Tail(s), V) -> rest]
    BY <2>1
  <2>4. \A j, k \in PlacesIn(Tail(s), V) : up[j] = up[k] => j = k
    BY <2>1
  <2>5. \A k \in rest : \E j \in PlacesIn(Tail(s), V) : up[j] = k
    BY <2>2
  <2> QED
    BY <2>3, <2>4, <2>5 DEF Bijection, Injection, Surjection, IsInjective
<1>4. IsFiniteSet(rest) /\ Cardinality(rest) = NumberOf(Tail(s), V)
  BY <1>2, <1>3, FS_Bijection DEF ExistsBijection, NumberOf
<1>5. CASE Head(s) \in V
  <2>1. PlacesIn(s, V) = rest \cup {1} /\ 1 \notin rest
    BY <1>1, <1>5 DEF PlacesIn
  <2> QED
    BY <1>2, <1>4, <1>5, <2>1, FS_AddElement DEF NumberOf
<1>6. CASE Head(s) \notin V
  <2>1. PlacesIn(s, V) = rest
    BY <1>1, <1>6 DEF PlacesIn
  <2> QED
    BY <1>2, <1>4, <1>6, <2>1 DEF NumberOf
<1> QED
  BY <1>5, <1>6

-----------------------------------------------------------------------------
(* Concatenation, heads and tails.                                           *)

\* The head of the second sequence may as well end the first.
LEMMA MoveHead ==
    ASSUME NEW S, NEW u \in Seq(S), NEW v \in Seq(S), v # <<>>
    PROVE  Append(u, Head(v)) \o Tail(v) = u \o v
<1> DEFINE h == Head(v)
           w == Tail(v)
<1>1. h \in S /\ w \in Seq(S) /\ h = v[1]
      /\ Len(v) \in Nat \ {0} /\ Len(w) = Len(v) - 1
      /\ \A k \in 1 .. Len(v) - 1 : w[k] = v[k + 1]
  BY TailElements
<1> HIDE DEF h, w
<1>2. <<h>> \in Seq(S) /\ Len(<<h>>) = 1 /\ <<h>>[1] = h
  BY <1>1
<1>3. /\ <<h>> \o w \in Seq(S) /\ Len(<<h>> \o w) = Len(v)
      /\ \A k \in 1 .. Len(v) : (<<h>> \o w)[k] = IF k <= 1 THEN <<h>>[k] ELSE w[k - 1]
  BY <1>1, <1>2, ConcatProperties
<1>4. ASSUME NEW k \in 1 .. Len(v) PROVE (<<h>> \o w)[k] = v[k]
  <2>1. CASE k = 1
    BY <1>1, <1>2, <1>3, <2>1
  <2>2. CASE k # 1
    <3>1. k - 1 \in 1 .. Len(v) - 1 /\ (k - 1) + 1 = k /\ ~(k <= 1)
      BY <1>1, <2>2
    <3> QED
      BY <1>1, <1>3, <3>1
  <2> QED
    BY <2>1, <2>2
<1>5. <<h>> \o w = v
  BY <1>3, <1>4, SeqEqual
<1>6. (u \o <<h>>) \o w = u \o (<<h>> \o w)
  BY <1>1, <1>2, ConcatAssociative, SMTT(30)
<1>7. Append(u, h) = u \o <<h>>
  BY <1>1, AppendIsConcat
<1> QED
  BY <1>5, <1>6, <1>7 DEF h, w

\* The head and the tail of a concatenation are those of the first sequence.
LEMMA ConcatHeadTail ==
    ASSUME NEW S, NEW u \in Seq(S), NEW v \in Seq(S), u # <<>>
    PROVE  /\ u \o v # <<>> /\ Head(u \o v) = Head(u)
           /\ Tail(u \o v) = Tail(u) \o v
<1> DEFINE p == u \o v
           q == Tail(u) \o v
<1>1. /\ Len(u) \in Nat \ {0} /\ Head(u) = u[1] /\ Tail(u) \in Seq(S)
      /\ Len(Tail(u)) = Len(u) - 1
      /\ \A k \in 1 .. Len(u) - 1 : Tail(u)[k] = u[k + 1]
  BY TailElements
<1>2. /\ p \in Seq(S) /\ Len(v) \in Nat /\ Len(p) = Len(u) + Len(v)
      /\ \A k \in 1 .. Len(u) + Len(v) : p[k] = IF k <= Len(u) THEN u[k] ELSE v[k - Len(u)]
  BY ConcatProperties, LenProperties
<1>3. /\ q \in Seq(S) /\ Len(q) = Len(Tail(u)) + Len(v)
      /\ \A k \in 1 .. Len(Tail(u)) + Len(v) :
            q[k] = IF k <= Len(Tail(u)) THEN Tail(u)[k] ELSE v[k - Len(Tail(u))]
  BY <1>1, ConcatProperties
<1> HIDE DEF p, q
<1>4. p # <<>> /\ p[1] = u[1]
  BY <1>1, <1>2
<1>5. /\ Head(p) = p[1] /\ Tail(p) \in Seq(S) /\ Len(Tail(p)) = Len(p) - 1
      /\ \A k \in 1 .. Len(p) - 1 : Tail(p)[k] = p[k + 1]
  BY <1>2, <1>4, TailElements
<1>6. ASSUME NEW k \in 1 .. Len(q) PROVE q[k] = Tail(p)[k]
  <2>1. Tail(p)[k] = p[k + 1] /\ k + 1 \in 1 .. Len(u) + Len(v) /\ k \in 1 .. Len(Tail(u)) + Len(v)
          /\ k \in Nat
    BY <1>1, <1>2, <1>3, <1>5
  <2>2. CASE k <= Len(u) - 1
    <3>1. p[k + 1] = u[k + 1] /\ q[k] = Tail(u)[k] /\ Tail(u)[k] = u[k + 1]
      BY <1>1, <1>2, <1>3, <2>1, <2>2
    <3> QED
      BY <2>1, <3>1
  <2>3. CASE k > Len(u) - 1
    <3>1. p[k + 1] = v[(k + 1) - Len(u)]
      BY <1>1, <1>2, <2>1, <2>3
    <3>2. q[k] = v[k - (Len(u) - 1)]
      BY <1>1, <1>2, <1>3, <2>1, <2>3
    <3>3. (k + 1) - Len(u) = k - (Len(u) - 1)
      BY <1>1, <2>1
    <3> QED
      BY <2>1, <3>1, <3>2, <3>3
  <2>4. k <= Len(u) - 1 \/ k > Len(u) - 1
    BY <1>1, <2>1
  <2> QED
    BY <2>2, <2>3, <2>4
<1>7. Len(q) = Len(Tail(p))
  BY <1>1, <1>2, <1>3, <1>5
<1>8. q = Tail(p)
  BY <1>3, <1>5, <1>6, <1>7, SeqEqual
<1> QED
  BY <1>4, <1>5, <1>1, <1>8 DEF p, q

-----------------------------------------------------------------------------
(* How many pairs there are of an index and an element of its set.           *)

Pairs(I, g) == UNION {{i} \X g[i] : i \in I}

LEMMA PairsFinite ==
    ASSUME NEW I, IsFiniteSet(I), NEW g, \A i \in I : IsFiniteSet(g[i])
    PROVE  IsFiniteSet(Pairs(I, g))
<1> DEFINE T == {{i} \X g[i] : i \in I}
           f == [i \in I |-> {i} \X g[i]]
<1>1. \A i \in I : IsFiniteSet({i} \X g[i])
  BY FS_Singleton, FS_Product
<1>2. f \in Surjection(I, T)
  BY DEF Surjection
<1>3. IsFiniteSet(T)
  BY <1>2, FS_Surjection
<1>4. \A t \in T : IsFiniteSet(t)
  BY <1>1
<1>5. IsFiniteSet(UNION T)
  BY <1>3, <1>4, FS_UNION
<1> QED
  BY <1>5 DEF Pairs

\* One index has its set for itself.
LEMMA PairsOfOne ==
    ASSUME NEW I, IsFiniteSet(I), NEW g, \A j \in I : IsFiniteSet(g[j]), NEW i \in I
    PROVE  /\ Cardinality(g[i]) \in Nat /\ Cardinality(Pairs(I \ {i}, g)) \in Nat
           /\ Cardinality(Pairs(I, g)) = Cardinality(Pairs(I \ {i}, g)) + Cardinality(g[i])
<1> DEFINE rest == Pairs(I \ {i}, g)
           own == {i} \X g[i]
<1>1. IsFiniteSet(I \ {i})
  BY FS_Subset
<1>2. IsFiniteSet(rest) /\ Cardinality(rest) \in Nat
  <2>1. \A j \in I \ {i} : IsFiniteSet(g[j])
    OBVIOUS
  <2> QED
    BY <1>1, <2>1, PairsFinite, FS_CardinalityType
<1>3. IsFiniteSet(own) /\ Cardinality(own) = Cardinality(g[i]) /\ Cardinality(g[i]) \in Nat
  <2>1. IsFiniteSet(g[i]) /\ Cardinality(g[i]) \in Nat
    BY FS_CardinalityType
  <2>2. IsFiniteSet({i}) /\ Cardinality({i}) = 1
    BY FS_Singleton
  <2>3. IsFiniteSet(own) /\ Cardinality(own) = Cardinality({i}) * Cardinality(g[i])
    BY <2>1, <2>2, FS_Product
  <2> QED
    BY <2>1, <2>2, <2>3
<1>4. Pairs(I, g) = rest \cup own
  BY DEF Pairs
<1>5. rest \cap own = {}
  BY DEF Pairs
<1> HIDE DEF rest, own
<1>6. Cardinality(rest \cup own) = Cardinality(rest) + Cardinality(own) - 0
  BY <1>2, <1>3, <1>5, FS_Union, FS_EmptySet
<1>7. Cardinality(Pairs(I, g)) = Cardinality(rest) + Cardinality(g[i])
  BY <1>2, <1>3, <1>4, <1>6
<1> QED
  BY <1>2, <1>3, <1>7 DEF rest

LEMMA FirstNumbers ==
    ASSUME NEW n \in Nat
    PROVE  IsFiniteSet(1 .. n) /\ Cardinality(1 .. n) = n
<1>1. IsFiniteSet(1 .. n) /\ Cardinality(1 .. n) = IF 1 > n THEN 0 ELSE n - 1 + 1
  BY FS_Interval
<1> QED
  BY <1>1

\* What one index gains or loses.
AllFinite(I, g) == \A j \in I : IsFiniteSet(g[j])
Elsewhere(I, g, h, i) == \A j \in I : j # i => h[j] = g[j]
Differ(m, n, d) == m = n + d

LEMMA PairsChange ==
    ASSUME NEW I, IsFiniteSet(I), NEW g, NEW h, AllFinite(I, g), AllFinite(I, h),
           NEW i \in I, Elsewhere(I, g, h, i),
           NEW d \in Int, Differ(Cardinality(h[i]), Cardinality(g[i]), d)
    PROVE  /\ Cardinality(Pairs(I, g)) \in Nat
           /\ Differ(Cardinality(Pairs(I, h)), Cardinality(Pairs(I, g)), d)
<1>1. Pairs(I \ {i}, h) = Pairs(I \ {i}, g)
  BY DEF Pairs, Elsewhere
<1>2. /\ Cardinality(g[i]) \in Nat /\ Cardinality(Pairs(I \ {i}, g)) \in Nat
      /\ Cardinality(Pairs(I, g)) = Cardinality(Pairs(I \ {i}, g)) + Cardinality(g[i])
  BY PairsOfOne DEF AllFinite
<1>3. Cardinality(Pairs(I, h)) = Cardinality(Pairs(I \ {i}, h)) + Cardinality(h[i])
  BY PairsOfOne DEF AllFinite
<1> QED
  BY <1>1, <1>2, <1>3 DEF Differ
=============================================================================
