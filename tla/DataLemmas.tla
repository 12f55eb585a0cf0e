----------------------------- MODULE DataLemmas -----------------------------
(***************************************************************************)
(* Facts about numbers, finite sets and sequences that the proofs about    *)
(* requests, settings and queues rest on.  Induction is stated for sets:   *)
(* the set of the naturals for which something holds takes the place of a  *)
(* predicate.                                                              *)
(***************************************************************************)
EXTENDS Integers, SequencesExt, SequenceTheorems, FiniteSetTheorems, FunctionTheorems,
        WellFoundedInduction, TLAPS

\* A set with 0 and the successors of its naturals has all naturals.
LEMMA SetInduction ==
  ASSUME NEW S, 0 \in S, \A n \in Nat : n \in S => n + 1 \in S
  PROVE  Nat \subseteq S
<1> SUFFICES ASSUME NEW T, T = Nat \ S, T # {} PROVE FALSE
  BY Nat \ S # {} \/ Nat \subseteq S
<1>1. PICK t \in T : \A u \in T : ~(<<u, t>> \in OpToRel(<, Nat))
  BY NatLessThanWellFounded, WFMin, T \subseteq Nat
<1>2. t \in Nat /\ t # 0 /\ t - 1 \in Nat
  OBVIOUS
<1>3. t - 1 \in T
  <2>1. t - 1 + 1 = t
    BY <1>2
  <2> QED BY <1>2, <2>1
<1>4. <<t - 1, t>> \in OpToRel(<, Nat)
  BY <1>2 DEF OpToRel
<1> QED BY <1>1, <1>3, <1>4

\* A set of positive integers that is not empty has a minimum.
LEMMA MinExists ==
  ASSUME NEW S, S \subseteq Nat, S # {}
  PROVE  /\ Min(S) \in S
         /\ \A x \in S : Min(S) <= x
<1>1. PICK t \in S : \A u \in S : ~(<<u, t>> \in OpToRel(<, Nat))
  BY NatLessThanWellFounded, WFMin
<1>2. ASSUME NEW u \in S
      PROVE  t <= u
  <2>1. u < t => <<u, t>> \in OpToRel(<, Nat)
    BY DEF OpToRel
  <2>2. ~(u < t)
    BY <1>1, <2>1
  <2>3. t \in Nat /\ u \in Nat
    OBVIOUS
  <2> QED BY <2>2, <2>3
<1> QED BY <1>2 DEF Min

\* A set of naturals with a bound has a maximum.
LEMMA MaxExists ==
  ASSUME NEW S, NEW n \in Nat, S \subseteq 0 .. n, S # {}
  PROVE  /\ Max(S) \in S
         /\ \A x \in S : x <= Max(S)
<1> DEFINE T == {n - x : x \in S}
<1>1. \A x \in S : x \in Int /\ n - x \in Nat
  <2>1. \A x \in S : x \in Int /\ x <= n
    OBVIOUS
  <2> QED BY <2>1
<1>2. T \subseteq Nat /\ T # {}
  BY <1>1
<1>3. Min(T) \in T /\ \A u \in T : Min(T) <= u
  BY <1>2, MinExists
<1>4. PICK x \in S : Min(T) = n - x
  BY <1>3
<1>5. ASSUME NEW y \in S
      PROVE  y <= x
  <2>1. Min(T) <= n - y
    BY <1>3
  <2>2. x \in Int /\ y \in Int
    BY <1>1
  <2> QED BY <1>4, <2>1, <2>2
<1>6. \A y \in S : x >= y
  BY <1>5
<1> QED BY <1>5, <1>6 DEF Max

\* Arithmetic of fixed width.
LEMMA Wrapped ==
  ASSUME NEW a \in Nat, NEW b \in Nat \ {0}
  PROVE  /\ a % b \in Nat /\ a % b < b /\ a % b <= a
         /\ a < b => a % b = a
         /\ b % b = 0
OBVIOUS

-----------------------------------------------------------------------------
(* FlattenSeq.                                                             *)

\* The sequences up to i, one after the other.
Flattened(seqs, f) ==
  f = [i \in 1 .. Len(seqs) |-> IF i = 1 THEN seqs[i] ELSE f[i - 1] \o seqs[i]]

LEMMA FlattenedExists ==
  ASSUME NEW S, NEW seqs \in Seq(S)
  PROVE  \E f : Flattened(seqs, f)
<1> DEFINE Upto(n, f) == f = [i \in 1 .. n |-> IF i = 1 THEN seqs[i] ELSE f[i - 1] \o seqs[i]]
           P == {n \in Nat : \E f : Upto(n, f)}
<1>1. 0 \in P
  <2>1. Upto(0, [i \in 1 .. 0 |-> seqs[i]])
    OBVIOUS
  <2> QED BY <2>1
<1>2. ASSUME NEW n \in Nat, n \in P
      PROVE  n + 1 \in P
  <2>1. PICK f : Upto(n, f)
    BY <1>2
  <2> DEFINE v == IF n = 0 THEN seqs[1] ELSE f[n] \o seqs[n + 1]
             g == [i \in 1 .. n + 1 |-> IF i = n + 1 THEN v ELSE f[i]]
  <2>2. \A i \in 1 .. n : f[i] = IF i = 1 THEN seqs[i] ELSE f[i - 1] \o seqs[i]
    BY <2>1
  <2>3. \A i \in 1 .. n + 1 : g[i] = IF i = n + 1 THEN v ELSE f[i]
    OBVIOUS
  <2> HIDE DEF g
  <2>4. ASSUME NEW i \in 1 .. n + 1
        PROVE  g[i] = IF i = 1 THEN seqs[i] ELSE g[i - 1] \o seqs[i]
    <3>1. CASE i = n + 1
      <4>1. i # 1 => n # 0 /\ i - 1 = n /\ n \in 1 .. n + 1 /\ n # n + 1
        BY <3>1
      <4> QED BY <2>3, <3>1, <4>1
    <3>2. CASE i # n + 1
      <4>1. i \in 1 .. n
        BY <3>2
      <4>2. i # 1 => i - 1 \in 1 .. n + 1 /\ i - 1 # n + 1
        BY <4>1
      <4> QED BY <2>2, <2>3, <3>2, <4>1, <4>2
    <3> QED BY <3>1, <3>2
  <2>5. Upto(n + 1, g)
    BY <2>4 DEF g
  <2> HIDE DEF Upto
  <2>6. \E f_1 : Upto(n + 1, f_1)
    BY <2>5
  <2> QED BY <2>6
<1>3. Len(seqs) \in P
  <2> HIDE DEF P
  <2>1. Nat \subseteq P
    BY <1>1, <1>2, SetInduction
  <2> QED BY <2>1, LenProperties
<1> QED BY <1>3 DEF Flattened

\* FlattenSeq follows its recursion.
LEMMA FlattenSeqIs ==
  ASSUME NEW S, NEW seqs \in Seq(S), seqs # <<>>
  PROVE  \E f : Flattened(seqs, f) /\ FlattenSeq(seqs) = f[Len(seqs)]
<1> DEFINE flatten[i \in 1 .. Len(seqs)] ==
             IF i = 1 THEN seqs[i] ELSE flatten[i - 1] \o seqs[i]
<1>1. Flattened(seqs, flatten)
  <2>1. flatten = CHOOSE f : Flattened(seqs, f)
    BY DEF Flattened
  <2> HIDE DEF flatten
  <2> QED BY <2>1, FlattenedExists
<1>2. FlattenSeq(seqs) = flatten[Len(seqs)]
  <2>1. Len(seqs) # 0
    BY EmptySeq
  <2> QED BY <2>1 DEF FlattenSeq
<1> HIDE DEF flatten
<1> QED BY <1>1, <1>2

-----------------------------------------------------------------------------
(* What a function takes on, with the number of times.                     *)

Places(f, v) == {k \in DOMAIN f : f[k] = v}

Multiset(f) == {<<f[k], Cardinality(Places(f, f[k]))>> : k \in DOMAIN f}

\* The places of a value that is as often in f as in g.
LEMMA SamePlaces ==
  ASSUME NEW f, NEW g, IsFiniteSet(DOMAIN f), IsFiniteSet(DOMAIN g),
         Multiset(f) = Multiset(g), NEW k \in DOMAIN f
  PROVE  /\ \E l \in DOMAIN g : g[l] = f[k]
         /\ Cardinality(Places(f, f[k])) = Cardinality(Places(g, f[k]))
         /\ ExistsBijection(Places(f, f[k]), Places(g, f[k]))
<1>1. <<f[k], Cardinality(Places(f, f[k]))>> \in Multiset(g)
  BY DEF Multiset
<1>2. PICK l \in DOMAIN g :
        <<f[k], Cardinality(Places(f, f[k]))>> = <<g[l], Cardinality(Places(g, g[l]))>>
  BY <1>1 DEF Multiset
<1>3. f[k] = g[l] /\ Cardinality(Places(f, f[k])) = Cardinality(Places(g, g[l]))
  BY <1>2
<1>4. IsFiniteSet(Places(f, f[k])) /\ IsFiniteSet(Places(g, f[k]))
  <2>1. Places(f, f[k]) \in SUBSET DOMAIN f /\ Places(g, f[k]) \in SUBSET DOMAIN g
    BY DEF Places
  <2> QED BY <2>1, FS_Subset
<1>5. Cardinality(Places(f, f[k])) = Cardinality(Places(g, f[k]))
  BY <1>3
<1>6. ExistsBijection(Places(f, f[k]), Places(g, f[k]))
  BY <1>4, <1>5, FS_SameCardinalityBij
<1> QED BY <1>3, <1>5, <1>6

\* Equal multisets have their places matched one by one.
LEMMA PlacesMatched ==
  ASSUME NEW f, NEW g, IsFiniteSet(DOMAIN f), IsFiniteSet(DOMAIN g), Multiset(f) = Multiset(g)
  PROVE  \E match \in Bijection(DOMAIN f, DOMAIN g) : \A k \in DOMAIN f : g[match[k]] = f[k]
<1> DEFINE b == [v \in {f[k] : k \in DOMAIN f} |-> CHOOSE h : h \in Bijection(Places(f, v), Places(g, v))]
           match == [k \in DOMAIN f |-> b[f[k]][k]]
<1>1. ASSUME NEW k \in DOMAIN f
      PROVE  b[f[k]] \in Bijection(Places(f, f[k]), Places(g, f[k]))
  <2> DEFINE B == Bijection(Places(f, f[k]), Places(g, f[k]))
  <2>1. B # {}
    BY SamePlaces DEF ExistsBijection
  <2>2. b[f[k]] = CHOOSE h : h \in B
    OBVIOUS
  <2> HIDE DEF B, b
  <2>3. b[f[k]] \in B
    BY <2>1, <2>2
  <2> QED BY <2>3 DEF B
<1> HIDE DEF b
<1>2. ASSUME NEW k \in DOMAIN f
      PROVE  match[k] = b[f[k]][k] /\ match[k] \in DOMAIN g /\ g[match[k]] = f[k]
  <2>1. b[f[k]] \in [Places(f, f[k]) -> Places(g, f[k])]
    BY <1>1, Fun_BijectionProperties
  <2>2. k \in Places(f, f[k])
    BY DEF Places
  <2>3. b[f[k]][k] \in Places(g, f[k])
    BY <2>1, <2>2
  <2>4. match[k] = b[f[k]][k]
    OBVIOUS
  <2> HIDE DEF match
  <2> QED BY <2>3, <2>4 DEF Places
<1>3. match \in [DOMAIN f -> DOMAIN g]
  BY <1>2
<1> HIDE DEF match
<1>4. ASSUME NEW k \in DOMAIN f, NEW l \in DOMAIN f, match[k] = match[l]
      PROVE  k = l
  <2>1. f[k] = f[l]
    BY <1>2, <1>4
  <2>2. b[f[k]][k] = b[f[k]][l]
    BY <1>2, <1>4, <2>1
  <2>3. k \in Places(f, f[k]) /\ l \in Places(f, f[k])
    BY <2>1 DEF Places
  <2>4. \A x, y \in Places(f, f[k]) : b[f[k]][x] = b[f[k]][y] => x = y
    BY <1>1, Fun_BijectionProperties
  <2> QED BY <2>2, <2>3, <2>4
<1>5. ASSUME NEW l \in DOMAIN g
      PROVE  \E k \in DOMAIN f : match[k] = l
  <2>1. PICK k \in DOMAIN f : f[k] = g[l]
    BY SamePlaces
  <2>2. l \in Places(g, f[k])
    BY <2>1 DEF Places
  <2>3. PICK j \in Places(f, f[k]) : b[f[k]][j] = l
    BY <1>1, <2>2, Fun_BijectionProperties
  <2>4. j \in DOMAIN f /\ f[j] = f[k]
    BY DEF Places
  <2> QED BY <1>2, <2>3, <2>4
<1>6. match \in Bijection(DOMAIN f, DOMAIN g)
  BY <1>3, <1>4, <1>5, Fun_IsBij
<1> QED BY <1>2, <1>6

\* The places of one value, matched.
LEMMA CountedAlike ==
  ASSUME NEW F, NEW G, IsFiniteSet(DOMAIN F), NEW match \in Bijection(DOMAIN F, DOMAIN G),
         \A k \in DOMAIN F : G[match[k]] = F[k], NEW v
  PROVE  Cardinality(Places(F, v)) = Cardinality(Places(G, v))
<1> DEFINE h == [k \in Places(F, v) |-> match[k]]
<1>0. /\ match \in [DOMAIN F -> DOMAIN G]
      /\ \A a, b \in DOMAIN F : match[a] = match[b] => a = b
      /\ \A t \in DOMAIN G : \E s \in DOMAIN F : match[s] = t
  BY Fun_BijectionProperties
<1>1. h \in [Places(F, v) -> Places(G, v)]
  BY <1>0 DEF Places
<1>2. \A k, l \in Places(F, v) : h[k] = h[l] => k = l
  BY <1>0 DEF Places
<1>3. ASSUME NEW l \in Places(G, v) PROVE \E k \in Places(F, v) : h[k] = l
  <2>1. PICK k \in DOMAIN F : match[k] = l
    BY <1>0 DEF Places
  <2>2. k \in Places(F, v)
    BY <2>1 DEF Places
  <2> QED BY <2>1, <2>2
<1>4. h \in Bijection(Places(F, v), Places(G, v))
  <2> HIDE DEF h
  <2> QED BY <1>1, <1>2, <1>3, Fun_IsBij
<1>5. ExistsBijection(Places(F, v), Places(G, v))
  BY <1>4 DEF ExistsBijection
<1>6. IsFiniteSet(Places(F, v))
  <2>1. Places(F, v) \in SUBSET DOMAIN F
    BY DEF Places
  <2> QED BY <2>1, FS_Subset
<1> QED BY <1>5, <1>6, FS_Bijection

\* Where equal values have equal images, equal multisets have equal images.
LEMMA ImagesAlike ==
  ASSUME NEW f, NEW g, NEW F, NEW G, IsFiniteSet(DOMAIN f), IsFiniteSet(DOMAIN g),
         DOMAIN F = DOMAIN f, DOMAIN G = DOMAIN g,
         \A k \in DOMAIN f : \A l \in DOMAIN g : f[k] = g[l] => F[k] = G[l],
         Multiset(f) = Multiset(g)
  PROVE  Multiset(F) = Multiset(G)
<1>1. PICK match \in Bijection(DOMAIN f, DOMAIN g) : \A k \in DOMAIN f : g[match[k]] = f[k]
  BY PlacesMatched
<1>2. /\ match \in [DOMAIN F -> DOMAIN G] /\ match \in Bijection(DOMAIN F, DOMAIN G)
      /\ \A t \in DOMAIN G : \E s \in DOMAIN F : match[s] = t
  BY Fun_BijectionProperties
<1>3. \A k \in DOMAIN F : G[match[k]] = F[k]
  BY <1>1, <1>2
<1>4. \A v : Cardinality(Places(F, v)) = Cardinality(Places(G, v))
  <2>1. ASSUME NEW v PROVE Cardinality(Places(F, v)) = Cardinality(Places(G, v))
    BY <1>2, <1>3, CountedAlike
  <2> QED BY <2>1
<1>5. ASSUME NEW k \in DOMAIN F
      PROVE  <<F[k], Cardinality(Places(F, F[k]))>> \in Multiset(G)
  <2>1. match[k] \in DOMAIN G /\ G[match[k]] = F[k]
    BY <1>2, <1>3
  <2> QED BY <1>4, <2>1 DEF Multiset
<1>6. ASSUME NEW l \in DOMAIN G
      PROVE  <<G[l], Cardinality(Places(G, G[l]))>> \in Multiset(F)
  <2>1. PICK k \in DOMAIN F : match[k] = l
    BY <1>2
  <2>2. F[k] = G[l]
    BY <1>3, <2>1
  <2> QED BY <1>4, <2>2 DEF Multiset
<1> QED BY <1>5, <1>6 DEF Multiset

-----------------------------------------------------------------------------
(* A queue in two parts.                                                   *)

\* What is moved from the head of one sequence to the end of another leaves
\* their concatenation as it was.
LEMMA Handover ==
  ASSUME NEW S, NEW p \in Seq(S), NEW q \in Seq(S), q # <<>>
  PROVE  Append(p, Head(q)) \o Tail(q) = p \o q
<1> DEFINE l == Append(p, Head(q)) \o Tail(q)
<1>1. /\ Head(q) \in S /\ Tail(q) \in Seq(S) /\ Len(Tail(q)) = Len(q) - 1
      /\ \A i \in 1 .. Len(Tail(q)) : Tail(q)[i] = q[i + 1]
      /\ Head(q) = q[1] /\ Len(q) \in Nat \ {0}
  BY HeadTailProperties, EmptySeq
<1>2. /\ Append(p, Head(q)) \in Seq(S) /\ Len(Append(p, Head(q))) = Len(p) + 1
      /\ \A i \in 1 .. Len(p) : Append(p, Head(q))[i] = p[i]
      /\ Append(p, Head(q))[Len(p) + 1] = q[1]
  BY <1>1, AppendProperties
<1>3. /\ l \in Seq(S) /\ Len(l) = Len(p) + Len(q)
      /\ \A i \in 1 .. Len(p) + Len(q) : l[i] =
           IF i <= Len(p) + 1 THEN Append(p, Head(q))[i] ELSE Tail(q)[i - (Len(p) + 1)]
  <2>1. Len(p) + 1 + (Len(q) - 1) = Len(p) + Len(q) /\ Len(p) \in Nat
    BY <1>1, LenProperties
  <2> QED BY <1>1, <1>2, <2>1, ConcatProperties
<1>4. /\ p \o q \in Seq(S) /\ Len(p \o q) = Len(p) + Len(q)
      /\ \A i \in 1 .. Len(p) + Len(q) : (p \o q)[i] =
           IF i <= Len(p) THEN p[i] ELSE q[i - Len(p)]
  BY ConcatProperties
<1>5. ASSUME NEW i \in 1 .. Len(p) + Len(q) PROVE l[i] = (p \o q)[i]
  <2>0. Len(p) \in Nat /\ Len(q) \in Nat
    BY LenProperties
  <2> HIDE DEF l
  <2>1. CASE i <= Len(p)
    BY <2>0, <2>1, <1>2, <1>3, <1>4
  <2>2. CASE i = Len(p) + 1
    BY <2>0, <2>2, <1>2, <1>3, <1>4
  <2>3. CASE i > Len(p) + 1
    <3>1. i - (Len(p) + 1) \in 1 .. Len(Tail(q))
      BY <2>0, <2>3, <1>1
    <3>2. Tail(q)[i - (Len(p) + 1)] = q[i - Len(p)]
      BY <3>1, <2>0, <1>1
    <3> QED BY <2>0, <2>3, <3>2, <1>3, <1>4
  <2> QED BY <2>0, <2>1, <2>2, <2>3
<1> HIDE DEF l
<1>6. l = p \o q
  BY <1>3, <1>4, <1>5, SeqEqual
<1> QED BY <1>6 DEF l

\* What is appended to the second part is appended to the whole.
LEMMA AppendConcat ==
  ASSUME NEW S, NEW p \in Seq(S), NEW q \in Seq(S), NEW x \in S
  PROVE  p \o Append(q, x) = Append(p \o q, x)
<1>1. <<x>> \in Seq(S)
  OBVIOUS
<1>2. (p \o q) \o <<x>> = p \o (q \o <<x>>)
  BY <1>1, ConcatAssociative
<1>3. Append(q, x) = q \o <<x>>
  BY AppendIsConcat
<1>4. p \o q \in Seq(S)
  BY ConcatProperties
<1>5. Append(p \o q, x) = (p \o q) \o <<x>>
  BY <1>4, AppendIsConcat
<1> QED BY <1>2, <1>3, <1>5

\* The first of a concatenation is the first of its first part.
LEMMA FirstOfConcat ==
  ASSUME NEW S, NEW p \in Seq(S), NEW q \in Seq(S), p # <<>>
  PROVE  /\ p \o q # <<>> /\ Head(p \o q) = Head(p)
         /\ Tail(p \o q) = Tail(p) \o q
<1> DEFINE l == Tail(p) \o q
<1>1. /\ Len(p) \in Nat \ {0} /\ Len(q) \in Nat
      /\ Head(p) = p[1] /\ Tail(p) \in Seq(S) /\ Len(Tail(p)) = Len(p) - 1
      /\ \A i \in 1 .. Len(Tail(p)) : Tail(p)[i] = p[i + 1]
  BY HeadTailProperties, EmptySeq
<1>2. /\ p \o q \in Seq(S) /\ Len(p \o q) = Len(p) + Len(q)
      /\ \A i \in 1 .. Len(p) + Len(q) : (p \o q)[i] =
           IF i <= Len(p) THEN p[i] ELSE q[i - Len(p)]
  BY ConcatProperties
<1>3. p \o q # <<>> /\ Head(p \o q) = p[1]
  <2>1. p \o q # <<>>
    BY <1>1, <1>2, EmptySeq
  <2>2. Head(p \o q) = (p \o q)[1] /\ 1 <= Len(p) /\ 1 \in 1 .. Len(p) + Len(q)
    BY <1>1, <1>2, <2>1, HeadTailProperties
  <2> QED BY <1>2, <2>1, <2>2
<1>4. /\ Tail(p \o q) \in Seq(S) /\ Len(Tail(p \o q)) = Len(p) + Len(q) - 1
      /\ \A i \in 1 .. Len(Tail(p \o q)) : Tail(p \o q)[i] = (p \o q)[i + 1]
  BY <1>2, <1>3, HeadTailProperties
<1>5. /\ l \in Seq(S) /\ Len(l) = Len(p) - 1 + Len(q)
      /\ \A i \in 1 .. Len(p) - 1 + Len(q) : l[i] =
           IF i <= Len(p) - 1 THEN Tail(p)[i] ELSE q[i - (Len(p) - 1)]
  BY <1>1, ConcatProperties
<1> HIDE DEF l
<1>6. ASSUME NEW i \in 1 .. Len(l) PROVE l[i] = Tail(p \o q)[i]
  <2>1. i + 1 \in 1 .. Len(p) + Len(q) /\ i \in 1 .. Len(p) - 1 + Len(q)
    BY <1>1, <1>5
  <2>2. Tail(p \o q)[i] = (p \o q)[i + 1]
    BY <1>1, <1>4, <1>5
  <2>3. CASE i <= Len(p) - 1
    BY <1>1, <1>2, <1>5, <2>1, <2>2, <2>3
  <2>4. CASE ~(i <= Len(p) - 1)
    <3>1. i + 1 - Len(p) = i - (Len(p) - 1) /\ ~(i + 1 <= Len(p))
      BY <1>1, <2>4
    <3>2. l[i] = q[i - (Len(p) - 1)]
      BY <1>5, <2>1, <2>4
    <3>3. (p \o q)[i + 1] = q[i + 1 - Len(p)]
      BY <1>2, <2>1, <3>1
    <3> QED BY <2>2, <3>1, <3>2, <3>3
  <2> QED BY <2>3, <2>4
<1>7. Len(l) = Len(Tail(p \o q))
  BY <1>1, <1>4, <1>5
<1>8. l = Tail(p \o q)
  BY <1>4, <1>5, <1>6, <1>7, SeqEqual
<1> QED BY <1>1, <1>3, <1>8 DEF l

\* A prefix of the second part, behind the first, is a prefix of the whole.
LEMMA PrefixBehind ==
  ASSUME NEW S, NEW p \in Seq(S), NEW q \in Seq(S), NEW n \in 0 .. Len(q)
  PROVE  p \o SubSeq(q, 1, n) = SubSeq(p \o q, 1, Len(p) + n)
<1> DEFINE b == SubSeq(q, 1, n)
           m == Len(p) + n
<1>1. Len(p) \in Nat /\ Len(q) \in Nat /\ n \in Nat /\ m \in Nat /\ n <= Len(q)
  BY LenProperties
<1>2. /\ b \in Seq(S) /\ Len(b) = n
      /\ \A i \in 1 .. n : b[i] = q[i]
  <2>1. \A i \in 1 .. n : q[i] \in S
    BY <1>1, ElementOfSeq
  <2> QED BY <1>1, <2>1, SubSeqProperties
<1> HIDE DEF b
<1>3. /\ p \o b \in Seq(S) /\ Len(p \o b) = m
      /\ \A i \in 1 .. m : (p \o b)[i] = IF i <= Len(p) THEN p[i] ELSE b[i - Len(p)]
  BY <1>2, ConcatProperties
<1>4. /\ p \o q \in Seq(S) /\ Len(p \o q) = Len(p) + Len(q)
      /\ \A i \in 1 .. Len(p) + Len(q) : (p \o q)[i] =
           IF i <= Len(p) THEN p[i] ELSE q[i - Len(p)]
  BY ConcatProperties
<1>5. /\ SubSeq(p \o q, 1, m) \in Seq(S) /\ Len(SubSeq(p \o q, 1, m)) = m
      /\ \A i \in 1 .. m : SubSeq(p \o q, 1, m)[i] = (p \o q)[i]
  <2>1. \A i \in 1 .. m : (p \o q)[i] \in S
    BY <1>1, <1>4, ElementOfSeq
  <2>2. m <= Len(p \o q)
    BY <1>1, <1>4
  <2> HIDE DEF m
  <2> QED BY <1>1, <1>4, <2>1, <2>2, SubSeqProperties
<1>6. ASSUME NEW i \in 1 .. m PROVE (p \o b)[i] = SubSeq(p \o q, 1, m)[i]
  <2>1. i \in 1 .. Len(p) + Len(q)
    BY <1>1
  <2>2. CASE i <= Len(p)
    BY <1>3, <1>4, <1>5, <2>1, <2>2
  <2>3. CASE ~(i <= Len(p))
    <3>1. i - Len(p) \in 1 .. n
      BY <1>1, <2>3
    <3>2. (p \o b)[i] = b[i - Len(p)] /\ (p \o q)[i] = q[i - Len(p)]
      BY <1>3, <1>4, <2>1, <2>3
    <3> QED BY <1>2, <1>5, <3>1, <3>2
  <2> QED BY <2>2, <2>3
<1> HIDE DEF m
<1>7. p \o b = SubSeq(p \o q, 1, m)
  BY <1>3, <1>5, <1>6, SeqEqual
<1> QED BY <1>7 DEF b, m

=============================================================================
