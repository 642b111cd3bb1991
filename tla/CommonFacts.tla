---------------------------- MODULE CommonFacts ----------------------------
(***************************************************************************)
(* Facts the other proofs share: the least-number principle; how to count  *)
(* things that are spread over several owners without a sum (a sum over a  *)
(* set is defined by recursion, a cardinality is not); what a queue        *)
(* contains, and in which order, when something is put or taken; and what  *)
(* holds after a number of iterations.                                     *)
(***************************************************************************)
EXTENDS Integers, Sequences, FiniteSets, FiniteSetTheorems, SequenceTheorems,
        WellFoundedInduction, TLAPS

\* A set with a well-founded relation that is < has least elements.
LEMMA LeastByRelation ==
    ASSUME NEW R, IsWellFoundedOn(R, Nat),
           \A i, j \in Nat : (<<j, i>> \in R) <=> (j < i),
           NEW S \in SUBSET Nat, S # {}
    PROVE  \E i \in S : \A j \in S : i <= j
<1>1. PICK i \in S : \A j \in S : ~(<<j, i>> \in R)
  BY WFMin
<1>2. ASSUME NEW j \in S
      PROVE  i <= j
  <2>1. ~(<<j, i>> \in R) /\ i \in Nat /\ j \in Nat
    BY <1>1
  <2>2. ~(j < i)
    BY <2>1
  <2>3. QED
    BY <2>1, <2>2
<1>3. QED
  BY <1>2

\* A non-empty set of naturals has a least element: the first free iteration
\* of a search loop, the next stream of a disconnect loop.
LEMMA LeastElement ==
    ASSUME NEW S \in SUBSET Nat, S # {}
    PROVE  \E i \in S : \A j \in S : i <= j
<1>1. \A i, j \in Nat : (<<j, i>> \in OpToRel(<, Nat)) <=> (j < i)
  BY DEF OpToRel
<1>2. QED
  BY <1>1, NatLessThanWellFounded, LeastByRelation

-----------------------------------------------------------------------------
(***************************************************************************)
(* If each s of D owns h[s] things, there are as many things as places.    *)
(***************************************************************************)
Places(D, h) == UNION {{s} \X (1 .. h[s]) : s \in D}

LEMMA PlacesMember ==
    ASSUME NEW D, NEW h \in [D -> Nat], NEW p
    PROVE  p \in Places(D, h)
             <=> \E s \in D : \E k \in 1 .. h[s] : p = <<s, k>>
BY DEF Places

LEMMA PlacesFinite ==
    ASSUME NEW D, IsFiniteSet(D), NEW h \in [D -> Nat]
    PROVE  IsFiniteSet(Places(D, h)) /\ Cardinality(Places(D, h)) \in Nat
<1> DEFINE Q == {{s} \X (1 .. h[s]) : s \in D}
           f == [s \in D |-> {s} \X (1 .. h[s])]
<1>1. f \in Surjection(D, Q)
  BY DEF Surjection
<1>2. IsFiniteSet(Q)
  BY <1>1, FS_Surjection
<1>3. \A T \in Q : IsFiniteSet(T)
  <2>1. ASSUME NEW s \in D PROVE IsFiniteSet({s} \X (1 .. h[s]))
    <3>1. IsFiniteSet({s})
      BY FS_Singleton
    <3>2. IsFiniteSet(1 .. h[s])
      BY FS_Interval
    <3>3. QED
      BY <3>1, <3>2, FS_Product
  <2>2. QED
    BY <2>1
<1>4. IsFiniteSet(Places(D, h))
  BY <1>2, <1>3, FS_UNION DEF Places
<1>5. QED
  BY <1>4, FS_CardinalityType

\* One owner gets n things instead of those it had.
LEMMA PlacesOneChanges ==
    ASSUME NEW D, IsFiniteSet(D)
    PROVE  \A h, g \in [D -> Nat] : \A s \in D :
             (\A t \in D \ {s} : g[t] = h[t]) =>
               Cardinality(Places(D, g)) = Cardinality(Places(D, h)) - h[s] + g[s]
<1> SUFFICES ASSUME NEW h \in [D -> Nat], NEW g \in [D -> Nat], NEW s \in D,
                    \A t \in D \ {s} : g[t] = h[t]
             PROVE  Cardinality(Places(D, g)) = Cardinality(Places(D, h)) - h[s] + g[s]
  OBVIOUS
<1> DEFINE A == {s} \X (1 .. h[s])
           B == {s} \X (1 .. g[s])
           R == Places(D, h) \ A
<1>1. /\ IsFiniteSet(A) /\ Cardinality(A) = h[s]
      /\ IsFiniteSet(B) /\ Cardinality(B) = g[s]
  <2>1. ASSUME NEW n \in Nat
        PROVE  IsFiniteSet({s} \X (1 .. n)) /\ Cardinality({s} \X (1 .. n)) = n
    <3>1. IsFiniteSet({s}) /\ Cardinality({s}) = 1
      BY FS_Singleton
    <3>2. IsFiniteSet(1 .. n) /\ Cardinality(1 .. n) = n
      <4>1. 1 \in Int /\ n \in Int
        OBVIOUS
      <4>2. /\ IsFiniteSet(1 .. n)
            /\ Cardinality(1 .. n) = IF 1 > n THEN 0 ELSE n - 1 + 1
        BY <4>1, FS_Interval
      <4>3. QED
        BY <4>2
    <3>3. /\ IsFiniteSet({s} \X (1 .. n))
          /\ Cardinality({s} \X (1 .. n)) = Cardinality({s}) * Cardinality(1 .. n)
      BY <3>1, <3>2, FS_Product
    <3>4. QED
      BY <3>1, <3>2, <3>3
  <2>2. QED
    BY <2>1
<1>2. /\ A \subseteq Places(D, h)
      /\ Places(D, g) = R \cup B
      /\ R \cap B = {}
  <2>1. A \subseteq Places(D, h)
    BY DEF Places
  <2>2. \A p : p \in A <=> \E k \in 1 .. h[s] : p = <<s, k>>
    OBVIOUS
  <2>3. \A p : p \in B <=> \E k \in 1 .. g[s] : p = <<s, k>>
    OBVIOUS
  <2>4. \A p : p \in R <=> \E t \in D \ {s} : \E k \in 1 .. h[t] : p = <<t, k>>
    BY <2>2, PlacesMember
  <2>5. \A p : p \in Places(D, g) <=> p \in R \/ p \in B
    BY <2>3, <2>4, PlacesMember
  <2>6. R \cap B = {}
    BY <2>3, <2>4
  <2>7. QED
    BY <2>1, <2>5, <2>6
<1>3. IsFiniteSet(Places(D, h)) /\ Cardinality(Places(D, h)) \in Nat
  BY PlacesFinite
<1>4. IsFiniteSet(R) /\ Cardinality(R) = Cardinality(Places(D, h)) - Cardinality(A)
  <2> DEFINE P == Places(D, h)
  <2>1. P \cap A = A
    BY <1>2
  <2> HIDE DEF A, P
  <2>2. IsFiniteSet(P)
    BY <1>3 DEF P
  <2>3. IsFiniteSet(P \ A) /\ Cardinality(P \ A) = Cardinality(P) - Cardinality(P \cap A)
    BY <2>2, FS_Difference
  <2>4. QED
    BY <2>1, <2>3 DEF P
<1>5. Cardinality(R \cup B) = Cardinality(R) + Cardinality(B)
  <2>1. Cardinality(R \cap B) = 0
    BY <1>2, FS_EmptySet
  <2>2. Cardinality(R) \in Nat /\ Cardinality(B) \in Nat
    BY <1>1, <1>4, FS_CardinalityType
  <2> HIDE DEF R, B
  <2>3. Cardinality(R \cup B) = Cardinality(R) + Cardinality(B) - Cardinality(R \cap B)
    BY <1>1, <1>4, FS_Union
  <2>4. QED
    BY <2>1, <2>2, <2>3
<1>6. QED
  BY <1>1, <1>2, <1>3, <1>4, <1>5

\* Every owner of T gets one more.
LEMMA PlacesManyGrow ==
    ASSUME NEW D, IsFiniteSet(D)
    PROVE  \A h, g \in [D -> Nat] : \A T \in SUBSET D :
             (\A s \in D : g[s] = IF s \in T THEN h[s] + 1 ELSE h[s]) =>
               Cardinality(Places(D, g)) = Cardinality(Places(D, h)) + Cardinality(T)
<1> SUFFICES ASSUME NEW h \in [D -> Nat], NEW g \in [D -> Nat], NEW T \in SUBSET D,
                    \A s \in D : g[s] = IF s \in T THEN h[s] + 1 ELSE h[s]
             PROVE  Cardinality(Places(D, g)) = Cardinality(Places(D, h)) + Cardinality(T)
  OBVIOUS
<1> DEFINE N == {<<s, h[s] + 1>> : s \in T}
           f == [s \in T |-> <<s, h[s] + 1>>]
<1>1. f \in Bijection(T, N)
  BY DEF Bijection, Injection, Surjection, IsInjective
<1>2. IsFiniteSet(T) /\ Cardinality(T) \in Nat
  BY FS_Subset, FS_CardinalityType
<1>3. IsFiniteSet(N) /\ Cardinality(N) = Cardinality(T)
  BY <1>1, <1>2, FS_Bijection DEF ExistsBijection
<1>4. g \in [D -> Nat]
  OBVIOUS
<1>5. \A p : p \in Places(D, g) <=> p \in Places(D, h) \/ p \in N
  <2>1. ASSUME NEW p, p \in Places(D, g) PROVE p \in Places(D, h) \/ p \in N
    <3>0. PICK s \in D : \E k \in 1 .. g[s] : p = <<s, k>>
      BY <1>4, <2>1, PlacesMember
    <3>1. PICK k \in 1 .. g[s] : p = <<s, k>>
      BY <3>0
    <3>2. CASE k \in 1 .. h[s]
      BY <3>1, <3>2, PlacesMember
    <3>3. CASE k \notin 1 .. h[s]
      <4>1. s \in T /\ k = h[s] + 1
        BY <3>1, <3>3
      <4>2. QED
        BY <3>1, <4>1
    <3>4. QED
      BY <3>2, <3>3
  <2>2. ASSUME NEW p, p \in Places(D, h) PROVE p \in Places(D, g)
    <3>0. PICK s \in D : \E k \in 1 .. h[s] : p = <<s, k>>
      BY <2>2, PlacesMember
    <3>1. PICK k \in 1 .. h[s] : p = <<s, k>>
      BY <3>0
    <3>2. k \in 1 .. g[s]
      BY <3>1
    <3>3. QED
      BY <1>4, <3>1, <3>2, PlacesMember
  <2>3. ASSUME NEW p, p \in N PROVE p \in Places(D, g)
    <3>1. PICK s \in T : p = <<s, h[s] + 1>>
      BY <2>3
    <3>2. h[s] + 1 \in 1 .. g[s]
      BY <3>1
    <3>3. QED
      BY <1>4, <3>1, <3>2, PlacesMember
  <2>4. QED
    BY <2>1, <2>2, <2>3
<1>6. Places(D, h) \cap N = {}
  <2>1. ASSUME NEW p, p \in Places(D, h), p \in N PROVE FALSE
    <3>0. PICK s \in D : \E k \in 1 .. h[s] : p = <<s, k>>
      BY <2>1, PlacesMember
    <3>1. PICK k \in 1 .. h[s] : p = <<s, k>>
      BY <3>0
    <3>2. PICK t \in T : p = <<t, h[t] + 1>>
      BY <2>1
    <3>3. s = t /\ k = h[t] + 1
      BY <3>1, <3>2
    <3>4. QED
      BY <3>1, <3>3
  <2>2. QED
    BY <2>1
<1>7. IsFiniteSet(Places(D, h)) /\ Cardinality(Places(D, h)) \in Nat
  BY PlacesFinite
<1>8. Cardinality(Places(D, h) \cup N) = Cardinality(Places(D, h)) + Cardinality(N)
  <2>1. Cardinality(Places(D, h) \cap N) = 0
    BY <1>6, FS_EmptySet
  <2> DEFINE P == Places(D, h)
  <2> HIDE DEF N, P
  <2>2. IsFiniteSet(P) /\ IsFiniteSet(N)
    BY <1>3, <1>7 DEF P
  <2>3. Cardinality(P \cup N) = Cardinality(P) + Cardinality(N) - Cardinality(P \cap N)
    BY <2>2, FS_Union
  <2>4. QED
    BY <1>2, <1>3, <1>7, <2>1, <2>3 DEF P
<1>9. Places(D, g) = Places(D, h) \cup N
  BY <1>5
<1>10. QED
  BY <1>3, <1>8, <1>9

\* Nobody owns anything.
LEMMA PlacesNone ==
    ASSUME NEW D, NEW h \in [D -> Nat], \A s \in D : h[s] = 0
    PROVE  Cardinality(Places(D, h)) = 0
<1>1. Places(D, h) = {}
  <2>1. ASSUME NEW p, p \in Places(D, h) PROVE FALSE
    <3>0. PICK s \in D : \E k \in 1 .. h[s] : p = <<s, k>>
      BY <2>1, PlacesMember
    <3>1. PICK k \in 1 .. h[s] : p = <<s, k>>
      BY <3>0
    <3>2. h[s] = 0
      OBVIOUS
    <3>3. QED
      BY <3>2
  <2>2. QED
    BY <2>1
<1>2. QED
  BY <1>1, FS_EmptySet

LEMMA PlacesSome ==
    ASSUME NEW D, IsFiniteSet(D), NEW h \in [D -> Nat], NEW s \in D, h[s] >= 1
    PROVE  Cardinality(Places(D, h)) # 0
<1>1. <<s, 1>> \in Places(D, h)
  <2>1. 1 \in 1 .. h[s]
    OBVIOUS
  <2>2. QED
    BY <2>1, PlacesMember
<1>2. IsFiniteSet(Places(D, h))
  BY PlacesFinite
<1>3. QED
  BY <1>1, <1>2, FS_EmptySet

-----------------------------------------------------------------------------
(***************************************************************************)
(* What a queue contains: some element of P; and no element of D behind an *)
(* element of L.                                                           *)
(***************************************************************************)
Occurs(q, P) == \E i \in 1 .. Len(q) : q[i] \in P

NoneAfter(q, L, D) == \A i, j \in 1 .. Len(q) : i < j /\ q[i] \in L => q[j] \notin D

LEMMA OccursEmpty ==
    \A P, L, D : ~Occurs(<<>>, P) /\ NoneAfter(<<>>, L, D)
<1>1. 1 .. Len(<<>>) = {}
  OBVIOUS
<1>2. QED
  BY <1>1 DEF Occurs, NoneAfter

LEMMA OccursWithin ==
    ASSUME NEW q, NEW P, NEW Q, P \subseteq Q, Occurs(q, P)
    PROVE  Occurs(q, Q)
BY DEF Occurs

LEMMA OccursAppend ==
    ASSUME NEW S, NEW q \in Seq(S), NEW p \in S
    PROVE  /\ \A P : Occurs(Append(q, p), P) <=> Occurs(q, P) \/ p \in P
           /\ \A L, D : NoneAfter(q, L, D) /\ (Occurs(q, L) => p \notin D)
                          => NoneAfter(Append(q, p), L, D)
<1> DEFINE r == Append(q, p)
           n == Len(q)
<1>1. /\ n \in Nat /\ Len(r) = n + 1 /\ r[n + 1] = p
      /\ \A i \in 1 .. n : r[i] = q[i]
  OBVIOUS
<1> HIDE DEF r, n
<1>2. \A i : i \in 1 .. Len(r) <=> i \in 1 .. n \/ i = n + 1
  BY <1>1
<1>3. ASSUME NEW P PROVE Occurs(r, P) <=> Occurs(q, P) \/ p \in P
  BY <1>1, <1>2 DEF Occurs, n
<1>4. ASSUME NEW L, NEW D, NoneAfter(q, L, D), Occurs(q, L) => p \notin D
      PROVE  NoneAfter(r, L, D)
  <2> SUFFICES ASSUME NEW i \in 1 .. Len(r), NEW j \in 1 .. Len(r), i < j, r[i] \in L
               PROVE  r[j] \notin D
    BY DEF NoneAfter
  <2>1. i \in 1 .. n /\ r[i] = q[i]
    BY <1>1, <1>2
  <2>2. CASE j \in 1 .. n
    BY <1>1, <1>4, <2>1, <2>2 DEF NoneAfter, n
  <2>3. CASE j = n + 1
    BY <1>1, <1>4, <2>1, <2>3 DEF Occurs, n
  <2>4. QED
    BY <1>2, <2>2, <2>3
<1>5. QED
  BY <1>3, <1>4 DEF r

LEMMA OccursTail ==
    ASSUME NEW S, NEW q \in Seq(S), q # <<>>
    PROVE  /\ \A P : Occurs(q, P) <=> Head(q) \in P \/ Occurs(Tail(q), P)
           /\ \A L, D : NoneAfter(q, L, D) =>
                /\ NoneAfter(Tail(q), L, D)
                /\ Head(q) \in L => ~Occurs(Tail(q), D)
<1> DEFINE r == Tail(q)
           n == Len(q)
<1>1. /\ n \in Nat \ {0} /\ Len(r) = n - 1 /\ Head(q) = q[1]
      /\ \A i \in 1 .. n - 1 : r[i] = q[i + 1]
  BY HeadTailProperties, EmptySeq
<1> HIDE DEF r, n
<1>2. \A i : i \in 1 .. n <=> i = 1 \/ (i \in Int /\ i - 1 \in 1 .. n - 1)
  BY <1>1
<1>3. ASSUME NEW P PROVE Occurs(q, P) <=> q[1] \in P \/ Occurs(r, P)
  <2>1. ASSUME Occurs(q, P), q[1] \notin P PROVE Occurs(r, P)
    <3>1. PICK i \in 1 .. n : q[i] \in P
      BY <2>1 DEF Occurs, n
    <3>2. i - 1 \in 1 .. n - 1 /\ (i - 1) + 1 = i
      BY <1>1, <2>1, <3>1
    <3>3. r[i - 1] = q[(i - 1) + 1]
      BY <1>1, <3>2
    <3>4. r[i - 1] \in P
      BY <3>1, <3>2, <3>3
    <3>5. QED
      BY <1>1, <3>2, <3>4 DEF Occurs
  <2>2. ASSUME Occurs(r, P) PROVE Occurs(q, P)
    <3>1. PICK i \in 1 .. n - 1 : r[i] \in P
      BY <1>1, <2>2 DEF Occurs
    <3>2. i + 1 \in 1 .. n /\ q[i + 1] \in P
      BY <1>1, <3>1
    <3>3. QED
      BY <3>2 DEF Occurs, n
  <2>3. ASSUME q[1] \in P PROVE Occurs(q, P)
    BY <1>1, <2>3 DEF Occurs, n
  <2>4. QED
    BY <2>1, <2>2, <2>3
<1>4. ASSUME NEW L, NEW D, NoneAfter(q, L, D)
      PROVE  NoneAfter(r, L, D) /\ (q[1] \in L => ~Occurs(r, D))
  <2>1. ASSUME NEW i \in 1 .. Len(r), NEW j \in 1 .. Len(r), i < j, r[i] \in L
        PROVE  r[j] \notin D
    <3>1. i + 1 \in 1 .. n /\ j + 1 \in 1 .. n /\ i + 1 < j + 1
      BY <1>1, <2>1
    <3>2. r[i] = q[i + 1] /\ r[j] = q[j + 1]
      BY <1>1
    <3>3. QED
      BY <1>4, <2>1, <3>1, <3>2 DEF NoneAfter, n
  <2>2. ASSUME q[1] \in L, NEW j \in 1 .. Len(r) PROVE r[j] \notin D
    <3>1. 1 \in 1 .. n /\ j + 1 \in 1 .. n /\ 1 < j + 1
      BY <1>1
    <3>2. r[j] = q[j + 1]
      BY <1>1
    <3>3. QED
      BY <1>4, <2>2, <3>1, <3>2 DEF NoneAfter, n
  <2>3. QED
    BY <2>1, <2>2 DEF NoneAfter, Occurs
<1>5. QED
  BY <1>1, <1>3, <1>4 DEF r

LEMMA OccursConcat ==
    ASSUME NEW S, NEW q \in Seq(S), NEW t \in Seq(S)
    PROVE  /\ \A P : Occurs(q \o t, P) <=> Occurs(q, P) \/ Occurs(t, P)
           /\ \A L, D : /\ NoneAfter(q, L, D) /\ NoneAfter(t, L, D)
                        /\ Occurs(q, L) => ~Occurs(t, D)
                        => NoneAfter(q \o t, L, D)
<1> DEFINE r == q \o t
           n == Len(q)
           m == Len(t)
<1>1. /\ n \in Nat /\ m \in Nat /\ Len(r) = n + m
      /\ \A i \in 1 .. n + m : r[i] = IF i <= n THEN q[i] ELSE t[i - n]
  BY ConcatProperties
<1> HIDE DEF r, n, m
<1>2. \A i \in 1 .. Len(r) : \/ i \in 1 .. n /\ r[i] = q[i]
                             \/ i - n \in 1 .. m /\ i > n /\ r[i] = t[i - n]
  BY <1>1
<1>3. ASSUME NEW P PROVE Occurs(r, P) <=> Occurs(q, P) \/ Occurs(t, P)
  <2>1. ASSUME Occurs(r, P) PROVE Occurs(q, P) \/ Occurs(t, P)
    BY <1>2, <2>1 DEF Occurs, n, m
  <2>2. ASSUME Occurs(q, P) PROVE Occurs(r, P)
    <3>1. PICK i \in 1 .. n : q[i] \in P
      BY <2>2 DEF Occurs, n
    <3>2. i \in 1 .. Len(r) /\ r[i] = q[i]
      BY <1>1
    <3>3. QED
      BY <3>1, <3>2 DEF Occurs
  <2>3. ASSUME Occurs(t, P) PROVE Occurs(r, P)
    <3>1. PICK i \in 1 .. m : t[i] \in P
      BY <2>3 DEF Occurs, m
    <3>2. /\ i + n \in 1 .. n + m /\ (i + n) - n = i /\ ~(i + n <= n)
      BY <1>1
    <3>3. r[i + n] = t[(i + n) - n]
      BY <1>1, <3>2
    <3>4. r[i + n] \in P
      BY <3>1, <3>2, <3>3
    <3>5. QED
      BY <1>1, <3>2, <3>4 DEF Occurs
  <2>4. QED
    BY <2>1, <2>2, <2>3
<1>4. ASSUME NEW L, NEW D, NoneAfter(q, L, D), NoneAfter(t, L, D),
             Occurs(q, L) => ~Occurs(t, D)
      PROVE  NoneAfter(r, L, D)
  <2> SUFFICES ASSUME NEW i \in 1 .. Len(r), NEW j \in 1 .. Len(r), i < j, r[i] \in L
               PROVE  r[j] \notin D
    BY DEF NoneAfter
  <2>1. CASE i \in 1 .. n /\ r[i] = q[i] /\ j \in 1 .. n /\ r[j] = q[j]
    BY <1>4, <2>1 DEF NoneAfter, n
  <2>2. CASE i \in 1 .. n /\ r[i] = q[i] /\ j - n \in 1 .. m /\ r[j] = t[j - n]
    BY <1>4, <2>2 DEF Occurs, n, m
  <2>3. CASE i - n \in 1 .. m /\ r[i] = t[i - n] /\ j - n \in 1 .. m /\ r[j] = t[j - n]
    <3>1. i - n < j - n
      BY <1>1
    <3>2. QED
      BY <1>4, <2>3, <3>1 DEF NoneAfter, m
  <2>4. QED
    BY <1>1, <1>2, <2>1, <2>2, <2>3
<1>5. QED
  BY <1>3, <1>4 DEF r

-----------------------------------------------------------------------------
\* Two finite sets are equally large if each element of one stands for
\* exactly one of the other.
LEMMA SameCount ==
    ASSUME NEW A, IsFiniteSet(A), NEW B, NEW f \in [A -> B],
           \A j, k \in A : f[j] = f[k] => j = k,
           \A b \in B : \E j \in A : f[j] = b
    PROVE  IsFiniteSet(B) /\ Cardinality(B) = Cardinality(A) /\ Cardinality(B) \in Nat
<1>1. f \in Bijection(A, B)
  BY DEF Bijection, Injection, Surjection, IsInjective
<1>2. ExistsBijection(A, B)
  BY <1>1 DEF ExistsBijection
<1>3. QED
  BY <1>2, FS_Bijection, FS_CardinalityType

-----------------------------------------------------------------------------
(***************************************************************************)
(* Loops                                                                   *)
(***************************************************************************)

\* Induction over the iterations of a loop: what holds before the first and
\* is kept by each holds before and after every one.
LEMMA Iterating ==
    ASSUME NEW N \in Nat, NEW T, 0 \in T,
           \A n \in 0 .. N - 1 : n \in T => n + 1 \in T
    PROVE  0 .. N \subseteq T
<1> DEFINE S == (0 .. N) \ T
<1>1. ASSUME S # {} PROVE FALSE
  <2>1. S \in SUBSET Nat
    OBVIOUS
  <2>2. PICK n \in S : \A m \in S : n <= m
    BY <1>1, <2>1, LeastElement
  <2>3. n \in 0 .. N /\ n \notin T /\ n # 0
    OBVIOUS
  <2>4. n - 1 \in 0 .. N - 1 /\ n - 1 \in T
    BY <2>2, <2>3
  <2>5. QED
    BY <2>3, <2>4
<1>2. QED
  BY <1>1

\* A loop of N iterations, of which number i maps a state as F[i] does, runs
\* through the states f[0], f[1], ..., f[N].
Runs(f, N, b0, F) == f[0] = b0 /\ \A i \in 1 .. N : f[i] = F[i - 1][f[i - 1]]

\* Such a run exists if every iteration keeps the type B of the states.
LEMMA LoopStates ==
    ASSUME NEW N \in Nat, NEW B, NEW b0 \in B, NEW F \in [0 .. N - 1 -> [B -> B]]
    PROVE  \E f \in [0 .. N -> B] : Runs(f, N, b0, F)
<1> DEFINE Good(f, n) == f[0] = b0 /\ \A i \in 1 .. n : f[i] = F[i - 1][f[i - 1]]
           T == {n \in Nat : \E f \in [0 .. n -> B] : Good(f, n)}
<1>1. 0 \in T
  <2>1. [i \in 0 .. 0 |-> b0] \in [0 .. 0 -> B] /\ Good([i \in 0 .. 0 |-> b0], 0)
    OBVIOUS
  <2>2. QED
    BY <2>1
<1>2. ASSUME NEW n \in 0 .. N - 1, n \in T
      PROVE  n + 1 \in T
  <2>1. PICK f \in [0 .. n -> B] : Good(f, n)
    BY <1>2
  <2> DEFINE g == [i \in 0 .. n + 1 |-> IF i <= n THEN f[i] ELSE F[n][f[n]]]
  <2>2. F[n][f[n]] \in B
    OBVIOUS
  <2>3. g \in [0 .. n + 1 -> B]
    BY <2>2
  <2>4. g[0] = b0
    BY <2>1
  <2>5. ASSUME NEW i \in 1 .. n + 1 PROVE g[i] = F[i - 1][g[i - 1]]
    <3>1. CASE i <= n
      BY <2>1, <3>1
    <3>2. CASE i = n + 1
      BY <3>2
    <3>3. QED
      BY <3>1, <3>2
  <2> HIDE DEF g
  <2>6. Good(g, n + 1)
    BY <2>4, <2>5
  <2> HIDE DEF Good
  <2>7. n + 1 \in Nat
    OBVIOUS
  <2>8. QED
    BY <2>3, <2>6, <2>7
<1> HIDE DEF T
<1>3. 0 .. N \subseteq T
  BY <1>1, <1>2, Iterating
<1>4. N \in T
  BY <1>3
<1>5. QED
  BY <1>4 DEF T, Runs
=============================================================================
