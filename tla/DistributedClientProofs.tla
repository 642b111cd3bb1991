----------------------- MODULE DistributedClientProofs -----------------------
(***************************************************************************)
(* Proofs about ConsistentHash and DistributedClient: a lookup finds the   *)
(* next point of the ring; the invariants of the distributed client; and   *)
(* that a request changes its client only with the client's server.  For   *)
(* every number of servers, clients, callers and messages, every number    *)
(* and size of buckets, every number of points and every hash function.    *)
(***************************************************************************)
EXTENDS DistributedClient, FiniteSetTheorems, CommonFacts, TLAPS

(***************************************************************************)
(* The ring: what adding and removing a server do to its points,           *)
(* collisions included, and that a lookup finds the next point.            *)
(***************************************************************************)

(***************************************************************************)
(* What the lists are like                                                 *)
(***************************************************************************)
BucketLists == [Buckets -> Seq(RingEntries)]

Ascending(s) ==
    \A i, j \in 1 .. Len(s) : i < j => s[i].key <= s[j].key

\* Every bucket is sorted and has only entries that belong there.
RingOK(bs) ==
    /\ bs \in BucketLists
    /\ \A n \in Buckets :
         /\ Ascending(bs[n])
         /\ \A j \in 1 .. Len(bs[n]) : GetBucketNum(bs[n][j].key) = n

\* Entries, for any lists
EntriesOf(bs) == UNION {ToSet(bs[n]) : n \in Buckets}

\* how often a key occurs, in a list and on the ring
Copies(s, x) == {j \in 1 .. Len(s) : s[j].key = x}
If1(k, x) == IF k = x THEN 1 ELSE 0
HowMany(bs, x) == Cardinality(Copies(bs[GetBucketNum(x)], x))

\* b2 has one entry with this key more than bs and as many with any other.
OneMore(bs, b2, key) ==
    \A x \in Ring : HowMany(b2, x) = HowMany(bs, x) + If1(key, x)

LEMMA BucketNumType ==
    ASSUME NEW key \in Ring
    PROVE  GetBucketNum(key) \in Buckets
BY ConsistentHashAssumption DEF GetBucketNum, Buckets, Ring

LEMMA BucketNumMonotone ==
    ASSUME NEW a \in Ring, NEW b \in Ring, a <= b
    PROVE  GetBucketNum(a) <= GetBucketNum(b)
BY ConsistentHashAssumption DEF GetBucketNum, Ring

\* An entry of a list is an entry with a key of the ring and a value.
LEMMA EntryFields ==
    ASSUME NEW e \in RingEntries
    PROVE  e.key \in Ring /\ e.key \in Int /\ e.value \in Values
BY ConsistentHashAssumption DEF RingEntries, Ring

\* The least element of a non-empty set of numbers is what Min says.
LEMMA MinOf ==
    ASSUME NEW S \in SUBSET Nat, S # {}
    PROVE  Min(S) \in S /\ \A j \in S : Min(S) <= j
<1>1. PICK m \in S : \A j \in S : m <= j
  BY LeastElement
<1>2. QED
  BY <1>1 DEF Min

\* SelectInSeq, told by the places that pass the test
FirstOf(I) == IF I # {} THEN Min(I) ELSE 0
NotSmaller(s, key) == {i \in 1 .. Len(s) : s[i].key >= key}

\* The search of add_entry_with_key and of get_entry: the first entry whose
\* key is not smaller.
LEMMA FirstNotSmaller ==
    ASSUME NEW s \in Seq(RingEntries), NEW key \in Int, NEW at,
           at = FirstOf(NotSmaller(s, key))
    PROVE  /\ at \in 0 .. Len(s)
           /\ at # 0 => /\ s[at].key >= key
                        /\ \A j \in 1 .. at - 1 : s[j].key < key
           /\ at = 0 => \A j \in 1 .. Len(s) : s[j].key < key
<1> DEFINE I == NotSmaller(s, key)
<1>2. Len(s) \in Nat /\ I \in SUBSET (1 .. Len(s)) /\ I \in SUBSET Nat
  BY DEF NotSmaller
<1>3. \A j \in 1 .. Len(s) : s[j] \in RingEntries
  OBVIOUS
<1>4. \A j \in 1 .. Len(s) : s[j].key \in Int
  BY <1>3, EntryFields
<1>5. \A j \in 1 .. Len(s) : j \in I <=> ~(s[j].key < key)
  BY <1>4 DEF NotSmaller
<1>6. CASE I = {}
  <2>1. at = 0
    BY <1>6 DEF FirstOf
  <2>2. QED
    BY <2>1, <1>2, <1>5, <1>6
<1>7. CASE I # {}
  <2>1. at = Min(I)
    BY <1>7 DEF FirstOf
  <2>2. at \in I /\ \A j \in I : at <= j
    BY <1>2, <1>7, <2>1, MinOf
  <2>3. at \in 1 .. Len(s) /\ s[at].key >= key
    BY <2>2 DEF NotSmaller
  <2>4. ASSUME NEW j \in 1 .. at - 1 PROVE s[j].key < key
    <3>1. j \in 1 .. Len(s) /\ ~(at <= j)
      BY <2>3, <1>2
    <3>2. QED
      BY <3>1, <2>2, <1>5
  <2>5. QED
    BY <2>3, <2>4, <1>2
<1>8. QED
  BY <1>6, <1>7

\* The search of remove_entry_with_key: the first entry with the key.
LEMMA FirstWithKey ==
    ASSUME NEW s \in Seq(RingEntries), NEW key, Copies(s, key) # {}
    PROVE  /\ FirstOf(Copies(s, key)) \in 1 .. Len(s)
           /\ s[FirstOf(Copies(s, key))].key = key
<1>1. Copies(s, key) \in SUBSET Nat
  BY DEF Copies
<1>2. Min(Copies(s, key)) \in Copies(s, key)
  BY <1>1, MinOf
<1>3. QED
  BY <1>2 DEF FirstOf, Copies

(***************************************************************************)
(* Putting an entry into a list and taking it out                          *)
(***************************************************************************)

\* s is t with the entry e put in at place i.
PutIn(t, s, i, e) ==
    /\ Len(s) = Len(t) + 1
    /\ i \in 1 .. Len(s)
    /\ s[i] = e
    /\ \A j \in 1 .. i - 1 : s[j] = t[j]
    /\ \A j \in i .. Len(t) : s[j + 1] = t[j]

LEMMA InsertPuts ==
    ASSUME NEW t \in Seq(RingEntries), NEW i \in 1 .. Len(t) + 1, NEW e \in RingEntries
    PROVE  InsertAt(t, i, e) \in Seq(RingEntries) /\ PutIn(t, InsertAt(t, i, e), i, e)
<1> DEFINE n == Len(t)
           a == SubSeq(t, 1, i - 1)
           b == SubSeq(t, i, Len(t))
           s == a \o <<e>> \o b
<1>1. n \in Nat /\ a \in Seq(RingEntries) /\ b \in Seq(RingEntries)
  OBVIOUS
<1>2. Len(a) = i - 1 /\ Len(b) = n - i + 1
  OBVIOUS
<1>3. /\ \A j \in 1 .. i - 1 : a[j] = t[j]
      /\ \A j \in 1 .. n - i + 1 : b[j] = t[i + j - 1]
  OBVIOUS
<1> HIDE DEF a, b
<1>4. s \in Seq(RingEntries) /\ Len(s) = n + 1
  BY <1>1, <1>2
<1>5. \A j \in 1 .. i - 1 : s[j] = a[j]
  BY <1>1, <1>2
<1>9. s[i] = e
  BY <1>1, <1>2
<1>6. ASSUME NEW j \in i .. n PROVE s[j + 1] = t[j]
  <2>1. s[j + 1] = b[j - i + 1]
    BY <1>1, <1>2
  <2>2. j - i + 1 \in 1 .. n - i + 1 /\ i + (j - i + 1) - 1 = j
    BY <1>1
  <2>3. QED
    BY <2>1, <2>2, <1>3
<1>7. InsertAt(t, i, e) = s
  BY DEF InsertAt, a, b
<1>8. QED
  BY <1>1, <1>3, <1>4, <1>5, <1>6, <1>7, <1>9 DEF PutIn

LEMMA RemoveTakes ==
    ASSUME NEW s \in Seq(RingEntries), NEW i \in 1 .. Len(s)
    PROVE  RemoveAt(s, i) \in Seq(RingEntries) /\ PutIn(RemoveAt(s, i), s, i, s[i])
<1> DEFINE n == Len(s)
           a == SubSeq(s, 1, i - 1)
           b == SubSeq(s, i + 1, Len(s))
           t == a \o b
<1>1. n \in Nat /\ a \in Seq(RingEntries) /\ b \in Seq(RingEntries)
  OBVIOUS
<1>2. Len(a) = i - 1 /\ Len(b) = n - i
  OBVIOUS
<1>3. /\ \A j \in 1 .. i - 1 : a[j] = s[j]
      /\ \A j \in 1 .. n - i : b[j] = s[i + j]
  OBVIOUS
<1> HIDE DEF a, b
<1>4. t \in Seq(RingEntries) /\ Len(t) = n - 1
  BY <1>1, <1>2
<1>5. \A j \in 1 .. i - 1 : t[j] = a[j]
  BY <1>1, <1>2
<1>6. ASSUME NEW j \in i .. n - 1 PROVE s[j + 1] = t[j]
  <2>1. t[j] = b[j - i + 1]
    BY <1>1, <1>2
  <2>2. j - i + 1 \in 1 .. n - i /\ i + (j - i + 1) = j + 1
    BY <1>1
  <2>3. QED
    BY <2>1, <2>2, <1>3
<1>7. RemoveAt(s, i) = t
  BY DEF RemoveAt, a, b
<1> HIDE DEF t
<1>8. PutIn(t, s, i, s[i])
  BY <1>1, <1>3, <1>4, <1>5, <1>6 DEF PutIn
<1>9. QED
  BY <1>4, <1>7, <1>8

\* What putting an entry in does to the content of a list.
LEMMA PutInContent ==
    ASSUME NEW t \in Seq(RingEntries), NEW s \in Seq(RingEntries), NEW i, NEW e,
           PutIn(t, s, i, e)
    PROVE  /\ ToSet(s) = ToSet(t) \cup {e}
           /\ \A x : Cardinality(Copies(s, x))
                       = Cardinality(Copies(t, x)) + If1(e.key, x)
<1> DEFINE n == Len(t)
           up == [j \in 1 .. n |-> IF j < i THEN j ELSE j + 1]
<1>1. n \in Nat /\ Len(s) = n + 1 /\ i \in 1 .. n + 1 /\ s[i] = e
  BY DEF PutIn
<1>2. ASSUME NEW j \in 1 .. n
      PROVE  up[j] \in (1 .. n + 1) \ {i} /\ s[up[j]] = t[j]
  BY <1>1 DEF PutIn
<1>3. ASSUME NEW m \in (1 .. n + 1) \ {i}
      PROVE  \E j \in 1 .. n : up[j] = m
  <2>1. CASE m < i
    BY <1>1, <2>1
  <2>2. CASE m > i
    <3>1. m - 1 \in 1 .. n /\ up[m - 1] = m
      BY <1>1, <2>2
    <3>2. QED
      BY <3>1
  <2>3. QED
    BY <1>1, <2>1, <2>2
<1>4. \A j, k \in 1 .. n : up[j] = up[k] => j = k
  BY <1>1
<1> HIDE DEF up
<1>5. ToSet(s) = ToSet(t) \cup {e}
  <2>1. DOMAIN s = 1 .. n + 1 /\ DOMAIN t = 1 .. n
    BY <1>1
  <2>2. ASSUME NEW j \in 1 .. n + 1 PROVE s[j] \in ToSet(t) \cup {e}
    BY <1>1, <1>2, <1>3, <2>1 DEF ToSet
  <2>3. ASSUME NEW j \in 1 .. n PROVE t[j] \in ToSet(s)
    BY <1>1, <1>2, <2>1 DEF ToSet
  <2>4. e \in ToSet(s)
    BY <1>1, <2>1 DEF ToSet
  <2>5. QED
    BY <2>1, <2>2, <2>3, <2>4 DEF ToSet
<1>6. ASSUME NEW x
      PROVE  Cardinality(Copies(s, x))
               = Cardinality(Copies(t, x)) + If1(e.key, x)
  <2> DEFINE A == Copies(t, x)
             B == Copies(s, x) \ {i}
             f == [j \in A |-> up[j]]
  <2>1. A \subseteq 1 .. n /\ Copies(s, x) \subseteq 1 .. n + 1
    BY <1>1 DEF Copies
  <2>2. IsFiniteSet(1 .. n) /\ IsFiniteSet(1 .. n + 1)
    BY <1>1, FS_Interval
  <2>3. IsFiniteSet(A) /\ IsFiniteSet(B)
    BY <2>1, <2>2, FS_Subset
  <2>4. \A j \in A : f[j] \in B
    BY <1>1, <1>2, <2>1 DEF Copies
  <2>9. \A m \in B : \E j \in A : f[j] = m
    BY <1>1, <1>2, <1>3, <2>1 DEF Copies
  <2>10. \A j, k \in A : f[j] = f[k] => j = k
    BY <1>4, <2>1
  <2>11. f \in [A -> B]
    BY <2>4
  <2> HIDE DEF f, A, B
  <2>5. Cardinality(A) = Cardinality(B) /\ Cardinality(B) \in Nat
    BY <2>3, <2>9, <2>10, <2>11, SameCount
  <2>6. CASE e.key = x
    <3>1. Copies(s, x) = B \cup {i} /\ i \notin B
      BY <1>1, <2>6 DEF Copies, B
    <3>2. Cardinality(B \cup {i}) = Cardinality(B) + 1
      BY <2>3, <3>1, FS_AddElement
    <3>3. QED
      BY <2>5, <2>6, <3>1, <3>2 DEF A, If1
  <2>7. CASE e.key # x
    <3>1. Copies(s, x) = B
      BY <1>1, <2>7 DEF Copies, B
    <3>2. QED
      BY <2>5, <2>7, <3>1 DEF A, If1
  <2>8. QED
    BY <2>6, <2>7
<1>7. QED
  BY <1>5, <1>6

\* Taking an entry out leaves a list sorted; putting one in does if it comes
\* after the smaller keys and before the others.
LEMMA PutInOrder ==
    ASSUME NEW t \in Seq(RingEntries), NEW s \in Seq(RingEntries), NEW i, NEW e \in RingEntries,
           PutIn(t, s, i, e)
    PROVE  /\ Ascending(s) => Ascending(t)
           /\ (/\ Ascending(t)
               /\ \A j \in 1 .. i - 1 : t[j].key <= e.key
               /\ \A j \in i .. Len(t) : e.key <= t[j].key) => Ascending(s)
<1> DEFINE n == Len(t)
<1>1. n \in Nat /\ Len(s) = n + 1 /\ i \in 1 .. n + 1 /\ s[i] = e
  BY DEF PutIn
<1>5. \A j \in 1 .. n : j < i => t[j] = s[j]
  <2>1. \A j \in 1 .. i - 1 : s[j] = t[j]
    BY Zenon DEF PutIn
  <2> QED
    BY <1>1, <2>1
<1>6. \A j \in 1 .. n : j >= i => t[j] = s[j + 1]
  <2>1. \A j \in i .. n : s[j + 1] = t[j]
    BY Zenon DEF PutIn
  <2> HIDE DEF n
  <2> QED
    BY <1>1, <2>1
<1>7. /\ Ascending(t) <=> \A j, k \in 1 .. n : j < k => t[j].key <= t[k].key
      /\ Ascending(s) <=> \A j, k \in 1 .. n + 1 : j < k => s[j].key <= s[k].key
  BY <1>1, Zenon DEF Ascending
<1> HIDE DEF n
<1>2. ASSUME Ascending(s), NEW j \in 1 .. n, NEW k \in 1 .. n, j < k
      PROVE  t[j].key <= t[k].key
  <2>5. \A x, y \in 1 .. n + 1 : x < y => s[x].key <= s[y].key
    BY <1>2, <1>7, Zenon
  <2>6. j \in Int /\ k \in Int /\ i \in Int /\ n \in Nat /\ 1 <= j /\ j < k /\ k <= n
    BY <1>1, <1>2
  <2>1. CASE k < i
    <3>1. t[j] = s[j] /\ t[k] = s[k]
      BY <1>5, <2>1, <2>6
    <3>2. j \in 1 .. n + 1 /\ k \in 1 .. n + 1 /\ j < k
      BY <2>6
    <3>3. QED
      BY <2>5, <3>1, <3>2, Zenon
  <2>2. CASE j < i /\ k >= i
    <3>1. t[j] = s[j] /\ t[k] = s[k + 1]
      BY <1>6, <1>5, <2>2, Zenon
    <3>2. j \in 1 .. n + 1 /\ k + 1 \in 1 .. n + 1 /\ j < k + 1
      BY <2>6
    <3>3. QED
      BY <2>5, <3>1, <3>2, Zenon
  <2>3. CASE j >= i
    <3>9. k >= i
      BY <2>6, <2>3
    <3>1. t[j] = s[j + 1] /\ t[k] = s[k + 1]
      BY <1>6, <2>3, <3>9, Zenon
    <3>2. j + 1 \in 1 .. n + 1 /\ k + 1 \in 1 .. n + 1 /\ j + 1 < k + 1
      BY <2>6
    <3>3. QED
      BY <2>5, <3>1, <3>2, Zenon
  <2>4. QED
    BY <2>6, <2>1, <2>2, <2>3
<1>3. ASSUME Ascending(t),
             \A j \in 1 .. i - 1 : t[j].key <= e.key,
             \A j \in i .. n : e.key <= t[j].key,
             NEW j \in 1 .. n + 1, NEW k \in 1 .. n + 1, j < k
      PROVE  s[j].key <= s[k].key
  <2>5. \A x, y \in 1 .. n : x < y => t[x].key <= t[y].key
    BY <1>3, <1>7, Zenon
  <2>6. j \in Int /\ k \in Int /\ i \in Int /\ n \in Nat /\ 1 <= j /\ j < k /\ k <= n + 1
        /\ 1 <= i /\ i <= n + 1
    BY <1>1, <1>3
  <2>1. CASE k < i
    <3>1. j \in 1 .. n /\ k \in 1 .. n /\ j < i
      BY <2>6, <2>1
    <3>2. t[j] = s[j] /\ t[k] = s[k]
      BY <1>5, <2>1, <3>1, Zenon
    <3> QED
      BY <2>5, <2>6, <3>1, <3>2, Zenon
  <2>2. CASE k = i
    <3>1. j \in 1 .. n /\ j \in 1 .. i - 1 /\ j < i
      BY <2>6, <2>2
    <3>2. t[j] = s[j]
      BY <1>5, <3>1, Zenon
    <3> QED
      BY <1>1, <1>3, <2>2, <3>1, <3>2, Zenon
  <2>3. CASE k > i
    <3>9. k - 1 \in 1 .. n /\ k - 1 \in i .. n /\ k - 1 >= i /\ (k - 1) + 1 = k
      BY <2>6, <2>3
    <3>1. s[k] = t[k - 1]
      BY <1>6, <3>9, Zenon
    <3>2. CASE j < i
      <4>1. j \in 1 .. n /\ j < k - 1
        BY <2>6, <2>3, <3>2
      <4>2. s[j] = t[j]
        BY <1>5, <3>2, <4>1, Zenon
      <4>3. QED
        BY <2>5, <3>9, <3>1, <4>1, <4>2, Zenon
    <3>3. CASE j = i
      BY <1>1, <1>3, <3>9, <3>1, <3>3, Zenon
    <3>4. CASE j > i
      <4>1. j - 1 \in 1 .. n /\ j - 1 >= i /\ (j - 1) + 1 = j /\ j - 1 < k - 1
        BY <2>6, <3>4
      <4>2. s[j] = t[j - 1]
        BY <1>6, <4>1, Zenon
      <4>4. QED
        BY <2>5, <3>9, <3>1, <4>1, <4>2, Zenon
    <3>5. QED
      BY <2>6, <3>2, <3>3, <3>4
  <2>4. QED
    BY <2>6, <2>1, <2>2, <2>3
<1>4. QED
  BY <1>7, <1>2, <1>3 DEF n

(***************************************************************************)
(* Putting a point on the ring and taking it off                           *)
(***************************************************************************)

LEMMA CopiesCount ==
    ASSUME NEW s \in Seq(RingEntries), NEW x
    PROVE  /\ Cardinality(Copies(s, x)) \in Nat
           /\ Cardinality(Copies(s, x)) = 0 <=> Copies(s, x) = {}
<1>1. IsFiniteSet(1 .. Len(s))
  BY FS_Interval
<1>2. IsFiniteSet(Copies(s, x))
  BY <1>1, FS_Subset DEF Copies
<1>3. QED
  BY <1>2, FS_CardinalityType, FS_EmptySet

LEMMA BucketType ==
    ASSUME NEW bs, RingOK(bs), NEW n \in Buckets
    PROVE  /\ bs[n] \in Seq(RingEntries) /\ Ascending(bs[n]) /\ Len(bs[n]) \in Nat
           /\ \A j \in 1 .. Len(bs[n]) :
                bs[n][j] \in RingEntries /\ GetBucketNum(bs[n][j].key) = n
BY DEF RingOK, BucketLists

\* An entry of the ring is in the bucket of its key.
LEMMA EntryPlace ==
    ASSUME NEW bs, RingOK(bs), NEW e
    PROVE  e \in EntriesOf(bs) <=>
             \E n \in Buckets : \E j \in 1 .. Len(bs[n]) : e = bs[n][j]
<1>1. \A n \in Buckets : DOMAIN bs[n] = 1 .. Len(bs[n])
  BY BucketType
<1>2. QED
  BY <1>1 DEF EntriesOf, ToSet

LEMMA EntryTypes ==
    ASSUME NEW bs, RingOK(bs), NEW e \in EntriesOf(bs)
    PROVE  e \in RingEntries /\ e.key \in Ring /\ e.value \in Values
<1>1. e \in RingEntries
  BY EntryPlace, BucketType
<1>2. QED
  BY <1>1, EntryFields

\* A key occurs on the ring if and only if an entry has it.
LEMMA HowManyEntries ==
    ASSUME NEW bs, RingOK(bs), NEW x \in Ring
    PROVE  /\ HowMany(bs, x) \in Nat
           /\ HowMany(bs, x) # 0 <=> \E e \in EntriesOf(bs) : e.key = x
<1> DEFINE n == GetBucketNum(x)
<1>1. n \in Buckets
  BY BucketNumType
<1>2. bs[n] \in Seq(RingEntries)
  BY <1>1, BucketType
<1>3. HowMany(bs, x) \in Nat /\ (HowMany(bs, x) = 0 <=> Copies(bs[n], x) = {})
  BY <1>2, CopiesCount DEF HowMany
<1>4. ASSUME NEW e \in EntriesOf(bs), e.key = x PROVE Copies(bs[n], x) # {}
  <2>1. PICK m \in Buckets : \E j \in 1 .. Len(bs[m]) : e = bs[m][j]
    BY EntryPlace
  <2>2. PICK j \in 1 .. Len(bs[m]) : e = bs[m][j]
    BY <2>1
  <2>3. m = n
    BY <2>2, <1>4, BucketType
  <2>4. QED
    BY <2>2, <2>3, <1>4 DEF Copies
<1>5. ASSUME Copies(bs[n], x) # {} PROVE \E e \in EntriesOf(bs) : e.key = x
  <2>1. PICK j \in 1 .. Len(bs[n]) : bs[n][j].key = x
    BY <1>5 DEF Copies
  <2>2. bs[n][j] \in EntriesOf(bs)
    BY <1>1, EntryPlace
  <2>3. QED
    BY <2>1, <2>2
<1>6. QED
  BY <1>3, <1>4, <1>5

LEMMA BucketGrows ==
    ASSUME NEW bs, RingOK(bs), NEW e \in RingEntries, NEW n, n = GetBucketNum(e.key),
           NEW s \in Seq(RingEntries), NEW i, PutIn(bs[n], s, i, e), Ascending(s),
           NEW b2 \in BucketLists, b2[n] = s, \A m \in Buckets \ {n} : b2[m] = bs[m]
    PROVE  /\ RingOK(b2)
           /\ EntriesOf(b2) = EntriesOf(bs) \cup {e}
           /\ OneMore(bs, b2, e.key)
<1>1. n \in Buckets
  BY EntryFields, BucketNumType
<1>2. b2[n] = s
  OBVIOUS
<1>3. \A m \in Buckets \ {n} : b2[m] = bs[m]
  OBVIOUS
<1>4. bs[n] \in Seq(RingEntries)
  BY <1>1, BucketType
<1>5. /\ ToSet(s) = ToSet(bs[n]) \cup {e}
      /\ \A x : Cardinality(Copies(s, x))
                  = Cardinality(Copies(bs[n], x)) + If1(e.key, x)
  BY <1>4, PutInContent
<1>6. ASSUME NEW j \in 1 .. Len(s) PROVE GetBucketNum(s[j].key) = n
  <2>1. s[j] \in ToSet(s)
    BY DEF ToSet
  <2>2. CASE s[j] = e
    BY <2>2
  <2>3. CASE s[j] \in ToSet(bs[n])
    <3>1. DOMAIN bs[n] = 1 .. Len(bs[n])
      BY <1>4
    <3>2. PICK k \in 1 .. Len(bs[n]) : s[j] = bs[n][k]
      BY <2>3, <3>1 DEF ToSet
    <3>3. QED
      BY <3>2, <1>1, BucketType
  <2>4. QED
    BY <2>1, <2>2, <2>3, <1>5
<1>7. RingOK(b2)
  <2>1. ASSUME NEW m \in Buckets
        PROVE  /\ Ascending(b2[m])
               /\ \A j \in 1 .. Len(b2[m]) : GetBucketNum(b2[m][j].key) = m
    <3>1. CASE m = n
      BY <3>1, <1>2, <1>6
    <3>2. CASE m # n
      BY <3>2, <1>3, BucketType
    <3>3. QED
      BY <3>1, <3>2
  <2>2. QED
    BY <2>1, <1>2 DEF RingOK
<1>8. EntriesOf(b2) = EntriesOf(bs) \cup {e}
  <2>1. ASSUME NEW m \in Buckets PROVE ToSet(b2[m]) \subseteq EntriesOf(bs) \cup {e}
    BY <1>1, <1>2, <1>3, <1>5 DEF EntriesOf
  <2>2. ASSUME NEW m \in Buckets PROVE ToSet(bs[m]) \subseteq EntriesOf(b2)
    BY <1>1, <1>2, <1>3, <1>5 DEF EntriesOf
  <2>3. e \in EntriesOf(b2)
    BY <1>1, <1>2, <1>5 DEF EntriesOf
  <2>4. QED
    BY <2>1, <2>2, <2>3 DEF EntriesOf
<1>9. ASSUME NEW x \in Ring
      PROVE  HowMany(b2, x) = HowMany(bs, x) + If1(e.key, x)
  <2>1. CASE GetBucketNum(x) = n
    BY <2>1, <1>2, <1>5 DEF HowMany
  <2>2. CASE GetBucketNum(x) # n
    <3>1. e.key # x /\ GetBucketNum(x) \in Buckets
      BY <2>2, BucketNumType
    <3>2. HowMany(b2, x) = HowMany(bs, x) /\ HowMany(bs, x) \in Nat
      BY <2>2, <3>1, <1>3, HowManyEntries DEF HowMany
    <3>3. QED
      BY <3>1, <3>2 DEF If1
  <2>3. QED
    BY <2>1, <2>2
<1>10. QED
  BY <1>7, <1>8, <1>9 DEF OneMore

\* add_entry_with_key keeps the ring in order and adds one entry.
LEMMA AddOne ==
    ASSUME NEW bs, RingOK(bs), NEW key \in Ring, NEW value \in Values, NEW b2,
           b2 = AddEntryWithKey(bs, key, value)
    PROVE  /\ RingOK(b2)
           /\ EntriesOf(b2) = EntriesOf(bs) \cup {[key |-> key, value |-> value]}
           /\ OneMore(bs, b2, key)
<1> DEFINE e == [key |-> key, value |-> value]
           n == GetBucketNum(key)
           t == bs[n]
           at == FirstOf(NotSmaller(t, key))
           i == IF at = 0 THEN Len(t) + 1 ELSE at
           s == InsertAt(t, i, e)
<1>1. e \in RingEntries /\ e.key = key
  BY DEF RingEntries
<1>2. n \in Buckets /\ t \in Seq(RingEntries) /\ Ascending(t) /\ Len(t) \in Nat
  BY BucketNumType, BucketType
<1>3. key \in Int
  BY ConsistentHashAssumption DEF Ring
<1>4. /\ at \in 0 .. Len(t)
      /\ at # 0 => t[at].key >= key /\ \A j \in 1 .. at - 1 : t[j].key < key
      /\ at = 0 => \A j \in 1 .. Len(t) : t[j].key < key
  BY <1>2, <1>3, FirstNotSmaller
<1>5. b2 = [bs EXCEPT ![n] = s]
  BY DEF AddEntryWithKey, SelectInSeq, FirstOf, NotSmaller
<1>6. \A j \in 1 .. Len(t) : t[j].key \in Int
  BY <1>2, BucketType, EntryFields
<1> HIDE DEF e, n, t, at
<1>7. i \in 1 .. Len(t) + 1
  BY <1>2, <1>4
<1>8. /\ \A j \in 1 .. i - 1 : t[j].key <= key
      /\ \A j \in i .. Len(t) : key <= t[j].key
  <2>1. CASE at = 0
    BY <2>1, <1>2, <1>3, <1>4, <1>6
  <2>2. CASE at # 0
    <3>1. \A j \in 1 .. at - 1 : t[j].key <= key
      BY <2>2, <1>2, <1>3, <1>4, <1>6
    <3>2. ASSUME NEW j \in at .. Len(t) PROVE key <= t[j].key
      <4>1. j \in 1 .. Len(t) /\ at \in 1 .. Len(t) /\ (at < j \/ at = j)
        BY <2>2, <1>2, <1>4
      <4>2. t[at].key <= t[j].key
        BY <4>1, <1>2, <1>6 DEF Ascending
      <4>3. QED
        BY <2>2, <1>3, <1>4, <1>6, <4>1, <4>2
    <3>3. QED
      BY <2>2, <3>1, <3>2
  <2>3. QED
    BY <2>1, <2>2
<1> HIDE DEF i
<1>9. s \in Seq(RingEntries) /\ PutIn(t, s, i, e)
  BY <1>1, <1>2, <1>7, InsertPuts
<1> HIDE DEF s
<1>10. Ascending(s)
  BY <1>1, <1>2, <1>8, <1>9, PutInOrder
<1>11. n = GetBucketNum(e.key)
  BY <1>1 DEF n
<1>14. PutIn(bs[n], s, i, e)
  BY <1>9 DEF t
<1>15. bs \in BucketLists /\ n \in Buckets
  BY <1>2 DEF RingOK
<1>16. b2 \in BucketLists /\ b2[n] = s /\ \A m \in Buckets \ {n} : b2[m] = bs[m]
  BY <1>5, <1>9, <1>15 DEF BucketLists
<1>12. /\ RingOK(b2)
       /\ EntriesOf(b2) = EntriesOf(bs) \cup {e}
       /\ OneMore(bs, b2, e.key)
  <2>1. e \in RingEntries /\ s \in Seq(RingEntries)
    BY <1>1, <1>9
  <2>2. QED
    BY <2>1, <1>10, <1>11, <1>14, <1>16, BucketGrows
<1>13. QED
  BY <1>1, <1>12 DEF e

LEMMA BucketShrinks ==
    ASSUME NEW bs, RingOK(bs), NEW e \in RingEntries, NEW n, n = GetBucketNum(e.key),
           NEW s \in Seq(RingEntries), NEW i, PutIn(s, bs[n], i, e),
           NEW b2 \in BucketLists, b2[n] = s, \A m \in Buckets \ {n} : b2[m] = bs[m]
    PROVE  /\ RingOK(b2)
           /\ EntriesOf(b2) \subseteq EntriesOf(bs)
           /\ OneMore(b2, bs, e.key)
<1>1. n \in Buckets
  BY EntryFields, BucketNumType
<1>2. b2[n] = s
  OBVIOUS
<1>3. \A m \in Buckets \ {n} : b2[m] = bs[m]
  OBVIOUS
<1>4. bs[n] \in Seq(RingEntries) /\ Ascending(bs[n])
  BY <1>1, BucketType
<1>5. /\ ToSet(bs[n]) = ToSet(s) \cup {e}
      /\ \A x : Cardinality(Copies(bs[n], x))
                  = Cardinality(Copies(s, x)) + If1(e.key, x)
  BY <1>4, PutInContent
<1>6. ASSUME NEW j \in 1 .. Len(s) PROVE GetBucketNum(s[j].key) = n
  <2>1. s[j] \in ToSet(s)
    BY DEF ToSet
  <2>2. DOMAIN bs[n] = 1 .. Len(bs[n])
    BY <1>4
  <2>5. s[j] \in ToSet(bs[n])
    BY <2>1, <1>5
  <2>3. PICK k \in 1 .. Len(bs[n]) : s[j] = bs[n][k]
    BY <2>2, <2>5 DEF ToSet
  <2>4. QED
    BY <2>3, <1>1, BucketType
<1>7. RingOK(b2)
  <2>1. Ascending(s)
    BY <1>4, PutInOrder
  <2>2. ASSUME NEW m \in Buckets
        PROVE  /\ Ascending(b2[m])
               /\ \A j \in 1 .. Len(b2[m]) : GetBucketNum(b2[m][j].key) = m
    <3>1. CASE m = n
      BY <3>1, <1>2, <1>6, <2>1
    <3>2. CASE m # n
      BY <3>2, <1>3, BucketType
    <3>3. QED
      BY <3>1, <3>2
  <2>3. QED
    BY <2>2, <1>2 DEF RingOK
<1>8. EntriesOf(b2) \subseteq EntriesOf(bs)
  <2>1. ASSUME NEW m \in Buckets PROVE ToSet(b2[m]) \subseteq EntriesOf(bs)
    BY <1>1, <1>2, <1>3, <1>5 DEF EntriesOf
  <2>2. QED
    BY <2>1 DEF EntriesOf
<1>9. ASSUME NEW x \in Ring
      PROVE  HowMany(bs, x) = HowMany(b2, x) + If1(e.key, x)
  <2>1. CASE GetBucketNum(x) = n
    <3>1. Cardinality(Copies(s, x)) \in Nat
      BY CopiesCount
    <3>2. QED
      BY <2>1, <3>1, <1>2, <1>5 DEF HowMany, If1
  <2>2. CASE GetBucketNum(x) # n
    <3>1. e.key # x /\ GetBucketNum(x) \in Buckets
      BY <2>2, BucketNumType
    <3>2. HowMany(b2, x) = HowMany(bs, x) /\ HowMany(bs, x) \in Nat
      BY <2>2, <3>1, <1>3, HowManyEntries DEF HowMany
    <3>3. QED
      BY <3>1, <3>2 DEF If1
  <2>3. QED
    BY <2>1, <2>2
<1>10. QED
  BY <1>7, <1>8, <1>9 DEF OneMore

\* remove_entry_with_key keeps the ring in order and removes one entry with
\* the key, if there is one.
LEMMA RemoveOne ==
    ASSUME NEW bs, RingOK(bs), NEW key \in Ring, HowMany(bs, key) # 0, NEW b2,
           b2 = RemoveEntryWithKey(bs, key)
    PROVE  /\ RingOK(b2)
           /\ EntriesOf(b2) \subseteq EntriesOf(bs)
           /\ OneMore(b2, bs, key)
<1> DEFINE n == GetBucketNum(key)
           t == bs[n]
           i == FirstOf(Copies(t, key))
           e == t[i]
           s == RemoveAt(t, i)
<1>1. n \in Buckets /\ t \in Seq(RingEntries)
  BY BucketNumType, BucketType
<1>2. Copies(t, key) # {}
  BY <1>1, CopiesCount DEF HowMany
<1>3. b2 = [bs EXCEPT ![n] = s]
  BY DEF RemoveEntryWithKey, SelectInSeq, FirstOf, Copies
<1> HIDE DEF t
<1>4. i \in 1 .. Len(t) /\ e.key = key
  BY <1>1, <1>2, FirstWithKey
<1> HIDE DEF i
<1>5. s \in Seq(RingEntries) /\ PutIn(s, t, i, e)
  BY <1>1, <1>4, RemoveTakes
<1>6. e \in RingEntries
  BY <1>1, <1>4
<1> HIDE DEF s, n, e
<1>7. n = GetBucketNum(e.key)
  BY <1>4 DEF n
<1>8. PutIn(s, bs[n], i, e)
  BY <1>5 DEF t
<1>11. bs \in BucketLists /\ n \in Buckets
  BY <1>1 DEF RingOK
<1>12. b2 \in BucketLists /\ b2[n] = s /\ \A m \in Buckets \ {n} : b2[m] = bs[m]
  BY <1>3, <1>5, <1>11 DEF BucketLists
<1>9. /\ RingOK(b2)
      /\ EntriesOf(b2) \subseteq EntriesOf(bs)
      /\ OneMore(b2, bs, e.key)
  BY <1>5, <1>6, <1>7, <1>8, <1>12, BucketShrinks
<1>10. QED
  BY <1>4, <1>9

(***************************************************************************)
(* The loops over the points of a server                                   *)
(***************************************************************************)
Rings == {bs \in BucketLists : RingOK(bs)}

\* the points of a server that the first n iterations put at x
PointsBefore(k, n, x) == {i \in 0 .. n - 1 : hash[<<k, i>>] = x}

LEMMA CountPoints ==
    ASSUME NEW k, NEW x, NEW n \in Nat
    PROVE  /\ Cardinality(PointsBefore(k, n, x)) \in Nat
           /\ Cardinality(PointsBefore(k, 0, x)) = 0
           /\ Cardinality(PointsBefore(k, n + 1, x))
                = Cardinality(PointsBefore(k, n, x)) + If1(hash[<<k, n>>], x)
<1> DEFINE P == PointsBefore(k, n, x)
<1>1. IsFiniteSet(0 .. n - 1)
  BY FS_Interval
<1>9. P \subseteq 0 .. n - 1 /\ n \notin P
  BY DEF PointsBefore
<1>2. IsFiniteSet(P) /\ n \notin P
  BY <1>1, <1>9, FS_Subset
<1>3. Cardinality(P) \in Nat
  BY <1>2, FS_CardinalityType
<1>4. PointsBefore(k, 0, x) = {}
  BY DEF PointsBefore
<1>5. PointsBefore(k, n + 1, x) = IF hash[<<k, n>>] = x THEN P \cup {n} ELSE P
  BY DEF PointsBefore
<1>6. Cardinality(P \cup {n}) = Cardinality(P) + 1
  BY <1>2, FS_AddElement
<1> HIDE DEF P
<1>7. Cardinality(PointsBefore(k, n + 1, x)) = Cardinality(P) + If1(hash[<<k, n>>], x)
  BY <1>3, <1>5, <1>6 DEF If1
<1>8. QED
  BY <1>3, <1>4, <1>7, FS_EmptySet DEF P

LEMMA PointsOnRing ==
    ASSUME hash \in Hashes, NEW k \in Keys, NEW i \in Points
    PROVE  hash[<<k, i>>] \in Ring
<1>1. hash \in [Keys \X Points -> Ring]
  BY ConsistentHashAssumption
<1>2. QED
  BY <1>1

\* The states that the loop of mrpc_consistent_hash_add_entry goes through.
LEMMA AddLoop ==
    ASSUME hash \in Hashes, NEW bs, RingOK(bs), NEW k \in Keys, NEW v \in Values
    PROVE  \E f \in [0 .. UniformFactor -> Rings] :
             /\ f[0] = bs
             /\ \A i \in Points : f[i + 1] = AddEntryWithKey(f[i], hash[<<k, i>>], v)
             /\ WithPoints(bs, k, v) = f[UniformFactor]
<1> DEFINE N == UniformFactor
           G(g) == [i \in 0 .. N |->
                      IF i = 0 THEN bs
                      ELSE AddEntryWithKey(g[i - 1], hash[<<k, i - 1>>], v)]
           u == CHOOSE g : g = G(g)
           F == [i \in 0 .. N - 1 |-> [b \in Rings |-> AddEntryWithKey(b, hash[<<k, i>>], v)]]
<1>1. N \in Nat /\ Points = 0 .. N - 1
  BY ConsistentHashAssumption DEF Points
<1>2. bs \in Rings
  BY DEF Rings, RingOK
<1>3. \A i \in 0 .. N - 1 : \A b \in Rings : AddEntryWithKey(b, hash[<<k, i>>], v) \in Rings
  <2>1. ASSUME NEW i \in 0 .. N - 1, NEW b \in Rings
        PROVE  AddEntryWithKey(b, hash[<<k, i>>], v) \in Rings
    <3>1. hash[<<k, i>>] \in Ring /\ RingOK(b)
      BY <1>1, PointsOnRing DEF Rings
    <3>2. RingOK(AddEntryWithKey(b, hash[<<k, i>>], v))
      BY <3>1, AddOne
    <3>3. QED
      BY <3>2 DEF Rings, RingOK
  <2>2. QED
    BY <2>1
<1>4. F \in [0 .. N - 1 -> [Rings -> Rings]]
  BY <1>3
<1> HIDE DEF N
<1>12. PICK f \in [0 .. N -> Rings] : Runs(f, N, bs, F)
  <2> HIDE DEF F
  <2>1. QED
    BY <1>1, <1>2, <1>4, LoopStates
<1>5. f[0] = bs /\ \A i \in 1 .. N : f[i] = F[i - 1][f[i - 1]]
  BY <1>12 DEF Runs
<1>6. ASSUME NEW i \in 0 .. N - 1
      PROVE  f[i + 1] = AddEntryWithKey(f[i], hash[<<k, i>>], v)
  <2>1. i + 1 \in 1 .. N /\ (i + 1) - 1 = i /\ i \in 0 .. N
    BY <1>1
  <2>2. f[i + 1] = F[i][f[i]] /\ f[i] \in Rings
    BY <1>5, <2>1
  <2>3. QED
    BY <2>2
<1>7. f = G(f)
  <2>1. ASSUME NEW i \in 0 .. N, i # 0
        PROVE  f[i] = AddEntryWithKey(f[i - 1], hash[<<k, i - 1>>], v)
    <3>1. i - 1 \in 0 .. N - 1 /\ (i - 1) + 1 = i
      BY <1>1, <2>1
    <3>2. QED
      BY <3>1, <1>6
  <2>2. QED
    BY <1>5, <2>1
<1> HIDE DEF G
<1>8. u = G(u)
  BY <1>7
<1> HIDE DEF u
<1>9. u[N] = f[N]
  <2> DEFINE T == {i \in Nat : u[i] = f[i]}
  <2>1. 0 \in T
    BY <1>1, <1>5, <1>8 DEF G
  <2>2. ASSUME NEW i \in 0 .. N - 1, i \in T PROVE i + 1 \in T
    <3>1. i + 1 \in 0 .. N /\ i + 1 # 0 /\ (i + 1) - 1 = i
      BY <1>1
    <3>2. u[i + 1] = AddEntryWithKey(u[i], hash[<<k, i>>], v)
      BY <1>8, <3>1 DEF G
    <3>3. QED
      BY <2>2, <3>1, <3>2, <1>6
  <2> HIDE DEF T
  <2>3. 0 .. N \subseteq T
    BY <1>1, <2>1, <2>2, Iterating
  <2>4. QED
    BY <1>1, <2>3 DEF T
<1>10. WithPoints(bs, k, v) = u[N]
  BY DEF WithPoints, u, G, N
<1>11. QED
  BY <1>1, <1>5, <1>6, <1>9, <1>10 DEF N

\* what a server has on the ring
ServerEntries(k, v) == {[key |-> hash[<<k, i>>], value |-> v] : i \in Points}

\* mrpc_consistent_hash_add_entry puts all points of the server on the ring.
LEMMA AddAll ==
    ASSUME hash \in Hashes, NEW bs, RingOK(bs), NEW k \in Keys, NEW v \in Values,
           NEW b2, b2 = WithPoints(bs, k, v)
    PROVE  /\ RingOK(b2)
           /\ EntriesOf(b2) = EntriesOf(bs) \cup ServerEntries(k, v)
           /\ \A x \in Ring :
                HowMany(b2, x) =
                  HowMany(bs, x) + Cardinality(PointsBefore(k, UniformFactor, x))
<1>1. UniformFactor \in Nat /\ Points = 0 .. UniformFactor - 1
  BY ConsistentHashAssumption DEF Points
<1>2. PICK f \in [0 .. UniformFactor -> Rings] :
        /\ f[0] = bs
        /\ \A i \in Points : f[i + 1] = AddEntryWithKey(f[i], hash[<<k, i>>], v)
        /\ b2 = f[UniformFactor]
  BY AddLoop
<1> DEFINE E(i) == [key |-> hash[<<k, i>>], value |-> v]
           Old(n) == EntriesOf(f[n]) = EntriesOf(bs) \cup {E(i) : i \in 0 .. n - 1}
           Sum(n) == \A x \in Ring :
                       HowMany(f[n], x) = HowMany(bs, x) + Cardinality(PointsBefore(k, n, x))
           T == {n \in Nat : Old(n) /\ Sum(n)}
<1>3. 0 \in T
  <2>1. Old(0)
    BY <1>2
  <2>2. ASSUME NEW x \in Ring
        PROVE  HowMany(f[0], x) = HowMany(bs, x) + Cardinality(PointsBefore(k, 0, x))
    <3>1. HowMany(bs, x) \in Nat /\ Cardinality(PointsBefore(k, 0, x)) = 0
      BY HowManyEntries, CountPoints
    <3>2. QED
      BY <3>1, <1>2
  <2>3. QED
    BY <2>1, <2>2
<1>4. ASSUME NEW n \in 0 .. UniformFactor - 1, n \in T PROVE n + 1 \in T
  <2>1. n \in Nat /\ n \in Points /\ n + 1 \in Nat /\ n \in 0 .. UniformFactor
    BY <1>1
  <2>2. RingOK(f[n]) /\ hash[<<k, n>>] \in Ring
    BY <2>1, PointsOnRing DEF Rings
  <2>3. f[n + 1] = AddEntryWithKey(f[n], hash[<<k, n>>], v)
    BY <1>2, <2>1
  <2>4. /\ EntriesOf(f[n + 1]) = EntriesOf(f[n]) \cup {E(n)}
        /\ OneMore(f[n], f[n + 1], hash[<<k, n>>])
    BY <2>2, <2>3, AddOne
  <2>5. Old(n + 1)
    <3>1. 0 .. (n + 1) - 1 = (0 .. n - 1) \cup {n}
      BY <2>1
    <3> HIDE DEF E
    <3>2. QED
      BY <1>4, <2>4, <3>1
  <2>6. ASSUME NEW x \in Ring
        PROVE  HowMany(f[n + 1], x) = HowMany(bs, x) + Cardinality(PointsBefore(k, n + 1, x))
    <3>1. HowMany(f[n + 1], x) = HowMany(f[n], x) + If1(hash[<<k, n>>], x)
      BY <2>4 DEF OneMore
    <3>2. HowMany(f[n], x) = HowMany(bs, x) + Cardinality(PointsBefore(k, n, x))
      BY <1>4
    <3>3. /\ Cardinality(PointsBefore(k, n, x)) \in Nat
          /\ Cardinality(PointsBefore(k, n + 1, x))
               = Cardinality(PointsBefore(k, n, x)) + If1(hash[<<k, n>>], x)
      BY <2>1, CountPoints
    <3>4. HowMany(bs, x) \in Nat /\ If1(hash[<<k, n>>], x) \in Nat
      BY HowManyEntries DEF If1
    <3>5. QED
      BY <3>1, <3>2, <3>3, <3>4
  <2> HIDE DEF Old
  <2>7. QED
    BY <2>1, <2>5, <2>6
<1> HIDE DEF T
<1>5. 0 .. UniformFactor \subseteq T
  BY <1>1, <1>3, <1>4, Iterating
<1>6. UniformFactor \in T
  BY <1>1, <1>5
<1>7. RingOK(b2)
  BY <1>1, <1>2 DEF Rings
<1>8. QED
  BY <1>1, <1>2, <1>6, <1>7 DEF T, ServerEntries

\* mrpc_consistent_hash_remove_entry takes as many points off the ring, at
\* the same places, provided that they are there.
LEMMA RemoveAll ==
    ASSUME hash \in Hashes, NEW bs, RingOK(bs), NEW k \in Keys,
           \A x \in Ring :
             Cardinality(PointsBefore(k, UniformFactor, x)) <= HowMany(bs, x),
           NEW b2, b2 = WithoutPoints(bs, k)
    PROVE  /\ RingOK(b2)
           /\ EntriesOf(b2) \subseteq EntriesOf(bs)
           /\ \A x \in Ring :
                HowMany(bs, x) =
                  HowMany(b2, x) + Cardinality(PointsBefore(k, UniformFactor, x))
<1> DEFINE N == UniformFactor
           G(g) == [i \in 0 .. N |->
                      IF i = 0 THEN bs
                      ELSE RemoveEntryWithKey(g[i - 1], hash[<<k, i - 1>>])]
           u == CHOOSE g : g = G(g)
           R(b, i) == IF HowMany(b, hash[<<k, i>>]) = 0 THEN b
                      ELSE RemoveEntryWithKey(b, hash[<<k, i>>])
           F == [i \in 0 .. N - 1 |-> [b \in Rings |-> R(b, i)]]
<1>1. N \in Nat /\ Points = 0 .. N - 1
  BY ConsistentHashAssumption DEF Points
<1>2. bs \in Rings
  BY DEF Rings, RingOK
<1>3. \A i \in 0 .. N - 1 : \A b \in Rings : R(b, i) \in Rings
  <2>1. ASSUME NEW i \in 0 .. N - 1, NEW b \in Rings
        PROVE  R(b, i) \in Rings
    <3>1. hash[<<k, i>>] \in Ring /\ RingOK(b)
      BY <1>1, PointsOnRing DEF Rings
    <3>2. HowMany(b, hash[<<k, i>>]) # 0 => RingOK(RemoveEntryWithKey(b, hash[<<k, i>>]))
      BY <3>1, RemoveOne
    <3>3. QED
      BY <3>2 DEF Rings, RingOK
  <2>2. QED
    BY <2>1
<1> HIDE DEF N, R
<1>4. F \in [0 .. N - 1 -> [Rings -> Rings]]
  BY <1>3
<1>5. PICK f \in [0 .. N -> Rings] : Runs(f, N, bs, F)
  <2> HIDE DEF F
  <2>1. QED
    BY <1>1, <1>2, <1>4, LoopStates
<1>6. f[0] = bs /\ \A i \in 1 .. N : f[i] = F[i - 1][f[i - 1]]
  BY <1>5 DEF Runs
<1>7. ASSUME NEW i \in 0 .. N - 1
      PROVE  f[i + 1] = R(f[i], i)
  <2>1. i + 1 \in 1 .. N /\ (i + 1) - 1 = i /\ i \in 0 .. N
    BY <1>1
  <2>2. f[i + 1] = F[i][f[i]] /\ f[i] \in Rings
    BY <1>6, <2>1
  <2>3. QED
    BY <2>2
<1> HIDE DEF F
<1> DEFINE Left(n) == \A x \in Ring :
                        HowMany(bs, x) = HowMany(f[n], x) + Cardinality(PointsBefore(k, n, x))
           T == {n \in Nat : EntriesOf(f[n]) \subseteq EntriesOf(bs) /\ Left(n)}
<1>8. ASSUME NEW n \in 0 .. N - 1, Left(n)
      PROVE  /\ f[n + 1] = RemoveEntryWithKey(f[n], hash[<<k, n>>])
             /\ EntriesOf(f[n + 1]) \subseteq EntriesOf(f[n])
             /\ OneMore(f[n + 1], f[n], hash[<<k, n>>])
  <2> DEFINE y == hash[<<k, n>>]
             c(m) == Cardinality(PointsBefore(k, m, y))
  <2>1. n \in Nat /\ n \in Points /\ n + 1 \in 0 .. N /\ n \in 0 .. N
    BY <1>1
  <2>2. RingOK(f[n]) /\ y \in Ring
    BY <2>1, PointsOnRing DEF Rings
  <2>3. c(n) \in Nat /\ c(n + 1) = c(n) + 1
    BY <2>1, CountPoints DEF If1
  <2>4. c(n + 1) <= c(N)
    <3>1. PointsBefore(k, n + 1, y) \subseteq PointsBefore(k, N, y)
      BY <1>1, <2>1 DEF PointsBefore
    <3>2. PointsBefore(k, N, y) \subseteq 0 .. N - 1 /\ IsFiniteSet(0 .. N - 1)
      BY <1>1, FS_Interval DEF PointsBefore
    <3>3. IsFiniteSet(PointsBefore(k, N, y))
      BY <3>2, FS_Subset
    <3>4. QED
      BY <3>1, <3>3, FS_Subset
  <2>5. c(N) \in Nat /\ c(N) <= HowMany(bs, y)
    BY <1>1, <2>2, CountPoints DEF N
  <2>6. HowMany(bs, y) = HowMany(f[n], y) + c(n) /\ HowMany(f[n], y) \in Nat
    BY <1>8, <2>2, HowManyEntries
  <2> HIDE DEF c
  <2>7. HowMany(f[n], y) # 0
    BY <2>3, <2>4, <2>5, <2>6
  <2>8. f[n + 1] = RemoveEntryWithKey(f[n], y)
    BY <1>7, <2>7 DEF R
  <2>9. QED
    BY <2>2, <2>7, <2>8, RemoveOne
<1>9. 0 \in T
  <2>1. ASSUME NEW x \in Ring
        PROVE  HowMany(bs, x) = HowMany(f[0], x) + Cardinality(PointsBefore(k, 0, x))
    <3>1. HowMany(bs, x) \in Nat /\ Cardinality(PointsBefore(k, 0, x)) = 0
      BY HowManyEntries, CountPoints
    <3>2. QED
      BY <3>1, <1>6
  <2>2. QED
    BY <2>1, <1>6
<1>10. ASSUME NEW n \in 0 .. N - 1, n \in T PROVE n + 1 \in T
  <2>1. n \in Nat /\ n + 1 \in Nat /\ n \in 0 .. N /\ n + 1 \in 0 .. N
    BY <1>1
  <2>2. Left(n) /\ EntriesOf(f[n]) \subseteq EntriesOf(bs)
    BY <1>10
  <2>3. /\ EntriesOf(f[n + 1]) \subseteq EntriesOf(f[n])
        /\ OneMore(f[n + 1], f[n], hash[<<k, n>>])
    BY <1>8, <2>2
  <2>4. ASSUME NEW x \in Ring
        PROVE  HowMany(bs, x) = HowMany(f[n + 1], x) + Cardinality(PointsBefore(k, n + 1, x))
    <3>1. HowMany(f[n], x) = HowMany(f[n + 1], x) + If1(hash[<<k, n>>], x)
      BY <2>3 DEF OneMore
    <3>2. HowMany(bs, x) = HowMany(f[n], x) + Cardinality(PointsBefore(k, n, x))
      BY <2>2
    <3>3. /\ Cardinality(PointsBefore(k, n, x)) \in Nat
          /\ Cardinality(PointsBefore(k, n + 1, x))
               = Cardinality(PointsBefore(k, n, x)) + If1(hash[<<k, n>>], x)
      BY <2>1, CountPoints
    <3>4. RingOK(f[n + 1])
      BY <2>1 DEF Rings
    <3>5. HowMany(f[n + 1], x) \in Nat /\ If1(hash[<<k, n>>], x) \in Nat
      BY <3>4, HowManyEntries DEF If1
    <3>6. QED
      BY <3>1, <3>2, <3>3, <3>5
  <2>5. QED
    BY <2>1, <2>2, <2>3, <2>4
<1> HIDE DEF T
<1>11. 0 .. N \subseteq T
  BY <1>1, <1>9, <1>10, Iterating
<1>12. \A n \in 0 .. N : EntriesOf(f[n]) \subseteq EntriesOf(bs) /\ Left(n)
  BY <1>11 DEF T
<1> HIDE DEF Left
<1>13. ASSUME NEW i \in 0 .. N - 1
       PROVE  f[i + 1] = RemoveEntryWithKey(f[i], hash[<<k, i>>])
  <2>1. i \in 0 .. N
    BY <1>1
  <2>2. QED
    BY <2>1, <1>8, <1>12
<1>14. f = G(f)
  <2>1. ASSUME NEW i \in 0 .. N, i # 0
        PROVE  f[i] = RemoveEntryWithKey(f[i - 1], hash[<<k, i - 1>>])
    <3>1. i - 1 \in 0 .. N - 1 /\ (i - 1) + 1 = i
      BY <1>1, <2>1
    <3>2. QED
      BY <3>1, <1>13
  <2>2. QED
    BY <1>6, <2>1
<1> HIDE DEF G
<1>15. u = G(u)
  BY <1>14
<1> HIDE DEF u
<1>16. u[N] = f[N]
  <2> DEFINE U == {i \in Nat : u[i] = f[i]}
  <2>1. 0 \in U
    BY <1>1, <1>6, <1>15 DEF G
  <2>2. ASSUME NEW i \in 0 .. N - 1, i \in U PROVE i + 1 \in U
    <3>1. i + 1 \in 0 .. N /\ i + 1 # 0 /\ (i + 1) - 1 = i
      BY <1>1
    <3>2. u[i + 1] = RemoveEntryWithKey(u[i], hash[<<k, i>>])
      BY <1>15, <3>1 DEF G
    <3>3. QED
      BY <2>2, <3>1, <3>2, <1>13
  <2> HIDE DEF U
  <2>3. 0 .. N \subseteq U
    BY <1>1, <2>1, <2>2, Iterating
  <2>4. QED
    BY <1>1, <2>3 DEF U
<1>17. WithoutPoints(bs, k) = u[N]
  BY DEF WithoutPoints, u, G, N
<1>18. b2 = f[N] /\ N \in 0 .. N
  BY <1>1, <1>16, <1>17
<1>19. RingOK(b2)
  BY <1>18 DEF Rings
<1>20. QED
  BY <1>12, <1>18, <1>19 DEF Left, N

(***************************************************************************)
(* Lookups                                                                 *)
(***************************************************************************)

\* OnlyBehind, for any entries
AllBehind(E, key) ==
    \A e \in E : e.key < key /\ GetBucketNum(e.key) = GetBucketNum(key)

\* No entry at or after the key comes before e; e is the first of all if
\* there are none.
IsNext(E, key, e) ==
    IF \E d \in E : d.key >= key
    THEN e.key >= key /\ \A d \in E : d.key >= key => e.key <= d.key
    ELSE \A d \in E : e.key <= d.key

\* The passes visit the buckets once each, from that of the key upwards and
\* then from bucket 0; the key counts in the first part only.
LEMMA Passes ==
    ASSUME NEW key \in Ring, NEW g, g = GetBucketNum(key)
    PROVE  /\ \A i \in Buckets :
                /\ PassBucket(key, i) \in Buckets
                /\ PassBucket(key, i) = IF g + i < BucketsCnt THEN g + i ELSE g + i - BucketsCnt
                /\ PassKey(key, i) = IF g + i < BucketsCnt THEN key ELSE 0
           /\ \A m \in Buckets :
                LET i == IF m >= g THEN m - g ELSE m - g + BucketsCnt
                IN  i \in Buckets /\ PassBucket(key, i) = m
<1>1. g \in Buckets /\ BucketsCnt \in Nat \ {0}
  BY BucketNumType, ConsistentHashAssumption
<1>3. ASSUME NEW i \in Buckets
      PROVE  /\ PassBucket(key, i) \in Buckets
             /\ PassBucket(key, i) = IF g + i < BucketsCnt THEN g + i ELSE g + i - BucketsCnt
             /\ PassKey(key, i) = IF g + i < BucketsCnt THEN key ELSE 0
  <2>1. g + i \in 0 .. 2 * BucketsCnt - 1
    BY <1>1 DEF Buckets
  <2>2. PassBucket(key, i) = IF g + i < BucketsCnt THEN g + i ELSE g + i - BucketsCnt
    <3>1. PICK a \in 0 .. 2 * BucketsCnt - 1 : a = g + i
      BY <2>1
    <3>2. PassBucket(key, i) = a % BucketsCnt
      BY <3>1 DEF PassBucket
    <3>3. a % BucketsCnt = IF a < BucketsCnt THEN a ELSE a - BucketsCnt
      BY <1>1
    <3>4. PassBucket(key, i) = IF a < BucketsCnt THEN a ELSE a - BucketsCnt
      BY <3>2, <3>3, Zenon
    <3>5. QED
      BY <1>1, <3>1, <3>4 DEF Buckets
  <2>3. PassBucket(key, i) \in Buckets
    BY <1>1, <2>1, <2>2 DEF Buckets
  <2>4. QED
    BY <2>2, <2>3 DEF PassKey
<1>4. ASSUME NEW m \in Buckets
      PROVE  LET i == IF m >= g THEN m - g ELSE m - g + BucketsCnt
             IN  i \in Buckets /\ PassBucket(key, i) = m
  <2> DEFINE i == IF m >= g THEN m - g ELSE m - g + BucketsCnt
  <2>1. i \in Buckets
    BY <1>1 DEF Buckets
  <2>2. PassBucket(key, i) = IF g + i < BucketsCnt THEN g + i ELSE g + i - BucketsCnt
    BY <1>3, <2>1
  <2>3. (IF g + i < BucketsCnt THEN g + i ELSE g + i - BucketsCnt) = m
    BY <1>1 DEF Buckets
  <2>4. QED
    BY <2>1, <2>2, <2>3
<1>5. QED
  BY <1>3, <1>4

\* A pass finds the first entry of its bucket that counts, if there is one.
LEMMA HitFound ==
    ASSUME NEW bs, RingOK(bs), NEW key \in Ring, NEW i \in Buckets,
           NEW s, s = bs[PassBucket(key, i)],
           NEW h, h = Hit(bs, key, i), NEW a, a = PassKey(key, i)
    PROVE  /\ h \in 0 .. Len(s)
           /\ h = 0 => \A j \in 1 .. Len(s) : s[j].key < a
           /\ h # 0 => /\ s[h].key >= a
                       /\ \A j \in 1 .. Len(s) : s[j].key >= a => s[h].key <= s[j].key
<1>1. s \in Seq(RingEntries) /\ Ascending(s) /\ Len(s) \in Nat
  BY Passes, BucketType
<1>2. a \in Int
  BY Passes, ConsistentHashAssumption DEF Ring
<1>3. h = FirstOf(NotSmaller(s, a))
  BY DEF Hit, SelectInSeq, FirstOf, NotSmaller
<1>4. /\ h \in 0 .. Len(s)
      /\ h # 0 => s[h].key >= a /\ \A j \in 1 .. h - 1 : s[j].key < a
      /\ h = 0 => \A j \in 1 .. Len(s) : s[j].key < a
  BY <1>1, <1>2, <1>3, FirstNotSmaller
<1>5. \A j \in 1 .. Len(s) : s[j].key \in Int
  BY <1>1, EntryFields
<1>6. ASSUME h # 0, NEW j \in 1 .. Len(s), s[j].key >= a
      PROVE  s[h].key <= s[j].key
  <2>1. h \in 1 .. Len(s)
    BY <1>1, <1>4, <1>6
  <2>2. ~(j < h)
    <3>1. SUFFICES ASSUME j < h PROVE FALSE
      OBVIOUS
    <3>2. s[j].key < a
      BY <3>1, <1>1, <1>4, <1>6, <2>1
    <3>3. QED
      BY <3>2, <1>2, <1>5, <1>6
  <2>3. h < j \/ h = j
    BY <2>1, <2>2, <1>1
  <2>4. QED
    BY <2>1, <2>3, <1>1, <1>5 DEF Ascending
<1>7. QED
  BY <1>4, <1>6

\* get_entry finds the next entry, unless all lie behind the key in its own
\* bucket.
LEMMA Lookup ==
    ASSUME NEW bs, RingOK(bs), NEW key \in Ring, NEW E, E = EntriesOf(bs)
    PROVE  /\ AllBehind(E, key) => GetEntry(bs, key) = NoValue
           /\ ~AllBehind(E, key) =>
                \E e \in E : e.value = GetEntry(bs, key) /\ IsNext(E, key, e)
<1> DEFINE g == GetBucketNum(key)
           hits == {i \in Buckets : Hit(bs, key, i) # 0}
<1>1. g \in Buckets /\ BucketsCnt \in Nat \ {0} /\ key \in Nat /\ Ring \subseteq Nat
  BY BucketNumType, ConsistentHashAssumption DEF Ring
<1>2. Buckets \subseteq Nat /\ Buckets = 0 .. BucketsCnt - 1
  BY <1>1 DEF Buckets
\* what is known of an entry
<1>3. ASSUME NEW d \in E
      PROVE  /\ d.key \in Nat /\ d.key \in Ring /\ GetBucketNum(d.key) \in Buckets
             /\ d.key >= key => GetBucketNum(d.key) >= g
             /\ d.key < key => GetBucketNum(d.key) <= g
             /\ \E j \in 1 .. Len(bs[GetBucketNum(d.key)]) : d = bs[GetBucketNum(d.key)][j]
  <2>1. d.key \in Ring
    BY EntryTypes
  <2>2. GetBucketNum(d.key) \in Buckets
    BY <2>1, BucketNumType
  <2>3. PICK n \in Buckets : \E j \in 1 .. Len(bs[n]) : d = bs[n][j]
    BY EntryPlace
  <2>4. GetBucketNum(d.key) = n
    BY <2>3, BucketType
  <2>5. /\ d.key >= key => GetBucketNum(d.key) >= g
        /\ d.key < key => GetBucketNum(d.key) <= g
    <3>1. d.key \in Nat /\ g \in Nat /\ GetBucketNum(d.key) \in Nat
      BY <1>1, <1>2, <2>1, <2>2
    <3>2. d.key >= key => g <= GetBucketNum(d.key)
      BY <1>1, <2>1, <3>1, BucketNumMonotone
    <3>3. d.key < key => GetBucketNum(d.key) <= g
      BY <1>1, <2>1, <3>1, BucketNumMonotone
    <3>4. QED
      BY <3>1, <3>2, <3>3
  <2>6. QED
    BY <1>1, <2>1, <2>2, <2>3, <2>4, <2>5
<1>4. ASSUME NEW i \in Buckets
      PROVE  /\ PassBucket(key, i) \in Buckets
             /\ PassBucket(key, i) = IF g + i < BucketsCnt THEN g + i ELSE g + i - BucketsCnt
             /\ PassKey(key, i) = IF g + i < BucketsCnt THEN key ELSE 0
  BY Passes
<1>5. ASSUME NEW m \in Buckets
      PROVE  \E i \in Buckets :
               i = (IF m >= g THEN m - g ELSE m - g + BucketsCnt) /\ PassBucket(key, i) = m
  BY Passes
\* what a pass over the bucket of an entry means for it
<1>6. ASSUME NEW d \in E, NEW i \in Buckets, PassBucket(key, i) = GetBucketNum(d.key)
      PROVE  /\ Hit(bs, key, i) = 0 => d.key < PassKey(key, i)
             /\ Hit(bs, key, i) # 0 /\ d.key >= PassKey(key, i) =>
                  bs[PassBucket(key, i)][Hit(bs, key, i)].key <= d.key
  <2>1. PICK j \in 1 .. Len(bs[PassBucket(key, i)]) : d = bs[PassBucket(key, i)][j]
    BY <1>3, <1>6
  <2>2. QED
    BY <2>1, HitFound
\* what a pass finds
<1>7. ASSUME NEW i \in hits
      PROVE  LET e == bs[PassBucket(key, i)][Hit(bs, key, i)]
             IN  e \in E /\ e.key >= PassKey(key, i) /\ GetBucketNum(e.key) = PassBucket(key, i)
  <2> DEFINE n == PassBucket(key, i)
             h == Hit(bs, key, i)
  <2>1. n \in Buckets /\ h # 0
    BY <1>4
  <2>2. h \in 0 .. Len(bs[n]) /\ bs[n][h].key >= PassKey(key, i)
    BY <2>1, HitFound
  <2>3. h \in 1 .. Len(bs[n])
    BY <2>1, <2>2, BucketType
  <2>4. bs[n][h] \in E /\ GetBucketNum(bs[n][h].key) = n
    BY <2>1, <2>3, EntryPlace, BucketType
  <2>5. QED
    BY <2>2, <2>4
<1>8. CASE hits = {}
  <2>1. GetEntry(bs, key) = NoValue
    BY <1>8 DEF GetEntry
  <2>2. ASSUME NEW d \in E PROVE d.key < key /\ GetBucketNum(d.key) = g
    <3> DEFINE m == GetBucketNum(d.key)
    <3>1. PICK i \in Buckets :
            i = (IF m >= g THEN m - g ELSE m - g + BucketsCnt) /\ PassBucket(key, i) = m
      BY <1>3, <1>5
    <3>2. d.key < PassKey(key, i)
      BY <1>6, <1>8, <3>1
    <3>3. PassKey(key, i) = key
      BY <1>3, <1>4, <3>2
    <3>4. m \in Nat /\ g \in Nat /\ m <= g
      BY <1>1, <1>2, <1>3, <3>2, <3>3
    <3>5. key # 0
      BY <1>3, <3>2, <3>3
    <3>6. g + i < BucketsCnt
      BY <1>4, <3>3, <3>5
    <3>7. m >= g
      BY <1>1, <1>2, <3>1, <3>4, <3>6
    <3>8. QED
      BY <3>2, <3>3, <3>4, <3>7
  <2>3. AllBehind(E, key)
    BY <2>2 DEF AllBehind
  <2>4. QED
    BY <2>1, <2>3
<1>9. CASE hits # {}
  <2> DEFINE i == Min(hits)
             n == PassBucket(key, i)
             e == bs[n][Hit(bs, key, i)]
  <2>1. i \in hits /\ \A j \in hits : i <= j
    BY <1>2, <1>9, MinOf
  <2>2. GetEntry(bs, key) = e.value
    BY <1>9 DEF GetEntry
  <2> HIDE DEF i
  <2>3. e \in E /\ e.key >= PassKey(key, i) /\ GetBucketNum(e.key) = n
    BY <1>7, <2>1
  <2>4. i \in Buckets /\ i \in Nat /\ n \in Buckets /\ n \in Nat /\ g \in Nat
    BY <1>1, <1>2, <1>4, <2>1
  <2>5. e.key \in Nat
    BY <1>3, <2>3
  <2> HIDE DEF e
  \* an entry whose bucket an earlier pass visits does not count there
  <2>6. ASSUME NEW d \in E, NEW j \in Buckets, j < i, PassBucket(key, j) = GetBucketNum(d.key)
        PROVE  d.key < PassKey(key, j)
    <3>1. j \notin hits
      BY <1>2, <2>1, <2>4, <2>6
    <3>2. QED
      BY <1>6, <2>6, <3>1
  \* an entry of a later bucket has a greater key
  <2>7. ASSUME NEW d \in E, GetBucketNum(d.key) >= n, d.key >= PassKey(key, i)
        PROVE  e.key <= d.key
    <3>1. CASE GetBucketNum(d.key) = n
      BY <1>6, <2>1, <2>4, <2>7, <3>1 DEF e
    <3>2. CASE GetBucketNum(d.key) # n
      <4>1. d.key \in Ring /\ d.key \in Nat /\ GetBucketNum(d.key) \in Nat /\ e.key \in Ring
        BY <1>2, <1>3, <2>3
      <4>2. d.key <= e.key => GetBucketNum(d.key) <= n
        BY <4>1, <2>3, BucketNumMonotone
      <4>3. QED
        BY <4>1, <4>2, <2>4, <2>5, <2>7, <3>2
    <3>3. QED
      BY <3>1, <3>2
  <2>8. IsNext(E, key, e)
    <3>1. CASE g + i < BucketsCnt
      <4>1. n = g + i /\ PassKey(key, i) = key
        BY <1>4, <2>4, <3>1
      <4>2. ASSUME NEW d \in E, d.key >= key PROVE e.key <= d.key
        <5> DEFINE m == GetBucketNum(d.key)
        <5>1. d.key \in Nat /\ m \in Buckets /\ m \in Nat /\ m >= g
          BY <1>2, <1>3, <4>2
        <5>2. CASE m < n
          <6>1. PICK j \in Buckets :
                  j = (IF m >= g THEN m - g ELSE m - g + BucketsCnt) /\ PassBucket(key, j) = m
            BY <1>5, <5>1
          <6>2. j < i /\ g + j < BucketsCnt
            BY <1>1, <2>4, <3>1, <4>1, <5>1, <5>2, <6>1
          <6>3. d.key < PassKey(key, j)
            BY <2>6, <6>1, <6>2
          <6>4. PassKey(key, j) = key
            BY <1>4, <6>2
          <6>5. QED
            BY <1>1, <4>2, <5>1, <6>3, <6>4
        <5>3. CASE m >= n
          BY <2>7, <4>1, <4>2, <5>3
        <5>4. QED
          BY <2>4, <5>1, <5>2, <5>3
      <4>3. QED
        BY <2>3, <4>1, <4>2 DEF IsNext
    <3>2. CASE ~(g + i < BucketsCnt)
      <4>1. n = g + i - BucketsCnt /\ PassKey(key, i) = 0
        BY <1>4, <2>4, <3>2
      <4>2. n < g
        BY <1>1, <1>2, <2>4, <4>1
      <4>3. ASSUME NEW d \in E PROVE d.key < key
        <5> DEFINE m == GetBucketNum(d.key)
        <5>1. d.key \in Nat /\ m \in Buckets /\ m \in Nat
          BY <1>2, <1>3
        <5>2. CASE m >= g
          <6>1. PICK j \in Buckets :
                  j = (IF m >= g THEN m - g ELSE m - g + BucketsCnt) /\ PassBucket(key, j) = m
            BY <1>5, <5>1
          <6>2. j < i /\ g + j < BucketsCnt
            BY <1>1, <1>2, <2>4, <3>2, <5>1, <5>2, <6>1
          <6>3. d.key < PassKey(key, j)
            BY <2>6, <6>1, <6>2
          <6>4. QED
            BY <1>4, <6>2, <6>3
        <5>3. CASE m < g
          BY <1>1, <1>3, <2>4, <5>1, <5>3
        <5>4. QED
          BY <2>4, <5>1, <5>2, <5>3
      <4>4. ASSUME NEW d \in E PROVE e.key <= d.key
        <5> DEFINE m == GetBucketNum(d.key)
        <5>1. d.key \in Nat /\ m \in Buckets /\ m \in Nat
          BY <1>2, <1>3
        <5>2. CASE m < n
          <6>1. PICK j \in Buckets :
                  j = (IF m >= g THEN m - g ELSE m - g + BucketsCnt) /\ PassBucket(key, j) = m
            BY <1>5, <5>1
          <6>2. j < i /\ ~(g + j < BucketsCnt)
            BY <1>1, <2>4, <4>1, <4>2, <5>1, <5>2, <6>1
          <6>3. d.key < PassKey(key, j)
            BY <2>6, <6>1, <6>2
          <6>4. PassKey(key, j) = 0
            BY <1>4, <6>2
          <6>5. QED
            BY <5>1, <6>3, <6>4
        <5>3. CASE m >= n
          BY <2>7, <4>1, <5>1, <5>3
        <5>4. QED
          BY <2>4, <5>1, <5>2, <5>3
      <4>5. ~ \E d \in E : d.key >= key
        BY <1>1, <1>3, <4>3
      <4>6. QED
        BY <4>4, <4>5 DEF IsNext
    <3>3. QED
      BY <3>1, <3>2
  <2>9. ~AllBehind(E, key)
    <3>1. SUFFICES ASSUME AllBehind(E, key) PROVE FALSE
      OBVIOUS
    <3>2. e.key < key /\ n = g
      BY <2>3, <3>1 DEF AllBehind
    <3>6. n = g + i \/ n = g + i - BucketsCnt
      BY <1>4, <2>4
    <3>7. i < BucketsCnt
      BY <1>1, <1>2, <2>4
    <3>3. i = 0
      BY <1>1, <2>4, <3>2, <3>6, <3>7
    <3>4. PassKey(key, i) = key
      BY <1>1, <1>2, <1>4, <2>4, <3>3
    <3>5. QED
      BY <1>1, <2>3, <2>5, <3>2, <3>4
  <2>10. e \in E /\ e.value = GetEntry(bs, key)
    BY <2>2, <2>3 DEF e
  <2>11. QED
    BY <2>8, <2>9, <2>10
<1>10. QED
  BY <1>8, <1>9

\* On every ring that is in order get_entry finds the server of the next
\* point, whatever the hash function, the servers and their points are, for
\* every key that has a point other than behind it in its own bucket.
THEOREM LookupFindsNextPoint ==
    ASSUME RingOK(buckets)
    PROVE  LookupCorrect
<1>1. Entries = EntriesOf(buckets)
  BY DEF Entries, EntriesOf
<1>2. \A e \in Entries : e.key \in Nat
  BY <1>1, EntryTypes, ConsistentHashAssumption DEF Ring
<1>3. ASSUME NEW key \in Ring, ~OnlyBehind(key)
      PROVE  \E e \in Entries : e.key = NextPoint(key) /\ e.value = GetEntry(buckets, key)
  <2>1. OnlyBehind(key) <=> AllBehind(Entries, key)
    BY DEF OnlyBehind, AllBehind
  <2>2. \E e \in Entries : e.value = GetEntry(buckets, key) /\ IsNext(Entries, key, e)
    BY <1>1, <1>3, <2>1, Lookup
  <2>3. ASSUME NEW e \in Entries, IsNext(Entries, key, e) PROVE e.key = NextPoint(key)
    <3> DEFINE keys  == {d.key : d \in Entries}
               after == {k \in keys : k >= key}
    <3>1. keys \in SUBSET Nat /\ keys # {} /\ after \in SUBSET Nat
      BY <1>2
    <3>2. Min(keys) \in keys /\ \A k \in keys : Min(keys) <= k
      BY <3>1, MinOf
    <3>3. after # {} => Min(after) \in after /\ \A k \in after : Min(after) <= k
      BY <3>1, MinOf
    <3>4. NextPoint(key) = IF after # {} THEN Min(after) ELSE Min(keys)
      BY DEF NextPoint
    <3>5. CASE \E d \in Entries : d.key >= key
      <4>1. after # {} /\ e.key \in after /\ \A k \in after : e.key <= k
        BY <2>3, <3>5 DEF IsNext
      <4>2. e.key = Min(after)
        <5>1. e.key <= Min(after) /\ Min(after) <= e.key
          BY <3>3, <4>1
        <5>2. e.key \in Nat /\ Min(after) \in Nat
          BY <3>1, <3>3, <4>1
        <5>3. QED
          BY <5>1, <5>2
      <4>3. QED
        BY <3>4, <4>1, <4>2
    <3>6. CASE ~ \E d \in Entries : d.key >= key
      <4>1. after = {} /\ e.key \in keys /\ \A k \in keys : e.key <= k
        BY <2>3, <3>6 DEF IsNext
      <4>2. e.key = Min(keys)
        <5>1. e.key <= Min(keys) /\ Min(keys) <= e.key
          BY <3>2, <4>1
        <5>2. e.key \in Nat /\ Min(keys) \in Nat
          BY <3>1, <3>2, <4>1
        <5>3. QED
          BY <5>1, <5>2
      <4>3. QED
        BY <3>4, <4>1, <4>2
    <3>7. QED
      BY <3>5, <3>6
  <2>4. QED
    BY <2>2, <2>3
<1>4. QED
  BY <1>3 DEF LookupCorrect

(***************************************************************************)
(* The ring and a set of servers, each with its value                      *)
(***************************************************************************)

\* the points that a set of servers has at x
PointsAt(h, on, x) == {p \in on \X Points : h[p] = x}

\* The ring has as many entries with a key as the servers have points there.
Tracks(h, on, bs) ==
    \A x \in Ring : HowMany(bs, x) = Cardinality(PointsAt(h, on, x))

\* An entry at a point of a server has the value of that server.
Leads(h, on, bs, m) ==
    \A e \in EntriesOf(bs) : \A k \in on : \A i \in Points :
        e.key = h[<<k, i>>] => e.value = m[k]

LEMMA PointsAtFinite ==
    ASSUME NEW h, NEW on, IsFiniteSet(on), NEW x
    PROVE  /\ IsFiniteSet(PointsAt(h, on, x))
           /\ Cardinality(PointsAt(h, on, x)) \in Nat
           /\ Cardinality(PointsAt(h, on, x)) = 0 <=> PointsAt(h, on, x) = {}
<1>1. UniformFactor - 1 \in Int /\ 0 \in Int
  BY ConsistentHashAssumption
<1>2. IsFiniteSet(Points)
  BY <1>1, FS_Interval DEF Points
<1>3. IsFiniteSet(on \X Points)
  BY <1>2, FS_Product
<1>4. IsFiniteSet(PointsAt(h, on, x))
  BY <1>3, FS_Subset DEF PointsAt
<1>5. QED
  BY <1>4, FS_CardinalityType, FS_EmptySet

LEMMA PointsAtGrow ==
    ASSUME NEW on, IsFiniteSet(on), NEW k, k \notin on, NEW x
    PROVE  Cardinality(PointsAt(hash, on \cup {k}, x)) =
             Cardinality(PointsAt(hash, on, x)) + Cardinality(PointsBefore(k, UniformFactor, x))
<1> DEFINE A == PointsBefore(k, UniformFactor, x)
           B == {<<k, i>> : i \in A}
           C == PointsAt(hash, on, x)
           f == [i \in A |-> <<k, i>>]
<1>1. UniformFactor - 1 \in Int /\ 0 \in Int
  BY ConsistentHashAssumption
<1>2. IsFiniteSet(0 .. UniformFactor - 1)
  BY <1>1, FS_Interval
<1>3. A \subseteq 0 .. UniformFactor - 1
  BY DEF PointsBefore
<1>4. IsFiniteSet(A)
  BY <1>2, <1>3, FS_Subset
<1>5. f \in [A -> B] /\ (\A i, j \in A : f[i] = f[j] => i = j) /\ \A b \in B : \E i \in A : f[i] = b
  OBVIOUS
<1>6. PointsAt(hash, on \cup {k}, x) = C \cup B
  <2>1. ASSUME NEW p \in (on \cup {k}) \X Points
        PROVE  hash[p] = x <=> p \in C \cup B
    <3>1. PICK j \in on \cup {k}, i \in Points : p = <<j, i>>
      OBVIOUS
    <3>2. p \in C <=> j \in on /\ hash[<<j, i>>] = x
      BY <3>1 DEF PointsAt
    <3>3. p \in B <=> j = k /\ hash[<<k, i>>] = x
      BY <3>1 DEF PointsBefore, Points
    <3>4. QED
      BY <3>1, <3>2, <3>3
  <2>5. A \subseteq Points
    BY DEF PointsBefore, Points
  <2>6. B \subseteq (on \cup {k}) \X Points
    <3> HIDE DEF A
    <3>1. QED
      BY <2>5
  <2>7. C \subseteq (on \cup {k}) \X Points
    BY DEF PointsAt
  <2>2. C \cup B \subseteq (on \cup {k}) \X Points
    BY <2>6, <2>7
  <2> HIDE DEF C, B
  <2>3. \A p : p \in PointsAt(hash, on \cup {k}, x)
                 <=> p \in (on \cup {k}) \X Points /\ hash[p] = x
    BY DEF PointsAt
  <2>4. QED
    BY <2>1, <2>2, <2>3
<1>7. C \cap B = {}
  BY DEF PointsAt
<1> HIDE DEF A, B, C, f
<1>8. IsFiniteSet(B) /\ Cardinality(B) = Cardinality(A) /\ Cardinality(B) \in Nat
  BY <1>4, <1>5, SameCount
<1>9. IsFiniteSet(C) /\ Cardinality(C) \in Nat
  BY PointsAtFinite DEF C
<1>10. Cardinality(C \cap B) = 0
  BY <1>7, FS_EmptySet
<1>11. Cardinality(C \cup B) = Cardinality(C) + Cardinality(B) - Cardinality(C \cap B)
  BY <1>8, <1>9, FS_Union
<1>12. Cardinality(C \cup B) = Cardinality(C) + Cardinality(A)
  BY <1>8, <1>9, <1>10, <1>11
<1>13. QED
  BY <1>6, <1>12 DEF A, C

\* A ring without entries, which is what remove_all_entries leaves.
LEMMA EmptyRing ==
    ASSUME NEW bs, bs = [n \in Buckets |-> <<>>]
    PROVE  /\ RingOK(bs) /\ EntriesOf(bs) = {}
           /\ Tracks(hash, {}, bs) /\ \A m : Leads(hash, {}, bs, m)
<1>1. RingOK(bs)
  <2>1. <<>> \in Seq(RingEntries) /\ Len(<<>>) = 0
    OBVIOUS
  <2>2. bs \in BucketLists
    BY <2>1 DEF BucketLists
  <2>3. QED
    BY <2>1, <2>2 DEF RingOK, Ascending
<1>2. EntriesOf(bs) = {}
  <2>1. ASSUME NEW e \in EntriesOf(bs) PROVE FALSE
    BY <1>1, EntryPlace
  <2>2. QED
    BY <2>1
<1>3. ASSUME NEW x \in Ring
      PROVE  HowMany(bs, x) = Cardinality(PointsAt(hash, {}, x))
  <2>1. HowMany(bs, x) = 0
    BY <1>1, <1>2, HowManyEntries
  <2>2. PointsAt(hash, {}, x) = {}
    BY DEF PointsAt
  <2>3. QED
    BY <2>1, <2>2, FS_EmptySet
<1>4. QED
  BY <1>1, <1>2, <1>3 DEF Tracks, Leads

LEMMA RingGains ==
    ASSUME hash \in Hashes, NEW bs, RingOK(bs), NEW on \in SUBSET Keys, IsFiniteSet(on),
           Tracks(hash, on, bs), NEW k \in Keys, k \notin on, NEW v \in Values,
           NEW b2, b2 = WithPoints(bs, k, v)
    PROVE  /\ RingOK(b2)
           /\ EntriesOf(b2) = EntriesOf(bs) \cup ServerEntries(k, v)
           /\ Tracks(hash, on \cup {k}, b2)
<1>1. /\ RingOK(b2)
      /\ EntriesOf(b2) = EntriesOf(bs) \cup ServerEntries(k, v)
      /\ \A x \in Ring :
           HowMany(b2, x) =
             HowMany(bs, x) + Cardinality(PointsBefore(k, UniformFactor, x))
  BY AddAll
<1>2. ASSUME NEW x \in Ring
      PROVE  HowMany(b2, x) = Cardinality(PointsAt(hash, on \cup {k}, x))
  BY <1>1, PointsAtGrow DEF Tracks
<1>3. QED
  BY <1>1, <1>2 DEF Tracks

LEMMA RingLoses ==
    ASSUME hash \in Hashes, NEW bs, RingOK(bs), NEW on \in SUBSET Keys, IsFiniteSet(on),
           Tracks(hash, on, bs), NEW k \in on,
           NEW b2, b2 = WithoutPoints(bs, k)
    PROVE  /\ RingOK(b2)
           /\ EntriesOf(b2) \subseteq EntriesOf(bs)
           /\ Tracks(hash, on \ {k}, b2)
<1> DEFINE rest == on \ {k}
<1>1. IsFiniteSet(rest) /\ k \notin rest /\ rest \cup {k} = on /\ k \in Keys
  BY FS_RemoveElement
<1>2. UniformFactor \in Nat
  BY ConsistentHashAssumption
<1> HIDE DEF rest
<1>3. ASSUME NEW x \in Ring
      PROVE  /\ HowMany(bs, x) = Cardinality(PointsAt(hash, rest, x))
                                   + Cardinality(PointsBefore(k, UniformFactor, x))
             /\ Cardinality(PointsAt(hash, rest, x)) \in Nat
             /\ Cardinality(PointsBefore(k, UniformFactor, x)) \in Nat
  <2>1. HowMany(bs, x) = Cardinality(PointsAt(hash, rest \cup {k}, x))
    BY <1>1 DEF Tracks
  <2>2. Cardinality(PointsAt(hash, rest \cup {k}, x)) =
          Cardinality(PointsAt(hash, rest, x)) + Cardinality(PointsBefore(k, UniformFactor, x))
    BY <1>1, PointsAtGrow
  <2>3. QED
    BY <1>1, <1>2, <2>1, <2>2, PointsAtFinite, CountPoints
<1>4. \A x \in Ring : Cardinality(PointsBefore(k, UniformFactor, x)) <= HowMany(bs, x)
  BY <1>3
<1>5. /\ RingOK(b2)
      /\ EntriesOf(b2) \subseteq EntriesOf(bs)
      /\ \A x \in Ring :
           HowMany(bs, x) =
             HowMany(b2, x) + Cardinality(PointsBefore(k, UniformFactor, x))
  BY <1>1, <1>4, RemoveAll
<1>6. ASSUME NEW x \in Ring
      PROVE  HowMany(b2, x) = Cardinality(PointsAt(hash, rest, x))
  <2>1. HowMany(b2, x) \in Nat
    BY <1>5, HowManyEntries
  <2>2. QED
    BY <1>3, <1>5, <2>1
<1>7. QED
  BY <1>5, <1>6 DEF Tracks, rest

\* The keys of the ring are the points of the servers.
LEMMA RingKeys ==
    ASSUME hash \in Hashes, NEW bs, RingOK(bs), NEW on \in SUBSET Keys, IsFiniteSet(on),
           Tracks(hash, on, bs)
    PROVE  /\ \A e \in EntriesOf(bs) : \E k \in on, i \in Points : e.key = hash[<<k, i>>]
           /\ \A k \in on, i \in Points : \E e \in EntriesOf(bs) : e.key = hash[<<k, i>>]
<1>1. ASSUME NEW e \in EntriesOf(bs)
      PROVE  \E k \in on, i \in Points : e.key = hash[<<k, i>>]
  <2>1. e.key \in Ring
    BY EntryTypes
  <2>2. HowMany(bs, e.key) # 0
    BY <2>1, HowManyEntries
  <2>3. PointsAt(hash, on, e.key) # {}
    BY <2>1, <2>2, PointsAtFinite DEF Tracks
  <2>4. PICK p \in on \X Points : hash[p] = e.key
    BY <2>3 DEF PointsAt
  <2>5. QED
    BY <2>4
<1>2. ASSUME NEW k \in on, NEW i \in Points
      PROVE  \E e \in EntriesOf(bs) : e.key = hash[<<k, i>>]
  <2>1. hash[<<k, i>>] \in Ring
    BY PointsOnRing
  <2>2. <<k, i>> \in PointsAt(hash, on, hash[<<k, i>>])
    BY DEF PointsAt
  <2>3. HowMany(bs, hash[<<k, i>>]) # 0
    BY <2>1, <2>2, PointsAtFinite DEF Tracks
  <2>4. QED
    BY <2>1, <2>3, HowManyEntries
<1>3. QED
  BY <1>1, <1>2

LEMMA LeadsGain ==
    ASSUME hash \in Hashes, NoCollisions,
           NEW bs, RingOK(bs), NEW on \in SUBSET Keys, IsFiniteSet(on),
           Tracks(hash, on, bs), NEW m, Leads(hash, on, bs, m),
           NEW k \in Keys, k \notin on, NEW v,
           NEW b2, EntriesOf(b2) = EntriesOf(bs) \cup ServerEntries(k, v),
           NEW m2, m2[k] = v, \A j \in on : m2[j] = m[j]
    PROVE  Leads(hash, on \cup {k}, b2, m2)
<1> SUFFICES ASSUME NEW e \in EntriesOf(b2), NEW j \in on \cup {k}, NEW i \in Points,
                    e.key = hash[<<j, i>>]
             PROVE  e.value = m2[j]
  BY DEF Leads
<1>1. CASE e \in EntriesOf(bs)
  <2>1. PICK l \in on, h \in Points : e.key = hash[<<l, h>>]
    BY <1>1, RingKeys
  <2>2. l \in Keys /\ j \in Keys /\ hash[<<l, h>>] = hash[<<j, i>>]
    BY <2>1
  <2>3. l = j
    BY <2>2 DEF NoCollisions
  <2>4. QED
    BY <1>1, <2>3 DEF Leads
<1>2. CASE e \in ServerEntries(k, v)
  <2>1. PICK h \in Points : e = [key |-> hash[<<k, h>>], value |-> v]
    BY <1>2 DEF ServerEntries
  <2>2. e.key = hash[<<k, h>>] /\ e.value = v
    BY <2>1
  <2>3. j \in Keys /\ hash[<<k, h>>] = hash[<<j, i>>]
    BY <2>2
  <2>4. j = k
    BY <2>3 DEF NoCollisions
  <2>5. QED
    BY <2>2, <2>4
<1>3. QED
  BY <1>1, <1>2

LEMMA LeadsLose ==
    ASSUME NEW bs, NEW on, NEW m, Leads(hash, on, bs, m), NEW k,
           NEW b2, EntriesOf(b2) \subseteq EntriesOf(bs),
           NEW m2, \A j \in on \ {k} : m2[j] = m[j]
    PROVE  Leads(hash, on \ {k}, b2, m2)
BY DEF Leads

-----------------------------------------------------------------------------
(***************************************************************************)
(* The inductive invariant                                                 *)
(***************************************************************************)
TypeOK ==
    /\ hash \in Hashes
    /\ RingOK(buckets)
    /\ entries_cnt \in Nat
    /\ controller \in {"NULL", "initialized", "shutdown"}
    /\ main \in {"none", "get_next_message", "remove_all_clients",
                 "mrpc_client_stop", "ff_event_wait", "wrapper_stop"}
    /\ job \in {"none", "add", "remove", "remove all", "stop"}
    /\ leaving \in Wrappers \cup {NoValue}
    /\ stop_event \in BOOLEAN
    /\ Servers \in SUBSET Keys /\ IsFiniteSet(Servers)
    /\ clients_map \in [Servers -> Wrappers]
    /\ pool \in SUBSET Wrappers
    /\ current_clients_cnt \in Nat
    /\ connector \in [Wrappers -> Nat]
    /\ client \in [Wrappers -> {"stopped", "started", "stopping"}]
    /\ idle_event \in [Wrappers -> BOOLEAN]
    /\ ref_cnt \in [Wrappers -> Nat]
    /\ tries \in [Callers -> Nat]
    /\ cookie \in [Callers -> Wrappers \cup {NoValue}]
    /\ crashed \in BOOLEAN
    /\ adds \in Nat /\ deleted \in SUBSET Nat
    /\ starts \in Nat

\* where the main fiber and mrpc_distributed_client_stop are with respect to
\* each other
Positions ==
    /\ controller = "NULL" => main = "none" /\ ~stop_event /\ ~crashed
    /\ controller = "initialized" => main # "none" /\ ~stop_event /\ job # "stop"
    /\ controller = "shutdown" => (main = "none" <=> stop_event)
    /\ job = "none" <=> main \in {"none", "get_next_message"}
    /\ main = "remove_all_clients" => job \in {"remove all", "stop"}
    /\ leaving # NoValue <=> main \in {"mrpc_client_stop", "ff_event_wait", "wrapper_stop"}
    /\ main = "none" => Servers = {}

\* A wrapper is in the pool, or it is the one that is stopped, or it belongs
\* to one server; and those of the servers are counted.
Holders ==
    /\ \A j, k \in Servers : clients_map[j] = clients_map[k] => j = k
    /\ \A k \in Servers : clients_map[k] \notin pool /\ clients_map[k] # leaving
    /\ leaving \notin pool
    /\ \A w \in Wrappers :
         w \in pool \/ w = leaving \/ \E k \in Servers : clients_map[k] = w
    /\ current_clients_cnt =
         Cardinality(Servers) + (IF leaving # NoValue /\ Counted THEN 1 ELSE 0)

\* A wrapper of the pool has no connector and a stopped client, and every
\* connector that the controller gave is deleted or in a wrapper.
Connected ==
    /\ \A w \in Wrappers : w \in pool <=> connector[w] = 0
    /\ \A w \in Wrappers : connector[w] <= adds
    /\ deleted \subseteq 1 .. adds
    /\ \A a \in 1 .. adds : a \in deleted \/ \E w \in Wrappers : connector[w] = a
    /\ \A w \in pool : client[w] = "stopped"
    /\ main \in {"ff_event_wait", "wrapper_stop"} => client[leaving] = "stopped"

\* A wrapper goes back into the pool without users, unless an assertion has
\* just found some; those of one that is stopped do not come back if it is
\* off the ring.
UsersCounted ==
    \A w \in Wrappers :
        /\ ref_cnt[w] = Cardinality(Users(w))
        /\ connector[w] # 0 => (idle_event[w] <=> ref_cnt[w] = 0)
        /\ w \in pool /\ (~crashed \/ NoCollisions) => ref_cnt[w] = 0
        /\ main = "wrapper_stop" /\ w = leaving /\ NoCollisions => ref_cnt[w] = 0

RingInv ==
    /\ Tracks(hash, OnRing, buckets)
    /\ NoCollisions => Leads(hash, OnRing, buckets, clients_map)
    /\ entries_cnt = Cardinality(OnRing) * UniformFactor

DCInv ==
    /\ TypeOK /\ Positions /\ Holders /\ Connected /\ UsersCounted /\ RingInv
    /\ AssertionsHold

-----------------------------------------------------------------------------
LEMMA NoWrapper == NoValue \notin Wrappers
BY ConsistentHashAssumption DEF Wrappers

LEMMA NoPoints == 0 * UniformFactor = 0
BY ConsistentHashAssumption

LEMMA DCInit == Init => DCInv
<1> SUFFICES ASSUME Init PROVE DCInv
  OBVIOUS
<1>1. clients_map = EmptyMap /\ Servers = {} /\ clients_map \in [Servers -> Wrappers]
  BY DEF Init, EmptyMap, Servers
<1>2. IsFiniteSet({}) /\ Cardinality({}) = 0
  BY FS_EmptySet
<1>3. /\ RingOK(buckets) /\ EntriesOf(buckets) = {}
      /\ Tracks(hash, {}, buckets) /\ \A m : Leads(hash, {}, buckets, m)
  BY EmptyRing DEF Init, RingInit
<1>4. TypeOK
  BY <1>1, <1>2, <1>3 DEF Init, RingInit, TypeOK
<1>5. Positions
  BY <1>1 DEF Init, Positions
<1>6. Holders
  BY <1>1, <1>2, NoWrapper DEF Init, Holders
<1>7. Connected
  BY DEF Init, Connected
<1>8. UsersCounted
  <2>1. ASSUME NEW w \in Wrappers PROVE Users(w) = {}
    BY NoWrapper DEF Init, Users
  <2>2. QED
    BY <2>1, <1>2 DEF Init, UsersCounted
<1>9. RingInv
  <2>1. OnRing = {}
    BY <1>1 DEF OnRing
  <2>2. entries_cnt = 0 /\ UniformFactor \in Nat
    BY ConsistentHashAssumption DEF Init, RingInit
  <2>3. QED
    BY <1>2, <1>3, <2>1, <2>2 DEF RingInv
<1>10. AssertionsHold
  BY DEF Init, AssertionsHold
<1>11. QED
  BY <1>4, <1>5, <1>6, <1>7, <1>8, <1>9, <1>10 DEF DCInv

-----------------------------------------------------------------------------
(***************************************************************************)
(* The ring                                                                *)
(***************************************************************************)

LEMMA SameRing ==
    ASSUME TypeOK, RingInv, UNCHANGED ringVars, OnRing' = OnRing,
           \A k \in OnRing : clients_map'[k] = clients_map[k]
    PROVE  RingOK(buckets') /\ hash' \in Hashes /\ RingInv'
<1>1. hash' = hash /\ buckets' = buckets /\ entries_cnt' = entries_cnt
  BY DEF ringVars
<1>2. NoCollisions' <=> NoCollisions
  BY <1>1 DEF NoCollisions
<1>3. Tracks(hash', OnRing', buckets')
  BY <1>1 DEF RingInv
<1>4. ASSUME NoCollisions PROVE Leads(hash', OnRing', buckets', clients_map')
  <2>1. Leads(hash, OnRing, buckets, clients_map)
    BY <1>4 DEF RingInv
  <2>2. Leads(hash, OnRing, buckets, clients_map')
    BY <2>1 DEF Leads
  <2>3. QED
    BY <2>2, <1>1
<1>5. RingInv'
  BY <1>1, <1>2, <1>3, <1>4 DEF RingInv
<1>6. QED
  BY <1>1, <1>5 DEF TypeOK

LEMMA AddClientRing ==
    ASSUME DCInv, NEW k \in Keys, NEW w \in Wrappers, AddClient(k, w)
    PROVE  /\ RingOK(buckets') /\ hash' \in Hashes /\ RingInv'
           /\ Servers' = Servers \cup {k} /\ OnRing' = OnRing \cup {k} /\ OnRing = Servers
<1> USE DEF DCInv
<1>1. k \notin Servers /\ job' = job /\ job = "none"
  BY DEF AddClient, mainVars, TypeOK, Positions, GetConnector, GetNextMessage
<1>2. /\ clients_map' = [j \in Servers \cup {k} |-> IF j = k THEN w ELSE clients_map[j]]
      /\ hash' = hash /\ buckets' = WithPoints(buckets, k, w)
      /\ entries_cnt' = entries_cnt + UniformFactor
  BY DEF AddClient, AddEntry
<1>3. Servers' = Servers \cup {k}
  BY <1>2 DEF Servers
<1>4. OnRing = Servers /\ OnRing' = Servers \cup {k}
  BY <1>1, <1>3 DEF OnRing
<1>5. /\ hash \in Hashes /\ RingOK(buckets) /\ Servers \in SUBSET Keys /\ IsFiniteSet(Servers)
      /\ Tracks(hash, Servers, buckets) /\ w \in Values
  BY <1>4 DEF TypeOK, RingInv, Wrappers
<1>6. /\ RingOK(buckets') /\ EntriesOf(buckets') = EntriesOf(buckets) \cup ServerEntries(k, w)
      /\ Tracks(hash, Servers \cup {k}, buckets')
  <2>1. buckets' = WithPoints(buckets, k, w) /\ k \notin Servers
    BY <1>1, <1>2
  <2>2. QED
    BY <1>5, <2>1, RingGains
<1>7. NoCollisions' <=> NoCollisions
  BY <1>2 DEF NoCollisions
<1>8. ASSUME NoCollisions PROVE Leads(hash', OnRing', buckets', clients_map')
  <2>1. Leads(hash, Servers, buckets, clients_map)
    BY <1>4, <1>8 DEF RingInv
  <2>2. clients_map'[k] = w /\ \A j \in Servers : clients_map'[j] = clients_map[j]
    BY <1>1, <1>2
  <2>3. Leads(hash, Servers \cup {k}, buckets', clients_map')
    BY <1>1, <1>5, <1>6, <1>8, <2>1, <2>2, LeadsGain
  <2>4. QED
    BY <2>3, <1>2, <1>4
<1>9. entries_cnt' = Cardinality(OnRing') * UniformFactor
  <2>1. Cardinality(Servers \cup {k}) = Cardinality(Servers) + 1 /\ Cardinality(Servers) \in Nat
    BY <1>1, <1>5, FS_AddElement, FS_CardinalityType
  <2>2. entries_cnt = Cardinality(Servers) * UniformFactor /\ UniformFactor \in Nat
    BY <1>4, ConsistentHashAssumption DEF RingInv
  <2>3. QED
    BY <1>2, <1>4, <2>1, <2>2
<1>10. RingInv'
  BY <1>2, <1>4, <1>6, <1>7, <1>8, <1>9 DEF RingInv
<1>11. QED
  BY <1>2, <1>3, <1>4, <1>5, <1>6, <1>10

LEMMA RemoveClientRing ==
    ASSUME DCInv, NEW k \in Keys, RemoveClient(k)
    PROVE  /\ RingOK(buckets') /\ hash' \in Hashes /\ RingInv'
           /\ k \in Servers /\ Servers' = Servers \ {k}
           /\ OnRing' = OnRing \ {k} /\ OnRing = Servers
<1> USE DEF DCInv
<1>1. k \in Servers /\ job' = "remove" /\ job = "none"
  BY DEF RemoveClient, WrapperStop, TypeOK, Positions, GetNextMessage
<1>2. /\ clients_map' = [j \in Servers \ {k} |-> clients_map[j]]
      /\ hash' = hash /\ buckets' = WithoutPoints(buckets, k)
      /\ entries_cnt' = entries_cnt - UniformFactor
  BY DEF RemoveClient, RemoveEntry, Restrict
<1>3. Servers' = Servers \ {k}
  BY <1>2 DEF Servers
<1>4. OnRing = Servers /\ OnRing' = Servers \ {k}
  BY <1>1, <1>3 DEF OnRing
<1>5. /\ hash \in Hashes /\ RingOK(buckets) /\ Servers \in SUBSET Keys /\ IsFiniteSet(Servers)
      /\ Tracks(hash, Servers, buckets)
  BY <1>4 DEF TypeOK, RingInv
<1>6. /\ RingOK(buckets') /\ EntriesOf(buckets') \subseteq EntriesOf(buckets)
      /\ Tracks(hash, Servers \ {k}, buckets')
  BY <1>1, <1>2, <1>5, RingLoses
<1>7. NoCollisions' <=> NoCollisions
  BY <1>2 DEF NoCollisions
<1>8. ASSUME NoCollisions PROVE Leads(hash', OnRing', buckets', clients_map')
  <2>1. Leads(hash, Servers, buckets, clients_map)
    BY <1>4, <1>8 DEF RingInv
  <2>2. \A j \in Servers \ {k} : clients_map'[j] = clients_map[j]
    BY <1>2
  <2>3. Leads(hash, Servers \ {k}, buckets', clients_map')
    BY <1>6, <2>1, <2>2, LeadsLose
  <2>4. QED
    BY <2>3, <1>2, <1>4
<1>9. entries_cnt' = Cardinality(OnRing') * UniformFactor
  <2>1. Cardinality(Servers \ {k}) = Cardinality(Servers) - 1 /\ Cardinality(Servers) \in Nat
    BY <1>1, <1>5, FS_RemoveElement, FS_CardinalityType
  <2>2. entries_cnt = Cardinality(Servers) * UniformFactor /\ UniformFactor \in Nat
    BY <1>4, ConsistentHashAssumption DEF RingInv
  <2>3. QED
    BY <1>2, <1>4, <2>1, <2>2
<1>10. RingInv'
  BY <1>2, <1>4, <1>6, <1>7, <1>8, <1>9 DEF RingInv
<1>11. QED
  BY <1>1, <1>2, <1>3, <1>4, <1>5, <1>6, <1>10

LEMMA RemoveAllRing ==
    ASSUME DCInv, NEW why \in {"remove all", "stop"}, BeginRemoveAll(why)
    PROVE  /\ RingOK(buckets') /\ hash' \in Hashes /\ RingInv'
           /\ OnRing' = {} /\ EntriesOf(buckets') = {}
<1> USE DEF DCInv
<1>1. job' = why /\ hash' = hash /\ buckets' = [n \in Buckets |-> <<>>] /\ entries_cnt' = 0
  BY DEF BeginRemoveAll, RemoveAllEntries
<1>2. OnRing' = {}
  BY <1>1 DEF OnRing
<1>3. /\ RingOK(buckets') /\ EntriesOf(buckets') = {}
      /\ Tracks(hash, {}, buckets') /\ \A m : Leads(hash, {}, buckets', m)
  BY <1>1, EmptyRing
<1>4. Cardinality({}) = 0 /\ UniformFactor \in Nat
  BY FS_EmptySet, ConsistentHashAssumption
<1>5. RingInv'
  <2>1. Tracks(hash', OnRing', buckets') /\ Leads(hash', OnRing', buckets', clients_map')
    <3>1. hash' = hash
      BY <1>1
    <3>2. Tracks(hash, {}, buckets') /\ Leads(hash, {}, buckets', clients_map')
      BY <1>3
    <3>3. QED
      BY <3>1, <3>2, <1>2
  <2>2. entries_cnt' = Cardinality(OnRing') * UniformFactor
    <3>1. 0 * UniformFactor = 0
      BY NoPoints
    <3>2. Cardinality(OnRing') = 0 /\ entries_cnt' = 0
      BY <1>1, <1>2, <1>4
    <3>3. QED
      BY <3>1, <3>2
  <2>3. QED
    BY <2>1, <2>2 DEF RingInv
<1>6. QED
  BY <1>1, <1>2, <1>3, <1>5 DEF TypeOK

LEMMA RemoveNextRing ==
    ASSUME DCInv, RemoveNext
    PROVE  RingOK(buckets') /\ hash' \in Hashes /\ RingInv'
<1> USE DEF DCInv
<1>1. job \in {"remove all", "stop"} /\ job' = job
  BY DEF RemoveNext, Positions, WrapperStop
<1>2. OnRing = {} /\ OnRing' = {}
  BY <1>1 DEF OnRing
<1>3. UNCHANGED ringVars
  BY DEF RemoveNext
<1>4. QED
  BY <1>2, <1>3, SameRing

\* the other steps
LEMMA RingOtherwise ==
    ASSUME DCInv,
           \/ UNCHANGED <<ringVars, job, clients_map>>
           \/ \E k \in Keys, w \in Wrappers : AddClientTwice(k, w)
           \/ AllRemoved \/ WrapperStopped
    PROVE  RingOK(buckets') /\ hash' \in Hashes /\ RingInv'
<1> USE DEF DCInv
<1>1. UNCHANGED <<ringVars, clients_map>>
  BY DEF AddClientTwice, AllRemoved, WrapperStopped, mapVars
<1>2. Servers' = Servers
  BY <1>1 DEF Servers
<1>3. OnRing' = OnRing
  <2>1. CASE UNCHANGED <<ringVars, job, clients_map>>
    BY <2>1, <1>2 DEF OnRing
  <2>2. ASSUME NEW k \in Keys, NEW w \in Wrappers, AddClientTwice(k, w) PROVE OnRing' = OnRing
    <3>1. job = "none" /\ job' = "add"
      BY <2>2 DEF AddClientTwice, WrapperStop, TypeOK, Positions, GetConnector, GetNextMessage
    <3>2. QED
      BY <3>1, <1>2 DEF OnRing
  <2>3. CASE AllRemoved
    BY <2>3, <1>2 DEF AllRemoved, OnRing
  <2>4. CASE WrapperStopped
    <3>1. \/ job \in {"add", "remove"} /\ job' = "none"
          \/ job' = job
      BY <2>4 DEF WrapperStopped
    <3>2. QED
      BY <3>1, <1>2 DEF OnRing
  <2>5. QED
    BY <2>1, <2>2, <2>3, <2>4
<1>4. QED
  BY <1>1, <1>3, SameRing

\* What get_entry returns is a wrapper, and, if points do not coincide, the
\* one of a server on the ring.
LEMMA FoundOnRing ==
    ASSUME DCInv, NEW key \in Ring, GetEntry(buckets, key) # NoValue
    PROVE  /\ GetEntry(buckets, key) \in Wrappers
           /\ NoCollisions => \E k \in OnRing : k \in Servers /\ clients_map[k] = GetEntry(buckets, key)
<1> USE DEF DCInv
<1>1. RingOK(buckets) /\ hash \in Hashes
  BY DEF TypeOK
<1>2. PICK e \in EntriesOf(buckets) : e.value = GetEntry(buckets, key)
  BY <1>1, Lookup
<1>3. e.value \in Wrappers
  BY <1>1, EntryTypes DEF Wrappers
<1>4. ASSUME NoCollisions PROVE \E k \in OnRing : k \in Servers /\ clients_map[k] = e.value
  <2>1. OnRing \in SUBSET Servers /\ OnRing \in SUBSET Keys /\ IsFiniteSet(OnRing)
    BY FS_EmptySet DEF TypeOK, OnRing
  <2>2. Tracks(hash, OnRing, buckets) /\ Leads(hash, OnRing, buckets, clients_map)
    BY <1>4 DEF RingInv
  <2>3. PICK k \in OnRing, i \in Points : e.key = hash[<<k, i>>]
    BY <1>1, <2>1, <2>2, RingKeys
  <2>4. clients_map[k] = e.value
    BY <2>2, <2>3 DEF Leads
  <2>5. QED
    BY <2>1, <2>3, <2>4
<1>5. QED
  BY <1>2, <1>3, <1>4

\* get_entry finds nothing only if all points are behind the key.
LEMMA NotFound ==
    ASSUME DCInv, NEW key \in Ring, GetEntry(buckets, key) = NoValue
    PROVE  OnlyBehind(key)
<1>1. RingOK(buckets)
  BY DEF DCInv, TypeOK
<1>2. Entries = EntriesOf(buckets)
  BY DEF Entries, EntriesOf
<1>3. AllBehind(Entries, key)
  <2>1. SUFFICES ASSUME ~AllBehind(Entries, key) PROVE FALSE
    OBVIOUS
  <2>2. PICK e \in Entries : e.value = NoValue
    BY <1>1, <1>2, <2>1, Lookup
  <2>3. QED
    BY <1>1, <1>2, <2>2, EntryTypes, ConsistentHashAssumption
<1>4. QED
  BY <1>3 DEF AllBehind, OnlyBehind

LEMMA EmptyMeans ==
    ASSUME DCInv
    PROVE  IsEmpty <=> OnRing = {}
<1>1. IsFiniteSet(OnRing)
  BY FS_EmptySet DEF DCInv, TypeOK, OnRing
<1>2. Cardinality(OnRing) \in Nat /\ (Cardinality(OnRing) = 0 <=> OnRing = {})
  BY <1>1, FS_CardinalityType, FS_EmptySet
<1>3. entries_cnt = Cardinality(OnRing) * UniformFactor
  BY DEF DCInv, RingInv
<1>4. UniformFactor \in Nat \ {0}
  BY ConsistentHashAssumption
<1>5. \A c, u \in Nat : u # 0 => (c * u = 0 <=> c = 0)
  OBVIOUS
<1>6. QED
  BY <1>2, <1>3, <1>4, <1>5 DEF IsEmpty

-----------------------------------------------------------------------------
(***************************************************************************)
(* Steps that leave the wrappers and their users alone                     *)
(***************************************************************************)

LEMMA SameUsers ==
    ASSUME UsersCounted, UNCHANGED <<connector, idle_event, ref_cnt, cookie, pool, crashed, hash>>,
           main' = "wrapper_stop" => main = "wrapper_stop" /\ leaving' = leaving
    PROVE  UsersCounted'
<1>1. NoCollisions' <=> NoCollisions
  BY DEF NoCollisions
<1>2. ASSUME NEW w \in Wrappers PROVE Users(w)' = Users(w)
  BY DEF Users
<1>3. QED
  BY <1>1, <1>2 DEF UsersCounted

LEMMA NotCrashed ==
    ASSUME ~crashed' PROVE AssertionsHold'
BY DEF AssertionsHold

LEMMA ApplicationStep ==
    ASSUME DCInv, ~crashed, Start \/ Stop \/ StopReturns
    PROVE  DCInv'
<1>1. UNCHANGED <<hash, buckets, entries_cnt, job, leaving, clients_map, pool, current_clients_cnt,
                  connector, client, idle_event, ref_cnt, tries, cookie, crashed, adds, deleted>>
  BY DEF Start, Stop, StopReturns, ringVars, mainVars, mapVars, wrapperVars, callerVars, givenVars
<1>1a. starts' \in Nat
  <2>1. starts \in Nat
    BY DEF DCInv, TypeOK
  <2>2. QED
    BY <2>1 DEF Start, Stop, StopReturns
<1>2. Servers' = Servers /\ Counted' = Counted
  BY <1>1 DEF Servers, Counted
<1>3. RingOK(buckets') /\ hash' \in Hashes /\ RingInv'
  BY <1>1, RingOtherwise DEF ringVars
<1>4. TypeOK'
  BY <1>1, <1>2, <1>3, <1>1a DEF DCInv, TypeOK, Start, Stop, StopReturns, mainVars
<1>5. Positions'
  <2>1. stop_event \in BOOLEAN /\ Positions
    BY DEF DCInv, TypeOK
  <2>2. CASE Start
    BY <1>1, <1>2, <2>1, <2>2 DEF Positions, Start
  <2>3. CASE Stop
    BY <1>1, <1>2, <2>1, <2>3 DEF Positions, Stop, mainVars
  <2>4. CASE StopReturns
    BY <1>1, <1>2, <2>1, <2>4 DEF Positions, StopReturns
  <2>5. QED
    BY <2>2, <2>3, <2>4
<1>6. Holders'
  BY <1>1, <1>2 DEF DCInv, Holders
<1>7. main' = main \/ main' = "get_next_message"
  BY DEF Start, Stop, StopReturns, mainVars
<1>8. Connected'
  BY <1>1, <1>7 DEF DCInv, Connected
<1>9. UsersCounted'
  BY <1>1, <1>7, SameUsers DEF DCInv
<1>10. QED
  BY <1>1, <1>3, <1>4, <1>5, <1>6, <1>8, <1>9, NotCrashed DEF DCInv

LEMMA RefusedStep ==
    ASSUME DCInv, ~crashed, AddClientRefused
    PROVE  DCInv'
<1>1. UNCHANGED <<hash, buckets, entries_cnt, controller, main, job, leaving, stop_event, clients_map,
                  pool, current_clients_cnt, connector, client, idle_event, ref_cnt, tries, cookie,
                  crashed, starts>>
  BY DEF AddClientRefused, ringVars, mainVars, mapVars, wrapperVars, callerVars
<1>2. adds \in Nat /\ adds' = adds + 1 /\ deleted' = deleted \union {adds'}
  BY DEF DCInv, TypeOK, AddClientRefused, GetConnector
<1>3. Servers' = Servers /\ Counted' = Counted
  BY <1>1 DEF Servers, Counted
<1>4. RingOK(buckets') /\ hash' \in Hashes /\ RingInv'
  BY <1>1, RingOtherwise DEF ringVars
<1>4a. adds' \in Nat /\ deleted' \in SUBSET Nat
  <2>1. deleted \in SUBSET Nat
    BY DEF DCInv, TypeOK
  <2>2. QED
    BY <1>2, <2>1
<1>5. TypeOK'
  BY <1>1, <1>3, <1>4, <1>4a DEF DCInv, TypeOK
<1>6. Positions' /\ Holders'
  BY <1>1, <1>3 DEF DCInv, Positions, Holders
<1>7. Connected'
  <2>1. connector \in [Wrappers -> Nat] /\ Connected
    BY DEF DCInv, TypeOK
  <2>2. \A w \in Wrappers : connector[w] <= adds'
    <3>1. \A w \in Wrappers : connector[w] \in Nat /\ connector[w] <= adds
      BY <2>1 DEF Connected
    <3>2. QED
      BY <1>2, <3>1
  <2>3. deleted' \subseteq 1 .. adds'
    <3>1. deleted \subseteq 1 .. adds
      BY <2>1 DEF Connected
    <3>2. QED
      BY <1>2, <3>1
  <2>4. ASSUME NEW a \in 1 .. adds' PROVE a \in deleted' \/ \E w \in Wrappers : connector[w] = a
    <3>1. a = adds' \/ a \in 1 .. adds
      BY <1>2
    <3>2. QED
      BY <1>2, <2>1, <3>1 DEF Connected
  <2>5. QED
    BY <1>1, <2>1, <2>2, <2>3, <2>4 DEF Connected
<1>8. UsersCounted'
  BY <1>1, SameUsers DEF DCInv
<1>9. QED
  BY <1>1, <1>4, <1>5, <1>6, <1>7, <1>8, NotCrashed DEF DCInv

LEMMA WaitingStep ==
    ASSUME DCInv, ~crashed, ClientStops \/ NoUsersLeft
    PROVE  DCInv'
<1>1. UNCHANGED <<hash, buckets, entries_cnt, controller, job, leaving, stop_event, clients_map,
                  pool, current_clients_cnt, connector, idle_event, ref_cnt, tries, cookie,
                  crashed, adds, deleted, starts>>
  BY DEF ClientStops, NoUsersLeft, ringVars, mapVars, wrapperVars, callerVars, givenVars
<1>2. Servers' = Servers /\ Counted' = Counted
  BY <1>1 DEF Servers, Counted
<1>3. RingOK(buckets') /\ hash' \in Hashes /\ RingInv'
  BY <1>1, RingOtherwise DEF ringVars
<1>4. /\ main = "mrpc_client_stop" \/ main = "ff_event_wait"
      /\ main' \in {"ff_event_wait", "wrapper_stop"}
  BY DEF ClientStops, NoUsersLeft
<1>5. leaving \in Wrappers
  BY <1>4 DEF DCInv, TypeOK, Positions
<1>6. client' \in [Wrappers -> {"stopped", "started", "stopping"}] /\ client'[leaving] = "stopped"
  <2>1. client \in [Wrappers -> {"stopped", "started", "stopping"}] /\ Connected
    BY DEF DCInv, TypeOK
  <2>2. CASE ClientStops
    BY <2>1, <2>2, <1>5 DEF ClientStops
  <2>3. CASE NoUsersLeft
    BY <2>1, <2>3 DEF NoUsersLeft, wrapperVars, Connected
  <2>4. QED
    BY <2>2, <2>3
<1>7. TypeOK'
  BY <1>1, <1>2, <1>3, <1>4, <1>6 DEF DCInv, TypeOK
<1>8. Positions'
  BY <1>1, <1>2, <1>4 DEF DCInv, Positions
<1>9. Holders'
  BY <1>1, <1>2 DEF DCInv, Holders
<1>10. Connected'
  <2>1. \A w \in pool : client'[w] = "stopped"
    <3>1. \A w \in pool : w \in Wrappers /\ w # leaving /\ client[w] = "stopped"
      BY DEF DCInv, TypeOK, Holders, Connected
    <3>2. client \in [Wrappers -> {"stopped", "started", "stopping"}]
      BY DEF DCInv, TypeOK
    <3>3. QED
      BY <3>1, <3>2, <1>5 DEF ClientStops, NoUsersLeft, wrapperVars
  <2>2. QED
    BY <1>1, <1>6, <2>1 DEF DCInv, Connected
<1>11. UsersCounted'
  <2>1. CASE ClientStops
    BY <1>1, <2>1, SameUsers DEF DCInv, ClientStops
  <2>2. CASE NoUsersLeft
    <3>1. NoCollisions' <=> NoCollisions
      BY <1>1 DEF NoCollisions
    <3>2. ASSUME NEW w \in Wrappers PROVE Users(w)' = Users(w)
      BY <1>1 DEF Users
    <3>3. connector[leaving] # 0 /\ idle_event[leaving]
      BY <1>5, <2>2 DEF NoUsersLeft, DCInv, Connected, Holders
    <3>4. ref_cnt[leaving] = 0
      BY <1>5, <3>3 DEF DCInv, UsersCounted
    <3>5. QED
      BY <1>1, <3>1, <3>2, <3>4 DEF DCInv, UsersCounted
  <2>3. QED
    BY <2>1, <2>2
<1>12. QED
  BY <1>1, <1>3, <1>7, <1>8, <1>9, <1>10, <1>11, NotCrashed DEF DCInv

LEMMA EmptyingStep ==
    ASSUME DCInv, ~crashed, RemoveAllClients \/ GetStopMessage
    PROVE  DCInv'
<1>1. PICK why \in {"remove all", "stop"} :
        BeginRemoveAll(why) /\ main = "get_next_message" /\ (why = "stop" => controller = "shutdown")
  BY DEF RemoveAllClients, GetStopMessage, GetNextMessage
<1>2. /\ UNCHANGED <<controller, leaving, stop_event, clients_map, pool, current_clients_cnt,
                     connector, client, idle_event, ref_cnt, tries, cookie, crashed, adds, deleted,
                     starts>>
      /\ main' = "remove_all_clients" /\ job' = why /\ hash' = hash /\ entries_cnt' = 0
  BY <1>1 DEF BeginRemoveAll, RemoveAllEntries, mapVars, wrapperVars, callerVars, givenVars
<1>3. RingOK(buckets') /\ hash' \in Hashes /\ RingInv'
  BY <1>1, RemoveAllRing
<1>4. Servers' = Servers /\ leaving = NoValue
  BY <1>1, <1>2 DEF Servers, DCInv, Positions
<1>5. TypeOK'
  BY <1>2, <1>3, <1>4 DEF DCInv, TypeOK
<1>6. Positions'
  BY <1>1, <1>2, <1>4 DEF DCInv, Positions
<1>7. Holders'
  BY <1>2, <1>4 DEF DCInv, Holders
<1>8. Connected'
  BY <1>2 DEF DCInv, Connected
<1>9. UsersCounted'
  BY <1>2, SameUsers DEF DCInv
<1>10. QED
  BY <1>2, <1>3, <1>5, <1>6, <1>7, <1>8, <1>9, NotCrashed DEF DCInv

LEMMA AllRemovedStep ==
    ASSUME DCInv, ~crashed, AllRemoved
    PROVE  DCInv'
<1>1. /\ UNCHANGED <<hash, buckets, entries_cnt, controller, leaving, clients_map, pool,
                     current_clients_cnt, connector, client, idle_event, ref_cnt, tries, cookie, adds,
                     deleted, starts>>
      /\ main = "remove_all_clients" /\ Servers = {} /\ job' = "none"
      /\ main' = IF job = "stop" THEN "none" ELSE "get_next_message"
      /\ stop_event' = (stop_event \/ job = "stop")
      /\ crashed' = (current_clients_cnt # 0)
  BY DEF AllRemoved, ringVars, mapVars, wrapperVars, callerVars, givenVars
<1>2. Servers' = Servers /\ leaving = NoValue
  BY <1>1 DEF Servers, DCInv, Positions
<1>3. current_clients_cnt = 0
  BY <1>1, <1>2, FS_EmptySet DEF DCInv, Holders
<1>4. crashed' = FALSE /\ crashed' = crashed
  BY <1>1, <1>3 DEF DCInv, TypeOK
<1>5. RingOK(buckets') /\ hash' \in Hashes /\ RingInv'
  BY RingOtherwise
<1>6. TypeOK'
  BY <1>1, <1>2, <1>4, <1>5 DEF DCInv, TypeOK
<1>7. Positions'
  <2>1. job \in {"remove all", "stop"} /\ controller \in {"NULL", "initialized", "shutdown"}
    BY <1>1 DEF DCInv, TypeOK, Positions
  <2>2. QED
    BY <1>1, <1>2, <1>4, <2>1 DEF DCInv, Positions
<1>8. Holders'
  BY <1>1, <1>2 DEF DCInv, Holders
<1>9. Connected'
  BY <1>1 DEF DCInv, Connected
<1>10. UsersCounted'
  BY <1>1, <1>4, SameUsers DEF DCInv
<1>11. QED
  BY <1>4, <1>5, <1>6, <1>7, <1>8, <1>9, <1>10, NotCrashed DEF DCInv

-----------------------------------------------------------------------------
(***************************************************************************)
(* Clients come and go                                                     *)
(***************************************************************************)

\* A wrapper of the pool gets a connector.
LEMMA NewConnector ==
    ASSUME DCInv, ~crashed, NEW w \in pool, GetConnector,
           connector' = [connector EXCEPT ![w] = adds'],
           idle_event' = [idle_event EXCEPT ![w] = TRUE],
           pool' = pool \ {w},
           NEW s \in {"started", "stopping"}, client' = [client EXCEPT ![w] = s],
           main' \in {"get_next_message", "mrpc_client_stop"},
           UNCHANGED <<ref_cnt, cookie, deleted, crashed, hash>>
    PROVE  /\ w \in Wrappers
           /\ adds' \in Nat /\ pool' \in SUBSET Wrappers
           /\ connector' \in [Wrappers -> Nat] /\ idle_event' \in [Wrappers -> BOOLEAN]
           /\ client' \in [Wrappers -> {"stopped", "started", "stopping"}]
           /\ Connected' /\ UsersCounted'
<1>1. /\ w \in Wrappers /\ pool \in SUBSET Wrappers /\ adds \in Nat
      /\ connector \in [Wrappers -> Nat] /\ idle_event \in [Wrappers -> BOOLEAN]
      /\ client \in [Wrappers -> {"stopped", "started", "stopping"}]
      /\ deleted \in SUBSET Nat
  BY DEF DCInv, TypeOK
<1>2. adds' = adds + 1 /\ adds' \in Nat
  BY <1>1 DEF GetConnector
<1>3. /\ connector' \in [Wrappers -> Nat] /\ idle_event' \in [Wrappers -> BOOLEAN]
      /\ client' \in [Wrappers -> {"stopped", "started", "stopping"}]
  BY <1>1, <1>2
<1>4. /\ connector'[w] = adds + 1 /\ idle_event'[w] = TRUE
      /\ \A v \in Wrappers \ {w} : /\ connector'[v] = connector[v] /\ client'[v] = client[v]
                                   /\ idle_event'[v] = idle_event[v]
  BY <1>1, <1>2
<1>5. Connected
  BY DEF DCInv
<1>6. Connected'
  <2>1. ASSUME NEW v \in Wrappers PROVE v \in pool' <=> connector'[v] = 0
    <3>1. CASE v = w
      BY <1>1, <1>4, <3>1
    <3>2. CASE v # w
      BY <1>4, <1>5, <3>2 DEF Connected
    <3>3. QED
      BY <3>1, <3>2
  <2>2. ASSUME NEW v \in Wrappers PROVE connector'[v] <= adds'
    <3>1. CASE v = w
      BY <1>1, <1>2, <1>4, <3>1
    <3>2. CASE v # w
      <4>1. connector'[v] = connector[v] /\ connector[v] <= adds /\ connector[v] \in Nat
        BY <1>1, <1>4, <1>5, <3>2 DEF Connected
      <4>2. QED
        BY <1>1, <1>2, <4>1
    <3>3. QED
      BY <3>1, <3>2
  <2>3. deleted' \subseteq 1 .. adds'
    <3>1. deleted \subseteq 1 .. adds /\ deleted' = deleted
      BY <1>5 DEF Connected
    <3>2. QED
      BY <1>1, <1>2, <3>1
  <2>4. ASSUME NEW a \in 1 .. adds' PROVE a \in deleted' \/ \E v \in Wrappers : connector'[v] = a
    <3>1. CASE a = adds'
      BY <1>1, <1>2, <1>4, <3>1
    <3>2. CASE a # adds'
      <4>1. a \in 1 .. adds /\ a # 0
        BY <1>1, <1>2, <3>2
      <4>2. CASE a \in deleted
        BY <4>2
      <4>3. CASE a \notin deleted
        <5>1. PICK v \in Wrappers : connector[v] = a
          BY <1>5, <4>1, <4>3 DEF Connected
        <5>2. v # w
          BY <1>1, <1>5, <4>1, <5>1 DEF Connected
        <5>3. QED
          BY <1>4, <5>1, <5>2
      <4>4. QED
        BY <4>2, <4>3
    <3>3. QED
      BY <3>1, <3>2
  <2>5. \A v \in pool' : client'[v] = "stopped"
    BY <1>1, <1>4, <1>5 DEF Connected
  <2>6. QED
    BY <2>1, <2>2, <2>3, <2>4, <2>5 DEF Connected
<1>7. UsersCounted'
  <2>1. NoCollisions' <=> NoCollisions
    BY DEF NoCollisions
  <2>2. ASSUME NEW v \in Wrappers PROVE Users(v)' = Users(v)
    BY DEF Users
  <2>3. UsersCounted /\ ref_cnt[w] = 0
    BY <1>1 DEF DCInv, UsersCounted
  <2>4. main' # "wrapper_stop"
    OBVIOUS
  <2>5. ASSUME NEW v \in Wrappers
        PROVE  /\ ref_cnt'[v] = Cardinality(Users(v)')
               /\ connector'[v] # 0 => (idle_event'[v] <=> ref_cnt'[v] = 0)
               /\ v \in pool' /\ (~crashed' \/ NoCollisions') => ref_cnt'[v] = 0
    <3>1. CASE v = w
      BY <1>4, <2>1, <2>2, <2>3, <3>1 DEF UsersCounted
    <3>2. CASE v # w
      BY <1>4, <2>1, <2>2, <2>3, <3>2 DEF UsersCounted
    <3>3. QED
      BY <3>1, <3>2
  <2>6. QED
    BY <2>4, <2>5 DEF UsersCounted
<1>8. QED
  BY <1>1, <1>2, <1>3, <1>6, <1>7

LEMMA AddClientStep ==
    ASSUME DCInv, ~crashed, NEW k \in Keys, NEW w \in Wrappers, AddClient(k, w)
    PROVE  DCInv'
<1>1. /\ UNCHANGED <<controller, main, job, leaving, stop_event, ref_cnt, tries, cookie, crashed,
                     deleted, starts, hash>>
      /\ k \notin Servers /\ w \in pool /\ pool' = pool \ {w}
      /\ main = "get_next_message" /\ GetConnector
      /\ connector' = [connector EXCEPT ![w] = adds']
      /\ idle_event' = [idle_event EXCEPT ![w] = TRUE]
      /\ client' = [client EXCEPT ![w] = "started"]
      /\ clients_map' = [j \in Servers \cup {k} |-> IF j = k THEN w ELSE clients_map[j]]
      /\ current_clients_cnt' = current_clients_cnt + 1
  BY DEF AddClient, mainVars, callerVars, GetConnector, GetNextMessage, WrapperStart, AddEntry
<1>2. /\ RingOK(buckets') /\ hash' \in Hashes /\ RingInv'
      /\ Servers' = Servers \cup {k} /\ OnRing' = OnRing \cup {k} /\ OnRing = Servers
  BY AddClientRing
<1>3. /\ adds' \in Nat /\ pool' \in SUBSET Wrappers
      /\ connector' \in [Wrappers -> Nat] /\ idle_event' \in [Wrappers -> BOOLEAN]
      /\ client' \in [Wrappers -> {"stopped", "started", "stopping"}]
      /\ Connected' /\ UsersCounted'
  BY <1>1, NewConnector
<1>4. /\ Servers \in SUBSET Keys /\ IsFiniteSet(Servers)
      /\ clients_map \in [Servers -> Wrappers]
      /\ current_clients_cnt \in Nat
  BY DEF DCInv, TypeOK
<1>5. /\ IsFiniteSet(Servers') /\ Cardinality(Servers') = Cardinality(Servers) + 1
      /\ Cardinality(Servers) \in Nat
  BY <1>1, <1>2, <1>4, FS_AddElement, FS_CardinalityType
<1>6. clients_map' \in [Servers' -> Wrappers] /\ Servers' \in SUBSET Keys
  BY <1>1, <1>2, <1>4
<1>7. entries_cnt' \in Nat
  <2>1. UniformFactor \in Nat /\ entries_cnt \in Nat /\ entries_cnt' = entries_cnt + UniformFactor
    BY ConsistentHashAssumption DEF DCInv, TypeOK, AddClient, AddEntry
  <2>2. QED
    BY <2>1
<1>8. TypeOK'
  <2>1. current_clients_cnt' \in Nat
    BY <1>1, <1>4
  <2>2. UNCHANGED <<controller, main, job, leaving, stop_event, ref_cnt, tries, cookie, crashed,
                    deleted, starts>>
    BY <1>1
  <2>3. QED
    BY <1>2, <1>3, <1>5, <1>6, <1>7, <2>1, <2>2 DEF DCInv, TypeOK
<1>9. Positions'
  BY <1>1 DEF DCInv, Positions
<1>10. Holders'
  <2>1. leaving' = NoValue /\ leaving = NoValue /\ Holders
    BY <1>1 DEF DCInv, Positions
  <2>2. clients_map'[k] = w /\ \A j \in Servers : clients_map'[j] = clients_map[j]
    BY <1>1
  <2>3. \A j \in Servers : clients_map[j] # w
    BY <1>1, <2>1 DEF Holders
  <2>4. \A i, j \in Servers' : clients_map'[i] = clients_map'[j] => i = j
    BY <1>2, <2>1, <2>2, <2>3 DEF Holders
  <2>5. \A j \in Servers' : clients_map'[j] \notin pool' /\ clients_map'[j] # leaving'
    BY <1>1, <1>2, <2>1, <2>2, NoWrapper DEF Holders
  <2>6. leaving' \notin pool'
    BY <1>3, <2>1, NoWrapper
  <2>7. ASSUME NEW v \in Wrappers
        PROVE  v \in pool' \/ v = leaving' \/ \E j \in Servers' : clients_map'[j] = v
    BY <1>1, <1>2, <2>1, <2>2 DEF Holders
  <2>8. current_clients_cnt' = Cardinality(Servers')
    BY <1>1, <1>5, <2>1 DEF Holders
  <2>9. QED
    BY <1>5, <2>1, <2>4, <2>5, <2>6, <2>7, <2>8 DEF Holders
<1>11. QED
  BY <1>1, <1>2, <1>3, <1>8, <1>9, <1>10, NotCrashed DEF DCInv

LEMMA AddTwiceStep ==
    ASSUME DCInv, ~crashed, NEW k \in Keys, NEW w \in Wrappers, AddClientTwice(k, w)
    PROVE  DCInv'
<1>1. /\ UNCHANGED <<hash, buckets, entries_cnt, controller, stop_event, clients_map, ref_cnt,
                     current_clients_cnt, tries, cookie, crashed, deleted, starts>>
      /\ w \in pool /\ pool' = pool \ {w} /\ GetConnector
      /\ main = "get_next_message" /\ controller = "initialized"
      /\ main' = "mrpc_client_stop" /\ job' = "add" /\ leaving' = w
      /\ connector' = [connector EXCEPT ![w] = adds']
      /\ idle_event' = [idle_event EXCEPT ![w] = TRUE]
      /\ client' = [client EXCEPT ![w] = "stopping"]
  BY DEF AddClientTwice, callerVars, GetConnector, GetNextMessage, WrapperStop, ringVars
<1>2. RingOK(buckets') /\ hash' \in Hashes /\ RingInv'
  BY RingOtherwise
<1>3. /\ adds' \in Nat /\ pool' \in SUBSET Wrappers
      /\ connector' \in [Wrappers -> Nat] /\ idle_event' \in [Wrappers -> BOOLEAN]
      /\ client' \in [Wrappers -> {"stopped", "started", "stopping"}]
      /\ Connected' /\ UsersCounted'
  BY <1>1, NewConnector
<1>4. Servers' = Servers
  BY <1>1 DEF Servers
<1>5. TypeOK'
  BY <1>1, <1>2, <1>3, <1>4 DEF DCInv, TypeOK
<1>6. Positions'
  BY <1>1, NoWrapper DEF DCInv, Positions
<1>7. Holders'
  <2>1. leaving = NoValue /\ Holders /\ current_clients_cnt = Cardinality(Servers)
    <3>1. leaving = NoValue /\ Holders
      BY <1>1 DEF DCInv, Positions
    <3>2. IsFiniteSet(Servers)
      BY DEF DCInv, TypeOK
    <3>3. Cardinality(Servers) \in Nat
      BY <3>2, FS_CardinalityType
    <3>4. QED
      BY <3>1, <3>3 DEF Holders
  <2>2. ~Counted'
    BY <1>1 DEF Counted
  <2>3. /\ \A j \in Servers : clients_map[j] \notin pool' /\ clients_map[j] # w
        /\ w \notin pool'
        /\ \A v \in Wrappers : v \in pool' \/ v = w \/ \E j \in Servers : clients_map[j] = v
    <3>1. w \in pool /\ pool' = pool \ {w} /\ leaving = NoValue
      BY <1>1, <2>1
    <3>2. \A j \in Servers : clients_map[j] \notin pool' /\ clients_map[j] # w
      BY <2>1, <3>1 DEF Holders
    <3>3. ASSUME NEW v \in Wrappers
          PROVE  v \in pool' \/ v = w \/ \E j \in Servers : clients_map[j] = v
      <4>1. v \in pool \/ \E j \in Servers : clients_map[j] = v
        BY <2>1, <3>1, NoWrapper DEF Holders
      <4>2. QED
        BY <3>1, <4>1
    <3>4. QED
      BY <3>1, <3>2, <3>3
  <2>4. IsFiniteSet(Servers)
    BY DEF DCInv, TypeOK
  <2>5. Cardinality(Servers) + 0 = Cardinality(Servers)
    BY <2>4, FS_CardinalityType
  <2>6. QED
    BY <1>1, <1>4, <2>1, <2>2, <2>3, <2>5 DEF Holders
<1>8. QED
  BY <1>1, <1>2, <1>3, <1>5, <1>6, <1>7, NotCrashed DEF DCInv

\* A server leaves the dictionary and the stop of its client begins.
Leave(k, why) ==
    /\ why \in {"remove", "remove all", "stop"}
    /\ clients_map' = [j \in Servers \ {k} |-> clients_map[j]]
    /\ \/ main = "get_next_message" /\ controller = "initialized" /\ why = "remove"
       \/ main = "remove_all_clients" /\ why = job
    /\ main' = "mrpc_client_stop" /\ job' = why /\ leaving' = clients_map[k]
    /\ client' = [client EXCEPT ![clients_map[k]] = "stopping"]
    /\ UNCHANGED <<controller, stop_event, pool, current_clients_cnt, connector, idle_event,
                   ref_cnt, tries, cookie, crashed, adds, deleted, starts, hash>>

LEMMA ClientLeaves ==
    ASSUME DCInv, ~crashed, NEW k \in Servers, NEW why,
           Leave(k, why), RingOK(buckets'), hash' \in Hashes, RingInv'
    PROVE  DCInv'
<1> DEFINE w == clients_map[k]
<1>1. /\ Servers \in SUBSET Keys /\ IsFiniteSet(Servers) /\ clients_map \in [Servers -> Wrappers]
      /\ client \in [Wrappers -> {"stopped", "started", "stopping"}] /\ pool \in SUBSET Wrappers
      /\ Positions /\ Holders /\ Connected /\ UsersCounted
  BY DEF DCInv, TypeOK
<1>2. clients_map' = [j \in Servers \ {k} |-> clients_map[j]] /\ Servers' = Servers \ {k}
  BY DEF Leave, Servers
<1>3. w \in Wrappers /\ w # NoValue /\ w \notin pool
  BY <1>1, NoWrapper DEF Holders
<1>4. /\ IsFiniteSet(Servers') /\ Cardinality(Servers') = Cardinality(Servers) - 1
      /\ Cardinality(Servers) \in Nat /\ Cardinality(Servers') \in Nat
  BY <1>1, <1>2, FS_RemoveElement, FS_CardinalityType
<1>5. Servers' \in SUBSET Keys /\ clients_map' \in [Servers' -> Wrappers]
  BY <1>1, <1>2
<1>6. /\ client' \in [Wrappers -> {"stopped", "started", "stopping"}]
      /\ \A v \in Wrappers \ {w} : client'[v] = client[v]
  BY <1>1, <1>3 DEF Leave
<1>7. entries_cnt' \in Nat
  <2>1. OnRing' \subseteq Servers'
    BY DEF OnRing
  <2>2. Cardinality(OnRing') \in Nat
    BY <2>1, <1>4, FS_Subset, FS_CardinalityType
  <2>3. UniformFactor \in Nat /\ entries_cnt' = Cardinality(OnRing') * UniformFactor
    BY ConsistentHashAssumption DEF RingInv
  <2>4. QED
    BY <2>2, <2>3
<1>8. /\ main \in {"get_next_message", "remove_all_clients"} /\ main' = "mrpc_client_stop"
      /\ main = "get_next_message" => controller = "initialized" /\ why = "remove"
      /\ main = "remove_all_clients" => why = job
      /\ job' = why /\ leaving' = w
      /\ UNCHANGED <<controller, stop_event, pool, current_clients_cnt, connector, idle_event,
                     ref_cnt, tries, cookie, crashed, adds, deleted, starts, hash>>
  BY DEF Leave
<1>8a. why \in {"remove", "remove all", "stop"}
  BY DEF Leave
<1>9. TypeOK'
  BY <1>3, <1>4, <1>5, <1>6, <1>7, <1>8, <1>8a DEF DCInv, TypeOK
<1>10. Positions'
  BY <1>1, <1>3, <1>8, <1>8a DEF Positions
<1>11. leaving = NoValue
  BY <1>1, <1>8 DEF Positions
<1>12. Holders'
  <2>1. \A i, j \in Servers' : clients_map'[i] = clients_map'[j] => i = j
    BY <1>1, <1>2 DEF Holders
  <2>2. ASSUME NEW j \in Servers' PROVE clients_map'[j] \notin pool /\ clients_map'[j] # w
    BY <1>1, <1>2 DEF Holders
  <2>3. ASSUME NEW v \in Wrappers
        PROVE  v \in pool \/ v = w \/ \E j \in Servers' : clients_map'[j] = v
    <3>1. v \in pool \/ \E j \in Servers : clients_map[j] = v
      BY <1>1, <1>11, NoWrapper DEF Holders
    <3>2. QED
      BY <3>1, <1>2
  <2>4. Counted' /\ leaving' # NoValue
    BY <1>3, <1>8, <1>8a DEF Counted
  <2>5. current_clients_cnt = Cardinality(Servers)
    BY <1>1, <1>4, <1>11 DEF Holders
  <2>6. current_clients_cnt = Cardinality(Servers') + 1
    BY <2>5, <1>4
  <2>7. QED
    BY <1>3, <1>8, <2>1, <2>2, <2>3, <2>4, <2>6 DEF Holders
<1>13. Connected'
  <2>1. \A v \in pool : client'[v] = "stopped"
    BY <1>1, <1>3, <1>6 DEF Connected
  <2>2. QED
    BY <1>1, <1>8, <2>1 DEF Connected
<1>14. UsersCounted'
  BY <1>1, <1>8, SameUsers
<1>15. QED
  BY <1>8, <1>9, <1>10, <1>12, <1>13, <1>14, NotCrashed DEF DCInv

LEMMA RemoveClientStep ==
    ASSUME DCInv, ~crashed, NEW k \in Keys, RemoveClient(k)
    PROVE  DCInv'
<1>1. RingOK(buckets') /\ hash' \in Hashes /\ RingInv' /\ k \in Servers
  BY RemoveClientRing
<1>2. Leave(k, "remove")
  BY DEF RemoveClient, RemoveEntry, Restrict, WrapperStop, GetNextMessage, callerVars, givenVars, Leave
<1>3. QED
  BY <1>1, <1>2, ClientLeaves

LEMMA RemoveNextStep ==
    ASSUME DCInv, ~crashed, RemoveNext
    PROVE  DCInv'
<1>1. RingOK(buckets') /\ hash' \in Hashes /\ RingInv'
  BY RemoveNextRing
<1>2. PICK k \in Servers : /\ clients_map' = Restrict(clients_map, Servers \ {k})
                           /\ WrapperStop(clients_map[k], job)
  BY DEF RemoveNext
<1>3. job \in {"remove all", "stop"}
  BY DEF RemoveNext, DCInv, Positions
<1>4. Leave(k, job)
  BY <1>2, <1>3 DEF RemoveNext, Restrict, WrapperStop, callerVars, givenVars, ringVars, Leave
<1>5. QED
  BY <1>1, <1>3, <1>4, ClientLeaves

LEMMA WrapperStoppedStep ==
    ASSUME DCInv, ~crashed, WrapperStopped
    PROVE  DCInv'
<1> DEFINE w == leaving
<1>1. /\ UNCHANGED <<hash, buckets, entries_cnt, controller, stop_event, clients_map, client,
                     idle_event, ref_cnt, tries, cookie, adds, starts>>
      /\ main = "wrapper_stop" /\ crashed' = (ref_cnt[w] # 0)
      /\ deleted' = deleted \cup {connector[w]}
      /\ connector' = [connector EXCEPT ![w] = 0]
      /\ pool' = pool \cup {w} /\ leaving' = NoValue
      /\ current_clients_cnt' = current_clients_cnt - (IF Counted THEN 1 ELSE 0)
  BY DEF WrapperStopped, ringVars, callerVars
<1>2. \/ job \in {"add", "remove"} /\ main' = "get_next_message" /\ job' = "none"
      \/ job \in {"remove all", "stop"} /\ main' = "remove_all_clients" /\ job' = job
  BY DEF WrapperStopped
<1>3. RingOK(buckets') /\ hash' \in Hashes /\ RingInv'
  BY RingOtherwise
<1>4. Servers' = Servers
  BY <1>1 DEF Servers
<1>5. /\ w \in Wrappers /\ w # NoValue /\ w \notin pool /\ pool \in SUBSET Wrappers
      /\ connector \in [Wrappers -> Nat] /\ ref_cnt \in [Wrappers -> Nat]
      /\ IsFiniteSet(Servers) /\ adds \in Nat /\ deleted \in SUBSET Nat
      /\ Positions /\ Holders /\ Connected /\ UsersCounted
  BY <1>1, NoWrapper DEF DCInv, TypeOK, Positions, Holders
<1>6. /\ connector' \in [Wrappers -> Nat] /\ connector'[w] = 0
      /\ \A v \in Wrappers \ {w} : connector'[v] = connector[v]
  BY <1>1, <1>5
<1>7. Cardinality(Servers) \in Nat
  BY <1>5, FS_CardinalityType
<1>8. current_clients_cnt' = Cardinality(Servers)
  <2>1. current_clients_cnt = Cardinality(Servers) + (IF Counted THEN 1 ELSE 0)
    BY <1>5 DEF Holders
  <2>2. QED
    BY <1>1, <1>7, <2>1
<1>9. connector[w] \in 1 .. adds
  BY <1>5 DEF Connected
<1>10. deleted' \in SUBSET Nat /\ pool' \in SUBSET Wrappers /\ crashed' \in BOOLEAN
  BY <1>1, <1>5, <1>9
<1>11. TypeOK'
  <2>1. current_clients_cnt' \in Nat
    BY <1>7, <1>8
  <2>2. UNCHANGED <<hash, entries_cnt, controller, stop_event, clients_map, client, idle_event,
                    ref_cnt, tries, cookie, adds, starts>> /\ leaving' = NoValue
    BY <1>1
  <2>3. QED
    BY <1>2, <1>3, <1>4, <1>6, <1>10, <2>1, <2>2 DEF DCInv, TypeOK
<1>12. Positions'
  <2>1. controller \in {"NULL", "initialized", "shutdown"} /\ stop_event \in BOOLEAN
    BY DEF DCInv, TypeOK
  <2>2. controller # "NULL"
    BY <1>1, <1>5 DEF Positions
  <2>3. UNCHANGED <<controller, stop_event>> /\ main = "wrapper_stop" /\ leaving' = NoValue
    BY <1>1
  <2>4. QED
    BY <1>2, <1>4, <1>5, <2>1, <2>2, <2>3 DEF Positions
<1>13. Holders'
  <2>1. UNCHANGED clients_map /\ leaving' = NoValue /\ pool' = pool \cup {w}
    BY <1>1
  <2>2. \A i, j \in Servers : clients_map[i] = clients_map[j] => i = j
    BY <1>5 DEF Holders
  <2>3. \A j \in Servers : clients_map[j] \notin pool' /\ clients_map[j] # NoValue
    <3>1. clients_map \in [Servers -> Wrappers]
      BY DEF DCInv, TypeOK
    <3>2. QED
      BY <1>5, <2>1, <3>1, NoWrapper DEF Holders
  <2>4. NoValue \notin pool'
    BY <1>10, NoWrapper
  <2>5. \A v \in Wrappers : v \in pool' \/ \E j \in Servers : clients_map[j] = v
    BY <1>5, <2>1 DEF Holders
  <2>6. current_clients_cnt' = Cardinality(Servers') + 0
    BY <1>4, <1>7, <1>8
  <2>7. QED
    BY <1>4, <2>1, <2>2, <2>3, <2>4, <2>5, <2>6 DEF Holders
<1>14. Connected'
  <2>1. ASSUME NEW v \in Wrappers PROVE (v \in pool' <=> connector'[v] = 0) /\ connector'[v] <= adds
    <3>1. CASE v = w
      BY <1>1, <1>5, <1>6, <3>1
    <3>2. CASE v # w
      <4>1. connector'[v] = connector[v] /\ (v \in pool' <=> v \in pool)
        BY <1>1, <1>6, <3>2
      <4>2. QED
        BY <1>5, <4>1 DEF Connected
    <3>3. QED
      BY <3>1, <3>2
  <2>2. deleted' \subseteq 1 .. adds
    BY <1>1, <1>5, <1>9 DEF Connected
  <2>3. ASSUME NEW a \in 1 .. adds PROVE a \in deleted' \/ \E v \in Wrappers : connector'[v] = a
    <3>1. CASE a \in deleted \/ a = connector[w]
      BY <1>1, <3>1
    <3>2. CASE a \notin deleted /\ a # connector[w]
      <4>1. PICK v \in Wrappers : connector[v] = a
        BY <1>5, <3>2 DEF Connected
      <4>2. v # w
        BY <3>2, <4>1
      <4>3. QED
        BY <1>6, <4>1, <4>2
    <3>3. QED
      BY <3>1, <3>2
  <2>4. \A v \in pool' : client[v] = "stopped"
    BY <1>1, <1>5 DEF Connected
  <2>5. main' \notin {"ff_event_wait", "wrapper_stop"}
    BY <1>2
  <2>6. UNCHANGED <<adds, client>>
    BY <1>1
  <2>7. QED
    BY <2>1, <2>2, <2>3, <2>4, <2>5, <2>6 DEF Connected
<1>15. (NoCollisions' <=> NoCollisions) /\ UNCHANGED <<ref_cnt, cookie, idle_event>>
  BY <1>1 DEF NoCollisions
<1>16. UsersCounted'
  <2>1. ASSUME NEW v \in Wrappers PROVE Users(v)' = Users(v)
    BY <1>15 DEF Users
  <2>2. main' # "wrapper_stop"
    BY <1>2
  <2>3. ASSUME NEW v \in Wrappers
        PROVE  /\ ref_cnt[v] = Cardinality(Users(v))
               /\ connector'[v] # 0 => (idle_event[v] <=> ref_cnt[v] = 0)
               /\ v \in pool' /\ (~crashed' \/ NoCollisions) => ref_cnt[v] = 0
    <3>1. CASE v = w
      BY <1>1, <1>5, <1>6, <3>1 DEF UsersCounted
    <3>2. CASE v # w
      <4>1. connector'[v] = connector[v] /\ (v \in pool' <=> v \in pool)
        BY <1>1, <1>6, <3>2
      <4>2. QED
        BY <1>5, <4>1 DEF UsersCounted
    <3>3. QED
      BY <3>1, <3>2
  <2>4. QED
    BY <1>15, <2>1, <2>2, <2>3 DEF UsersCounted
<1>17. AssertionsHold'
  <2>1. NoCollisions => ref_cnt[w] = 0
    BY <1>1, <1>5 DEF UsersCounted
  <2>2. crashed' => ~NoCollisions'
    BY <1>1, <1>15, <2>1
  <2>3. QED
    BY <2>2 DEF AssertionsHold
<1>18. QED
  BY <1>3, <1>11, <1>12, <1>13, <1>14, <1>16, <1>17 DEF DCInv

-----------------------------------------------------------------------------
(***************************************************************************)
(* The callers                                                             *)
(***************************************************************************)

LEMMA UsersFinite ==
    ASSUME NEW w PROVE IsFiniteSet(Users(w)) /\ Cardinality(Users(w)) \in Nat
<1>1. IsFiniteSet(Callers) /\ Users(w) \in SUBSET Callers
  BY DistributedClientAssumption DEF Users
<1>2. IsFiniteSet(Users(w))
  BY <1>1, FS_Subset
<1>3. QED
  BY <1>2, FS_CardinalityType

\* what the steps of the callers leave alone
CallerFrame ==
    UNCHANGED <<hash, buckets, entries_cnt, controller, main, job, leaving, stop_event, clients_map,
                pool, current_clients_cnt, connector, client, adds, deleted, starts>>

LEMMA CallerStep ==
    ASSUME DCInv, CallerFrame, tries' \in [Callers -> Nat],
           cookie' \in [Callers -> Wrappers \cup {NoValue}],
           ref_cnt' \in [Wrappers -> Nat], idle_event' \in [Wrappers -> BOOLEAN],
           crashed' \in BOOLEAN, crashed' => controller # "NULL",
           UsersCounted', AssertionsHold'
    PROVE  DCInv'
<1>1. UNCHANGED <<hash, buckets, entries_cnt, controller, main, job, leaving, stop_event, clients_map,
                  pool, current_clients_cnt, connector, client, adds, deleted, starts>>
  BY DEF CallerFrame
<1>2. Servers' = Servers /\ Counted' = Counted
  BY <1>1 DEF Servers, Counted
<1>3. RingOK(buckets') /\ hash' \in Hashes /\ RingInv'
  BY <1>1, RingOtherwise DEF ringVars
<1>4. TypeOK'
  BY <1>1, <1>2, <1>3 DEF DCInv, TypeOK
<1>5. Positions'
  BY <1>1, <1>2 DEF DCInv, Positions
<1>6. Holders' /\ Connected'
  BY <1>1, <1>2 DEF DCInv, Holders, Connected
<1>7. QED
  BY <1>3, <1>4, <1>5, <1>6 DEF DCInv

LEMMA AcquireStep ==
    ASSUME DCInv, ~crashed, NEW c \in Callers, AcquireClient(c)
    PROVE  DCInv'
<1>1. PICK key \in Ring :
        LET w == GetEntry(buckets, key)
        IN  /\ w # NoValue /\ connector[w] # 0
            /\ WrapperAcquire(w)
            /\ cookie' = [cookie EXCEPT ![c] = w]
  BY DEF AcquireClient
<1>1a. PICK w \in Wrappers : w = GetEntry(buckets, key)
  BY <1>1, FoundOnRing
<1>2. w \in Wrappers /\ (NoCollisions => \E k \in Servers : clients_map[k] = w)
  BY <1>1, <1>1a, FoundOnRing
<1>3. /\ connector[w] # 0
      /\ ref_cnt' = [ref_cnt EXCEPT ![w] = @ + 1]
      /\ idle_event' = [idle_event EXCEPT ![w] = @ /\ ref_cnt'[w] # 1]
      /\ cookie' = [cookie EXCEPT ![c] = w]
      /\ UNCHANGED <<connector, client>>
  BY <1>1, <1>1a DEF WrapperAcquire
<1>4. /\ CallerFrame /\ UNCHANGED crashed /\ tries' = [tries EXCEPT ![c] = 0]
      /\ UNCHANGED <<hash, pool, connector, leaving>> /\ main' = main
      /\ cookie[c] = NoValue
  BY <1>3 DEF AcquireClient, Trying, CallerFrame, ringVars, mainVars, mapVars, givenVars
<1>5. /\ ref_cnt \in [Wrappers -> Nat] /\ idle_event \in [Wrappers -> BOOLEAN]
      /\ tries \in [Callers -> Nat] /\ cookie \in [Callers -> Wrappers \cup {NoValue}]
      /\ crashed \in BOOLEAN /\ Holders /\ Connected /\ UsersCounted
  BY DEF DCInv, TypeOK
<1>6. /\ tries' \in [Callers -> Nat] /\ cookie' \in [Callers -> Wrappers \cup {NoValue}]
  BY <1>2, <1>3, <1>4, <1>5
<1>7. /\ ref_cnt' \in [Wrappers -> Nat] /\ ref_cnt'[w] = ref_cnt[w] + 1 /\ ref_cnt'[w] # 0
      /\ \A v \in Wrappers \ {w} : ref_cnt'[v] = ref_cnt[v]
  BY <1>2, <1>3, <1>5
<1>8. /\ idle_event' \in [Wrappers -> BOOLEAN]
      /\ idle_event'[w] = (idle_event[w] /\ ref_cnt'[w] # 1)
      /\ \A v \in Wrappers \ {w} : idle_event'[v] = idle_event[v]
  BY <1>2, <1>3, <1>5
<1>9. NoCollisions' <=> NoCollisions
  BY <1>4 DEF NoCollisions
<1>10. /\ Users(w)' = Users(w) \cup {c} /\ c \notin Users(w)
       /\ \A v \in Wrappers \ {w} : Users(v)' = Users(v)
  <2>1. c \notin Users(w)
    BY <1>2, <1>4, NoWrapper DEF Users
  <2>2. cookie'[c] = w /\ \A d \in Callers \ {c} : cookie'[d] = cookie[d]
    BY <1>3, <1>5
  <2>3. Users(w)' = Users(w) \cup {c}
    BY <2>2 DEF Users
  <2>4. ASSUME NEW v \in Wrappers \ {w} PROVE Users(v)' = Users(v)
    BY <2>2, <1>4, NoWrapper DEF Users
  <2>5. QED
    BY <2>1, <2>3, <2>4
<1>11. UsersCounted'
  <2>1. ASSUME NEW v \in Wrappers
        PROVE  /\ ref_cnt'[v] = Cardinality(Users(v)')
               /\ connector[v] # 0 => (idle_event'[v] <=> ref_cnt'[v] = 0)
               /\ v \in pool /\ (~crashed \/ NoCollisions) => ref_cnt'[v] = 0
               /\ main = "wrapper_stop" /\ v = leaving /\ NoCollisions => ref_cnt'[v] = 0
    <3>1. CASE v # w
      <4>1. ref_cnt'[v] = ref_cnt[v] /\ idle_event'[v] = idle_event[v] /\ Users(v)' = Users(v)
        BY <1>7, <1>8, <1>10, <3>1
      <4>2. QED
        BY <4>1, <1>5 DEF UsersCounted
    <3>2. CASE v = w
      <4>1. ref_cnt'[w] = Cardinality(Users(w)')
        <5>1. IsFiniteSet(Users(w)) /\ ref_cnt[w] = Cardinality(Users(w))
          BY <1>2, <1>5, UsersFinite DEF UsersCounted
        <5>2. QED
          BY <1>7, <1>10, <5>1, FS_AddElement
      <4>2. ~idle_event'[w]
        <5>1. idle_event[w] <=> ref_cnt[w] = 0
          BY <1>2, <1>3, <1>5 DEF UsersCounted
        <5>2. CASE ref_cnt[w] = 0
          BY <1>7, <1>8, <5>2
        <5>3. CASE ref_cnt[w] # 0
          BY <1>8, <5>1, <5>3
        <5>4. QED
          BY <5>2, <5>3
      <4>3. w \notin pool
        BY <1>2, <1>3, <1>5 DEF Connected
      <4>4. NoCollisions => w # leaving
        BY <1>2, <1>5 DEF Holders
      <4>5. QED
        BY <3>2, <4>1, <4>2, <4>3, <4>4, <1>7
    <3>3. QED
      BY <3>1, <3>2
  <2>2. QED
    BY <1>4, <1>9, <2>1 DEF UsersCounted
<1>12. QED
  BY <1>4, <1>5, <1>6, <1>7, <1>8, <1>11, CallerStep, NotCrashed

LEMMA AcquireCrashStep ==
    ASSUME DCInv, ~crashed, NEW c \in Callers, AcquireClientCrashes(c)
    PROVE  DCInv'
<1>1. PICK key \in Ring :
        LET w == GetEntry(buckets, key)
        IN  w = NoValue \/ (w # NoValue /\ connector[w] = 0)
  BY DEF AcquireClientCrashes
<1>2. /\ CallerFrame /\ crashed' = TRUE /\ ~IsEmpty
      /\ UNCHANGED <<hash, buckets, entries_cnt, tries, cookie, ref_cnt, idle_event, connector, pool,
                     leaving, main>>
  BY DEF AcquireClientCrashes, CallerFrame, ringVars, mainVars, mapVars, wrapperVars, callerVars,
         givenVars
<1>3. /\ tries' \in [Callers -> Nat] /\ cookie' \in [Callers -> Wrappers \cup {NoValue}]
      /\ ref_cnt' \in [Wrappers -> Nat] /\ idle_event' \in [Wrappers -> BOOLEAN]
      /\ crashed' \in BOOLEAN
  BY <1>2 DEF DCInv, TypeOK
<1>4. controller # "NULL"
  <2>1. SUFFICES ASSUME controller = "NULL" PROVE OnRing = {}
    BY <1>2, EmptyMeans
  <2>2. Servers = {}
    BY <2>1 DEF DCInv, Positions
  <2>3. QED
    BY <2>2 DEF OnRing
<1>5. NoCollisions' <=> NoCollisions
  BY <1>2 DEF NoCollisions
<1>6. ASSUME NEW v \in Wrappers PROVE Users(v)' = Users(v)
  BY <1>2 DEF Users
<1>7. UsersCounted'
  BY <1>2, <1>5, <1>6 DEF DCInv, UsersCounted
<1>8. ~NoCollisions \/ OnlyBehind(key)
  <2>1. CASE GetEntry(buckets, key) = NoValue
    BY <2>1, NotFound
  <2>2. ASSUME GetEntry(buckets, key) # NoValue, NoCollisions PROVE FALSE
    <3>1. PICK k \in Servers : clients_map[k] = GetEntry(buckets, key)
      BY <2>2, FoundOnRing
    <3>2. GetEntry(buckets, key) \in Wrappers /\ connector[GetEntry(buckets, key)] = 0
      BY <1>1, <2>2, FoundOnRing
    <3>3. QED
      BY <3>1, <3>2 DEF DCInv, Holders, Connected
  <2>3. QED
    BY <2>1, <2>2
<1>9. AssertionsHold'
  <2>1. Entries' = Entries /\ (IsEmpty' <=> IsEmpty)
    BY <1>2 DEF Entries, IsEmpty
  <2>2. OnlyBehind(key) => OnlyBehind(key)'
    BY <2>1 DEF OnlyBehind
  <2>3. QED
    BY <1>2, <1>5, <1>8, <2>1, <2>2 DEF AssertionsHold
<1>10. QED
  BY <1>2, <1>3, <1>4, <1>7, <1>9, CallerStep

LEMMA AcquireNothingStep ==
    ASSUME DCInv, ~crashed, NEW c \in Callers, AcquireNothing(c)
    PROVE  DCInv'
<1>1. /\ CallerFrame /\ tries' = [tries EXCEPT ![c] = TriesLeft(c) - 1]
      /\ UNCHANGED <<hash, cookie, ref_cnt, idle_event, connector, pool, leaving, main, crashed>>
  BY DEF AcquireNothing, CallerFrame, ringVars, mainVars, mapVars, wrapperVars, givenVars
<1>2. /\ tries \in [Callers -> Nat] /\ cookie' \in [Callers -> Wrappers \cup {NoValue}]
      /\ ref_cnt' \in [Wrappers -> Nat] /\ idle_event' \in [Wrappers -> BOOLEAN]
      /\ crashed' \in BOOLEAN
  BY <1>1 DEF DCInv, TypeOK
<1>3. TriesLeft(c) - 1 \in Nat
  <2>1. tries[c] \in Nat /\ MaxTries \in Nat \ {0}
    BY <1>2, DistributedClientAssumption
  <2>2. QED
    BY <2>1 DEF TriesLeft
<1>4. tries' \in [Callers -> Nat]
  BY <1>1, <1>2, <1>3
<1>5. UsersCounted'
  BY <1>1, SameUsers DEF DCInv
<1>6. QED
  BY <1>1, <1>2, <1>4, <1>5, CallerStep, NotCrashed

LEMMA ReleaseStep ==
    ASSUME DCInv, ~crashed, NEW c \in Callers, ReleaseClient(c)
    PROVE  DCInv'
<1>1. /\ ref_cnt \in [Wrappers -> Nat] /\ idle_event \in [Wrappers -> BOOLEAN]
      /\ tries \in [Callers -> Nat] /\ cookie \in [Callers -> Wrappers \cup {NoValue}]
      /\ crashed \in BOOLEAN /\ UsersCounted
  BY DEF DCInv, TypeOK
<1>2. PICK w \in Wrappers : w = cookie[c]
  BY <1>1 DEF ReleaseClient
<1>3. /\ ref_cnt' = [ref_cnt EXCEPT ![w] = @ - 1]
      /\ idle_event' = [idle_event EXCEPT ![w] = @ \/ ref_cnt'[w] = 0]
      /\ cookie' = [cookie EXCEPT ![c] = NoValue]
      /\ CallerFrame /\ UNCHANGED <<tries, crashed, hash, connector, pool, leaving, main>>
  BY <1>2 DEF ReleaseClient, WrapperRelease, CallerFrame, ringVars, mainVars, mapVars, givenVars
<1>4. tries' \in [Callers -> Nat] /\ cookie' \in [Callers -> Wrappers \cup {NoValue}]
  BY <1>1, <1>3
<1>5. /\ Users(w)' = Users(w) \ {c} /\ c \in Users(w)
      /\ \A v \in Wrappers \ {w} : Users(v)' = Users(v)
  <2>1. c \in Users(w)
    BY <1>2 DEF Users
  <2>2. cookie'[c] = NoValue /\ \A d \in Callers \ {c} : cookie'[d] = cookie[d]
    BY <1>1, <1>3
  <2>3. Users(w)' = Users(w) \ {c}
    BY <2>2, <1>2, NoWrapper DEF Users
  <2>4. ASSUME NEW v \in Wrappers \ {w} PROVE Users(v)' = Users(v)
    BY <1>2, <2>2, NoWrapper DEF Users
  <2>5. QED
    BY <2>1, <2>3, <2>4
<1>6. /\ ref_cnt[w] = Cardinality(Users(w)) /\ ref_cnt[w] \in Nat \ {0}
      /\ Cardinality(Users(w)') = ref_cnt[w] - 1
  <2>1. IsFiniteSet(Users(w)) /\ ref_cnt[w] = Cardinality(Users(w)) /\ ref_cnt[w] \in Nat
    BY <1>1, <1>2, UsersFinite DEF UsersCounted
  <2>2. ref_cnt[w] # 0
    BY <1>5, <2>1, FS_EmptySet
  <2>3. Cardinality(Users(w)') = ref_cnt[w] - 1
    BY <1>5, <2>1, FS_RemoveElement
  <2>4. QED
    BY <2>1, <2>2, <2>3
<1>7. /\ ref_cnt' \in [Wrappers -> Nat] /\ ref_cnt'[w] = ref_cnt[w] - 1
      /\ \A v \in Wrappers \ {w} : ref_cnt'[v] = ref_cnt[v]
  BY <1>1, <1>2, <1>3, <1>6
<1>8. /\ idle_event' \in [Wrappers -> BOOLEAN]
      /\ idle_event'[w] = (idle_event[w] \/ ref_cnt'[w] = 0)
      /\ \A v \in Wrappers \ {w} : idle_event'[v] = idle_event[v]
  BY <1>1, <1>2, <1>3
<1>9. (NoCollisions' <=> NoCollisions) /\ UNCHANGED <<connector, pool, crashed, main, leaving>>
  BY <1>3 DEF NoCollisions
<1>10. UsersCounted'
  <2>1. ASSUME NEW v \in Wrappers
        PROVE  /\ ref_cnt'[v] = Cardinality(Users(v)')
               /\ connector[v] # 0 => (idle_event'[v] <=> ref_cnt'[v] = 0)
               /\ v \in pool /\ (~crashed \/ NoCollisions) => ref_cnt'[v] = 0
               /\ main = "wrapper_stop" /\ v = leaving /\ NoCollisions => ref_cnt'[v] = 0
    <3>1. CASE v # w
      <4>1. ref_cnt'[v] = ref_cnt[v] /\ idle_event'[v] = idle_event[v] /\ Users(v)' = Users(v)
        BY <1>5, <1>7, <1>8, <3>1
      <4>2. QED
        BY <4>1, <1>1 DEF UsersCounted
    <3>2. CASE v = w
      <4>1. ref_cnt'[w] = Cardinality(Users(w)')
        BY <1>6, <1>7
      <4>2. connector[w] # 0 => (idle_event[w] <=> ref_cnt[w] = 0)
        BY <1>1, <1>2 DEF UsersCounted
      <4>3. connector[w] # 0 => (idle_event'[w] <=> ref_cnt'[w] = 0)
        BY <1>6, <1>8, <4>2
      <4>4. w \notin pool /\ ~(main = "wrapper_stop" /\ w = leaving /\ NoCollisions)
        BY <1>1, <1>2, <1>6 DEF UsersCounted
      <4>5. QED
        BY <3>2, <4>1, <4>3, <4>4
    <3>3. QED
      BY <3>1, <3>2
  <2>2. QED
    BY <1>9, <2>1 DEF UsersCounted
<1>11. QED
  BY <1>1, <1>3, <1>4, <1>7, <1>8, <1>9, <1>10, CallerStep, NotCrashed

-----------------------------------------------------------------------------
(***************************************************************************)
(* The theorems                                                            *)
(***************************************************************************)

LEMMA DCStep == DCInv /\ [Next]_vars => DCInv'
<1> SUFFICES ASSUME DCInv, [Next]_vars PROVE DCInv'
  OBVIOUS
<1>1. CASE UNCHANGED vars
  <2>1. /\ CallerFrame /\ UNCHANGED <<tries, cookie, ref_cnt, idle_event, crashed>>
        /\ UNCHANGED <<hash, buckets, entries_cnt, connector, pool, main, leaving>>
    BY <1>1 DEF vars, ringVars, mainVars, mapVars, wrapperVars, callerVars, givenVars, CallerFrame
  <2>2. /\ tries' \in [Callers -> Nat] /\ cookie' \in [Callers -> Wrappers \cup {NoValue}]
        /\ ref_cnt' \in [Wrappers -> Nat] /\ idle_event' \in [Wrappers -> BOOLEAN]
        /\ crashed' \in BOOLEAN
    BY <2>1 DEF DCInv, TypeOK
  <2>3. crashed' => controller # "NULL"
    BY <2>1 DEF DCInv, Positions
  <2>4. UsersCounted'
    BY <2>1, SameUsers DEF DCInv
  <2>5. AssertionsHold'
    <3>1. (NoCollisions' <=> NoCollisions) /\ (IsEmpty' <=> IsEmpty) /\ Entries' = Entries
      BY <2>1 DEF NoCollisions, IsEmpty, Entries
    <3>2. \A key \in Ring : OnlyBehind(key)' <=> OnlyBehind(key)
      BY <3>1 DEF OnlyBehind
    <3>3. QED
      BY <2>1, <3>1, <3>2 DEF DCInv, AssertionsHold
  <2>6. QED
    BY <2>1, <2>2, <2>3, <2>4, <2>5, CallerStep
<1>2. CASE ~crashed /\ (Start \/ Stop \/ StopReturns)
  BY <1>2, ApplicationStep
<1>3. CASE ~crashed /\ AddClientRefused
  BY <1>3, RefusedStep
<1>4. ASSUME ~crashed, NEW k \in Keys, NEW w \in Wrappers, AddClient(k, w) PROVE DCInv'
  BY <1>4, AddClientStep
<1>5. ASSUME ~crashed, NEW k \in Keys, NEW w \in Wrappers, AddClientTwice(k, w) PROVE DCInv'
  BY <1>5, AddTwiceStep
<1>6. ASSUME ~crashed, NEW k \in Keys, RemoveClient(k) PROVE DCInv'
  BY <1>6, RemoveClientStep
<1>7. CASE ~crashed /\ (RemoveAllClients \/ GetStopMessage)
  BY <1>7, EmptyingStep
<1>8. CASE ~crashed /\ RemoveNext
  BY <1>8, RemoveNextStep
<1>9. CASE ~crashed /\ AllRemoved
  BY <1>9, AllRemovedStep
<1>10. CASE ~crashed /\ (ClientStops \/ NoUsersLeft)
  BY <1>10, WaitingStep
<1>11. CASE ~crashed /\ WrapperStopped
  BY <1>11, WrapperStoppedStep
<1>12. ASSUME ~crashed, NEW c \in Callers, AcquireClient(c) PROVE DCInv'
  BY <1>12, AcquireStep
<1>13. ASSUME ~crashed, NEW c \in Callers, AcquireClientCrashes(c) PROVE DCInv'
  BY <1>13, AcquireCrashStep
<1>14. ASSUME ~crashed, NEW c \in Callers, AcquireNothing(c) PROVE DCInv'
  BY <1>14, AcquireNothingStep
<1>15. ASSUME ~crashed, NEW c \in Callers, ReleaseClient(c) PROVE DCInv'
  BY <1>15, ReleaseStep
<1>16. QED
  BY <1>1, <1>2, <1>3, <1>4, <1>5, <1>6, <1>7, <1>8, <1>9, <1>10, <1>11, <1>12, <1>13, <1>14, <1>15
  DEF Next, MainStep, Terminated

LEMMA DCAlways == Spec => []DCInv
BY DCInit, DCStep, PTL DEF Spec

\* The state of the distributed client is well typed; in particular the lists
\* of the ring stay sorted and no count goes below zero.
THEOREM TypeCorrect == Spec => []TypeOK
<1>1. DCInv => TypeOK
  BY DEF DCInv
<1>2. QED
  BY <1>1, DCAlways, PTL

\* get_entry finds the server of the next point in every state that the
\* distributed client reaches.
THEOREM LookupsCorrect == Spec => []LookupCorrect
<1>1. DCInv => LookupCorrect
  BY LookupFindsNextPoint DEF DCInv, TypeOK
<1>2. QED
  BY <1>1, DCAlways, PTL

\* The ring has the points of the servers in the dictionary, as often as they
\* have them, and leads to their clients if no two share a point.
THEOREM RingCorrect == Spec => []RingTracksServers
<1>1. ASSUME DCInv PROVE RingTracksServers
  <2>1. /\ hash \in Hashes /\ RingOK(buckets) /\ OnRing \in SUBSET Keys /\ IsFiniteSet(OnRing)
        /\ Tracks(hash, OnRing, buckets)
    BY <1>1, FS_EmptySet DEF DCInv, TypeOK, OnRing, RingInv
  <2>2. Entries = EntriesOf(buckets)
    BY DEF Entries, EntriesOf
  <2>3. /\ \A e \in Entries : \E k \in OnRing, i \in Points : e.key = hash[<<k, i>>]
        /\ \A k \in OnRing, i \in Points : \E e \in Entries : e.key = hash[<<k, i>>]
    BY <2>1, <2>2, RingKeys
  <2>4. {e.key : e \in Entries} = {hash[p] : p \in ServerPoints}
    <3>1. ASSUME NEW e \in Entries PROVE \E p \in ServerPoints : e.key = hash[p]
      <4>1. PICK k \in OnRing, i \in Points : e.key = hash[<<k, i>>]
        BY <2>3
      <4>2. <<k, i>> \in ServerPoints
        BY DEF ServerPoints
      <4>3. QED
        BY <4>1, <4>2
    <3>2. ASSUME NEW p \in ServerPoints PROVE \E e \in Entries : e.key = hash[p]
      <4>1. PICK k \in OnRing, i \in Points : p = <<k, i>>
        BY DEF ServerPoints
      <4>2. QED
        BY <2>3, <4>1
    <3>3. QED
      BY <3>1, <3>2
  <2>5. ASSUME NoCollisions
        PROVE  Entries = {ServerEntry(p) : p \in ServerPoints}
    <3>1. Leads(hash, OnRing, buckets, clients_map)
      BY <1>1, <2>5 DEF DCInv, RingInv
    <3>2. ASSUME NEW e \in Entries, NEW k \in OnRing, NEW i \in Points, e.key = hash[<<k, i>>]
          PROVE  e = ServerEntry(<<k, i>>)
      <4>1. e.value = clients_map[k]
        BY <2>2, <3>1, <3>2 DEF Leads
      <4>2. e \in [key : Ring, value : Values]
        BY <2>1, <2>2, EntryTypes DEF RingEntries
      <4>3. e = [key |-> e.key, value |-> e.value]
        BY <4>2
      <4>4. <<k, i>>[1] = k
        OBVIOUS
      <4>5. ServerEntry(<<k, i>>) = [key |-> hash[<<k, i>>], value |-> clients_map[k]]
        BY <4>4 DEF ServerEntry
      <4>6. QED
        BY <3>2, <4>1, <4>3, <4>5
    <3>3. ASSUME NEW e \in Entries PROVE \E p \in ServerPoints : e = ServerEntry(p)
      <4>1. PICK k \in OnRing, i \in Points : e.key = hash[<<k, i>>]
        BY <2>3
      <4>2. <<k, i>> \in ServerPoints
        BY DEF ServerPoints
      <4>3. QED
        BY <3>2, <4>1, <4>2
    <3>4. ASSUME NEW p \in ServerPoints PROVE ServerEntry(p) \in Entries
      <4>1. PICK k \in OnRing, i \in Points : p = <<k, i>>
        BY DEF ServerPoints
      <4>2. PICK e \in Entries : e.key = hash[<<k, i>>]
        BY <2>3
      <4>3. QED
        BY <3>2, <4>1, <4>2
    <3>5. QED
      BY <3>3, <3>4
  <2>6. entries_cnt = Cardinality(OnRing) * UniformFactor
    BY <1>1 DEF DCInv, RingInv
  <2>7. QED
    BY <2>4, <2>5, <2>6 DEF RingTracksServers
<1>2. QED
  BY <1>1, DCAlways, PTL

\* ref_cnt counts the calls that use a wrapper, its event is set when there
\* are none, and a client in use is neither stopped for good nor given away.
THEOREM UsersCorrect == Spec => []UsersKeepTheirClient
<1>1. ASSUME DCInv PROVE UsersKeepTheirClient
  <2>1. ASSUME NEW w \in Wrappers, NoCollisions, Users(w) # {} PROVE connector[w] # 0 /\ w \notin pool
    <3>1. IsFiniteSet(Users(w)) /\ ref_cnt[w] = Cardinality(Users(w))
      BY <1>1, <2>1, UsersFinite DEF DCInv, UsersCounted
    <3>2. ref_cnt[w] # 0
      BY <2>1, <3>1, FS_EmptySet
    <3>3. w \notin pool
      BY <1>1, <2>1, <3>2 DEF DCInv, UsersCounted
    <3>4. QED
      BY <1>1, <3>3 DEF DCInv, Connected
  <2>2. QED
    BY <1>1, <2>1 DEF DCInv, UsersCounted, UsersKeepTheirClient
<1>2. QED
  BY <1>1, DCAlways, PTL

\* No assertion of the wrappers, of remove_all_clients or of get_entry fails,
\* but for shared points and for a ring with all its points in one bucket.
THEOREM AssertionsCorrect == Spec => []AssertionsHold
<1>1. DCInv => AssertionsHold
  BY DEF DCInv
<1>2. QED
  BY <1>1, DCAlways, PTL

\* When mrpc_distributed_client_stop has returned, nothing is left: no fiber,
\* no client, no user, no point, and every connector has been deleted.
THEOREM StopCorrect == Spec => []StoppedMeansStopped
<1>1. ASSUME DCInv, controller = "NULL"
      PROVE  /\ main = "none" /\ ~stop_event
             /\ Servers = {} /\ IsEmpty
             /\ pool = Wrappers /\ deleted = 1 .. adds
             /\ \A c \in Callers : cookie[c] = NoValue
             /\ \A w \in Wrappers : client[w] = "stopped"
  <2>1. main = "none" /\ ~stop_event /\ ~crashed /\ Servers = {} /\ leaving = NoValue
    BY <1>1 DEF DCInv, Positions
  <2>2. IsEmpty
    <3>1. OnRing = {}
      BY <2>1 DEF OnRing
    <3>2. QED
      BY <1>1, <3>1, EmptyMeans
  <2>3. pool = Wrappers
    <3>1. \A w \in Wrappers : w \in pool
      BY <1>1, <2>1, NoWrapper DEF DCInv, Holders
    <3>2. pool \in SUBSET Wrappers
      BY <1>1 DEF DCInv, TypeOK
    <3>3. QED
      BY <3>1, <3>2
  <2>4. deleted = 1 .. adds
    <3>1. \A w \in Wrappers : connector[w] = 0
      BY <1>1, <2>3 DEF DCInv, Connected
    <3>2. ASSUME NEW a \in 1 .. adds PROVE a \in deleted
      BY <1>1, <3>1 DEF DCInv, Connected
    <3>3. deleted \subseteq 1 .. adds
      BY <1>1 DEF DCInv, Connected
    <3>4. QED
      BY <3>2, <3>3
  <2>5. ASSUME NEW c \in Callers PROVE cookie[c] = NoValue
    <3>1. SUFFICES ASSUME cookie[c] # NoValue PROVE FALSE
      OBVIOUS
    <3>2. cookie[c] \in Wrappers
      BY <1>1, <3>1 DEF DCInv, TypeOK
    <3>3. ref_cnt[cookie[c]] = 0 /\ ref_cnt[cookie[c]] = Cardinality(Users(cookie[c]))
      BY <1>1, <2>1, <2>3, <3>2 DEF DCInv, UsersCounted
    <3>4. Users(cookie[c]) = {}
      BY <3>3, UsersFinite, FS_EmptySet
    <3>5. QED
      BY <3>4 DEF Users
  <2>6. \A w \in Wrappers : client[w] = "stopped"
    BY <1>1, <2>3 DEF DCInv, Connected
  <2>7. QED
    BY <2>1, <2>2, <2>3, <2>4, <2>5, <2>6
<1>2. DCInv => StoppedMeansStopped
  BY <1>1 DEF StoppedMeansStopped
<1>3. QED
  BY <1>2, DCAlways, PTL

-----------------------------------------------------------------------------
(***************************************************************************)
(* Requests that move                                                      *)
(***************************************************************************)

\* If the next entry of a ring is at a point that a smaller ring has as well,
\* it is the next point there too.
LEMMA NextInSmaller ==
    ASSUME NEW A, NEW B, A \subseteq B, \A e \in B : e.key \in Nat, NEW key \in Nat,
           NEW f \in B, IsNext(B, key, f), NEW e \in A, e.key = f.key,
           NEW d \in A, IsNext(A, key, d)
    PROVE  d.key = f.key
<1>1. d.key \in Nat /\ f.key \in Nat /\ d \in B
  OBVIOUS
<1>2. CASE \E b \in A : b.key >= key
  <2>1. \E b \in B : b.key >= key
    BY <1>2
  <2>2. f.key >= key /\ \A b \in B : b.key >= key => f.key <= b.key
    BY <2>1 DEF IsNext
  <2>3. d.key >= key /\ \A b \in A : b.key >= key => d.key <= b.key
    BY <1>2 DEF IsNext
  <2>4. f.key <= d.key /\ d.key <= f.key
    BY <1>1, <2>2, <2>3
  <2>5. QED
    BY <1>1, <2>4
<1>3. CASE ~ \E b \in A : b.key >= key
  <2>1. ~(f.key >= key)
    BY <1>3
  <2>2. ~ \E b \in B : b.key >= key
    BY <2>1 DEF IsNext
  <2>3. \A b \in B : f.key <= b.key
    BY <2>2 DEF IsNext
  <2>4. \A b \in A : d.key <= b.key
    BY <1>3 DEF IsNext
  <2>5. f.key <= d.key /\ d.key <= f.key
    BY <1>1, <2>3, <2>4
  <2>6. QED
    BY <1>1, <2>5
<1>4. QED
  BY <1>2, <1>3

\* One value at each point.
OneValue(E) == \A e, f \in E : e.key = f.key => e.value = f.value

\* A request whose entry is at a point of the smaller ring too goes to the
\* same client there, or get_entry finds nothing.
LEMMA SmallerRing ==
    ASSUME NEW b1, RingOK(b1), NEW b2, RingOK(b2), EntriesOf(b1) \subseteq EntriesOf(b2),
           OneValue(EntriesOf(b2)), NEW key \in Ring, GetEntry(b2, key) # NoValue,
           \A e \in EntriesOf(b2) : e.value = GetEntry(b2, key) =>
               \E d \in EntriesOf(b1) : d.key = e.key
    PROVE  GetEntry(b1, key) = NoValue \/ GetEntry(b1, key) = GetEntry(b2, key)
<1>1. key \in Nat /\ Ring \subseteq Nat
  BY ConsistentHashAssumption DEF Ring
<1>2. \A e \in EntriesOf(b2) : e.key \in Nat
  BY <1>1, EntryTypes
<1>3. PICK f \in EntriesOf(b2) : f.value = GetEntry(b2, key) /\ IsNext(EntriesOf(b2), key, f)
  BY Lookup
<1>4. PICK e \in EntriesOf(b1) : e.key = f.key
  BY <1>3
<1>5. CASE AllBehind(EntriesOf(b1), key)
  BY <1>5, Lookup
<1>6. CASE ~AllBehind(EntriesOf(b1), key)
  <2>1. PICK d \in EntriesOf(b1) : d.value = GetEntry(b1, key) /\ IsNext(EntriesOf(b1), key, d)
    BY <1>6, Lookup
  <2>2. d.key = f.key
    BY <1>1, <1>2, <1>3, <1>4, <2>1, NextInSmaller
  <2>3. d.value = f.value
    BY <2>2 DEF OneValue
  <2>4. QED
    BY <1>3, <2>1, <2>3
<1>7. QED
  BY <1>5, <1>6

LEMMA LeadsOneValue ==
    ASSUME hash \in Hashes, NEW bs, RingOK(bs), NEW on \in SUBSET Keys, IsFiniteSet(on),
           Tracks(hash, on, bs), NEW m, Leads(hash, on, bs, m)
    PROVE  OneValue(EntriesOf(bs))
<1> SUFFICES ASSUME NEW e \in EntriesOf(bs), NEW f \in EntriesOf(bs), e.key = f.key
             PROVE  e.value = f.value
  BY DEF OneValue
<1>1. PICK k \in on, i \in Points : e.key = hash[<<k, i>>]
  BY RingKeys
<1>2. QED
  BY <1>1 DEF Leads

LEMMA NoValueOutside ==
    ASSUME TypeOK PROVE NoValue \notin Range(clients_map)
<1>1. clients_map \in [Servers -> Wrappers] /\ Servers = DOMAIN clients_map
  BY DEF TypeOK, Servers
<1>2. QED
  BY <1>1, NoWrapper DEF Range

\* A new server takes over requests and changes no others.
LEMMA AddMoves ==
    ASSUME DCInv, DCInv', NoCollisions, NEW k \in Keys, NEW w \in Wrappers, AddClient(k, w),
           NEW key \in Ring
    PROVE  \/ GetEntry(buckets, key) = GetEntry(buckets', key)
           \/ GetEntry(buckets, key) \notin Range(clients_map')
           \/ GetEntry(buckets', key) \notin Range(clients_map)
<1> DEFINE old == GetEntry(buckets, key)
           new == GetEntry(buckets', key)
<1>1. SUFFICES ASSUME new \in Range(clients_map) PROVE old = new \/ old = NoValue
  <2>1. NoValue \notin Range(clients_map')
    <3>1. clients_map' \in [Servers' -> Wrappers] /\ Servers' = DOMAIN clients_map'
      BY DEF DCInv, TypeOK, Servers
    <3>2. QED
      BY <3>1, NoWrapper DEF Range
  <2>2. QED
    BY <1>1, <2>1
<1>2. /\ hash \in Hashes /\ hash' = hash /\ RingOK(buckets) /\ RingOK(buckets')
      /\ OnRing' \in SUBSET Keys /\ IsFiniteSet(OnRing')
      /\ Tracks(hash', OnRing', buckets')
  BY FS_EmptySet DEF DCInv, TypeOK, RingInv, OnRing, AddClient, AddEntry
<1>3. NoCollisions'
  BY <1>2 DEF NoCollisions
<1>4. OneValue(EntriesOf(buckets'))
  <2>1. Leads(hash', OnRing', buckets', clients_map')
    BY <1>3 DEF DCInv, RingInv
  <2>2. Leads(hash, OnRing', buckets', clients_map') /\ Tracks(hash, OnRing', buckets')
    BY <2>1, <1>2
  <2>3. QED
    BY <1>2, <2>2, LeadsOneValue
<1>5. EntriesOf(buckets') = EntriesOf(buckets) \cup ServerEntries(k, w)
  <2>1. buckets' = WithPoints(buckets, k, w) /\ w \in Values
    BY DEF AddClient, AddEntry, Wrappers
  <2>2. QED
    BY <1>2, <2>1, AddAll
<1>6. new # NoValue /\ new # w
  <2>1. new # NoValue
    BY <1>1, NoValueOutside DEF DCInv
  <2>2. w \in pool
    BY DEF AddClient
  <2>3. w \notin Range(clients_map)
    BY <2>2 DEF DCInv, Holders, Range, Servers
  <2>4. QED
    BY <1>1, <2>1, <2>3
<1>7. ASSUME NEW e \in EntriesOf(buckets'), e.value = new
      PROVE  \E d \in EntriesOf(buckets) : d.key = e.key
  <2>1. ASSUME NEW d \in ServerEntries(k, w) PROVE d.value = w
    <3>1. PICK i \in Points : d = [key |-> hash[<<k, i>>], value |-> w]
      BY DEF ServerEntries
    <3>2. QED
      BY <3>1
  <2>2. e \notin ServerEntries(k, w)
    BY <1>6, <1>7, <2>1
  <2>3. QED
    BY <1>5, <2>2
<1>8. QED
  BY <1>2, <1>4, <1>5, <1>6, <1>7, SmallerRing

\* A server that leaves takes its requests along and no others.
LEMMA RemoveMoves ==
    ASSUME DCInv, NoCollisions, NEW k \in Keys, RemoveClient(k), NEW key \in Ring
    PROVE  \/ GetEntry(buckets, key) = GetEntry(buckets', key)
           \/ GetEntry(buckets, key) \notin Range(clients_map')
           \/ GetEntry(buckets', key) \notin Range(clients_map)
<1> DEFINE old == GetEntry(buckets, key)
           new == GetEntry(buckets', key)
<1>1. SUFFICES ASSUME old \in Range(clients_map') PROVE new = old \/ new = NoValue
  BY NoValueOutside DEF DCInv
<1>2. /\ hash \in Hashes /\ hash' = hash /\ RingOK(buckets) /\ RingOK(buckets')
      /\ OnRing = Servers /\ Servers \in SUBSET Keys /\ IsFiniteSet(Servers) /\ k \in Servers
      /\ Tracks(hash, Servers, buckets) /\ Leads(hash, Servers, buckets, clients_map)
  <2>1. OnRing = Servers /\ RingOK(buckets') /\ k \in Servers
    BY RemoveClientRing
  <2>2. hash' = hash
    BY DEF RemoveClient, RemoveEntry
  <2>3. QED
    BY <2>1, <2>2 DEF DCInv, TypeOK, RingInv
<1>3. /\ EntriesOf(buckets') \subseteq EntriesOf(buckets)
      /\ Tracks(hash, Servers \ {k}, buckets')
  <2>1. buckets' = WithoutPoints(buckets, k)
    BY DEF RemoveClient, RemoveEntry
  <2>2. QED
    BY <1>2, <2>1, RingLoses
<1>4. OneValue(EntriesOf(buckets))
  BY <1>2, LeadsOneValue
<1>5. PICK j \in Servers \ {k} : old = clients_map[j]
  <2>1. clients_map' = [j \in Servers \ {k} |-> clients_map[j]]
    BY DEF RemoveClient, Restrict
  <2>2. QED
    BY <1>1, <2>1 DEF Range
<1>6. old # NoValue
  BY <1>5, NoWrapper DEF DCInv, TypeOK
<1>7. ASSUME NEW e \in EntriesOf(buckets), e.value = old
      PROVE  \E d \in EntriesOf(buckets') : d.key = e.key
  <2>1. PICK l \in Servers, i \in Points : e.key = hash[<<l, i>>]
    BY <1>2, RingKeys
  <2>2. clients_map[l] = clients_map[j]
    BY <1>2, <1>5, <1>7, <2>1 DEF Leads
  <2>3. l \in Servers \ {k}
    BY <1>5, <2>2 DEF DCInv, Holders
  <2>4. Servers \ {k} \in SUBSET Keys /\ IsFiniteSet(Servers \ {k})
    BY <1>2, FS_RemoveElement
  <2>5. QED
    BY <1>2, <1>3, <2>1, <2>3, <2>4, RingKeys
<1>8. QED
  BY <1>2, <1>3, <1>4, <1>6, <1>7, SmallerRing

LEMMA EmptyingMoves ==
    ASSUME DCInv, NEW why \in {"remove all", "stop"}, BeginRemoveAll(why), NEW key \in Ring
    PROVE  GetEntry(buckets', key) \notin Range(clients_map)
<1>1. RingOK(buckets') /\ EntriesOf(buckets') = {}
  BY RemoveAllRing
<1>2. AllBehind(EntriesOf(buckets'), key)
  BY <1>1 DEF AllBehind
<1>3. GetEntry(buckets', key) = NoValue
  BY <1>1, <1>2, Lookup
<1>4. QED
  BY <1>3, NoValueOutside DEF DCInv

\* Consistent hashing: however many servers and points there are, a request
\* changes its client only when that client's server has gone, or to one whose
\* server has just come.
THEOREM RequestsStay == Spec => OnlyOwnKeysMove
<1>1. ASSUME DCInv, DCInv', [Next]_vars, buckets' # buckets, NoCollisions, NEW key \in Ring
      PROVE  \/ GetEntry(buckets, key) = GetEntry(buckets', key)
             \/ GetEntry(buckets, key) \notin Range(clients_map')
             \/ GetEntry(buckets', key) \notin Range(clients_map)
  <2>1. ASSUME NEW k \in Keys, NEW w \in Wrappers, AddClient(k, w)
        PROVE  \/ GetEntry(buckets, key) = GetEntry(buckets', key)
               \/ GetEntry(buckets, key) \notin Range(clients_map')
               \/ GetEntry(buckets', key) \notin Range(clients_map)
    BY <1>1, <2>1, AddMoves
  <2>2. ASSUME NEW k \in Keys, RemoveClient(k)
        PROVE  \/ GetEntry(buckets, key) = GetEntry(buckets', key)
               \/ GetEntry(buckets, key) \notin Range(clients_map')
               \/ GetEntry(buckets', key) \notin Range(clients_map)
    BY <1>1, <2>2, RemoveMoves
  <2>3. CASE RemoveAllClients \/ GetStopMessage
    BY <1>1, <2>3, EmptyingMoves DEF RemoveAllClients, GetStopMessage
  <2>4. \/ \E k \in Keys, w \in Wrappers : AddClient(k, w)
        \/ \E k \in Keys : RemoveClient(k)
        \/ RemoveAllClients \/ GetStopMessage
    BY <1>1 DEF Next, MainStep, Terminated, vars, ringVars, Start, Stop, StopReturns,
                AddClientRefused, AddClientTwice, RemoveNext, AllRemoved, ClientStops, NoUsersLeft,
                WrapperStopped, AcquireClient, AcquireClientCrashes, AcquireNothing, ReleaseClient
  <2>5. QED
    BY <2>1, <2>2, <2>3, <2>4
<1>2. DCInv /\ DCInv' /\ [Next]_vars =>
        [buckets' # buckets /\ NoCollisions =>
           \A key \in Ring :
               LET old == GetEntry(buckets, key)
                   new == GetEntry(buckets, key)'
               IN  \/ old = new
                   \/ old \notin Range(clients_map')
                   \/ new \notin Range(clients_map)]_vars
  BY <1>1
<1>3. QED
  BY <1>2, DCAlways, PTL DEF Spec, OnlyOwnKeysMove
=============================================================================
