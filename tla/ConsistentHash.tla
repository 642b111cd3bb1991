--------------------------- MODULE ConsistentHash ---------------------------
(***************************************************************************)
(* struct mrpc_consistent_hash: a ring of points.  Every server has        *)
(* uniform_factor points, a request goes to the server with the first      *)
(* point at or after the hash of the request, and the search wraps round.  *)
(* The ring is cut into buckets, each a list that is sorted by key.        *)
(*                                                                         *)
(* The code has 2^order buckets of 2^(32 - order) keys.  Order 0 is left   *)
(* out: get_bucket_num would shift a 32-bit value by 32 bits.              *)
(***************************************************************************)
EXTENDS Integers, SequencesExt

CONSTANTS
    BucketsCnt,              \* 1 << order
    BucketSize,              \* 1 << (32 - order)
    UniformFactor,           \* uniform_factor
    Keys,                    \* the keys of the servers
    Values,                  \* what the entries point to
    NoValue,                 \* get_entry has not set *value
    Hashes                   \* the functions ff_hash_uint32 may be

Ring == 0 .. BucketsCnt * BucketSize - 1
Points == 0 .. UniformFactor - 1

ASSUME ConsistentHashAssumption ==
    /\ BucketsCnt \in Nat \ {0, 1}
    /\ BucketSize \in Nat \ {0}
    /\ UniformFactor \in Nat \ {0}
    /\ NoValue \notin Values
    /\ Hashes \subseteq [Keys \X Points -> Ring]

VARIABLES
    hash,                    \* external: ff_hash_uint32(i, key), fixed for ever
    buckets,                 \* the sorted lists
    entries_cnt              \* their total length

ringVars == <<hash, buckets, entries_cnt>>

Buckets == 0 .. BucketsCnt - 1
RingEntries == [key : Ring, value : Values]

\* get_bucket_num
GetBucketNum(key) == key \div BucketSize

\* add_entry_with_key: before the first entry whose key is not smaller
AddEntryWithKey(bs, key, value) ==
    LET n  == GetBucketNum(key)
        at == SelectInSeq(bs[n], LAMBDA e : e.key >= key)
        i  == IF at = 0 THEN Len(bs[n]) + 1 ELSE at
    IN  [bs EXCEPT ![n] = InsertAt(@, i, [key |-> key, value |-> value])]

\* mutant: the head of the list is unlinked, not the entry that was found
RemoveHead(bs, key) == [bs EXCEPT ![GetBucketNum(key)] = Tail(@)]

\* remove_entry_with_key: the first entry with this key, whoever added it
RemoveEntryWithKey(bs, key) ==
    LET n == GetBucketNum(key)
        i == SelectInSeq(bs[n], LAMBDA e : e.key = key)
    IN  [bs EXCEPT ![n] = RemoveAt(@, i)]

\* the loop over the points of a server in mrpc_consistent_hash_add_entry ...
WithPoints(bs, k, value) ==
    LET upto[i \in 0 .. UniformFactor] ==
            IF i = 0 THEN bs
            ELSE AddEntryWithKey(upto[i - 1], hash[<<k, i - 1>>], value)
    IN  upto[UniformFactor]

\* ... and in mrpc_consistent_hash_remove_entry
WithoutPoints(bs, k) ==
    LET upto[i \in 0 .. UniformFactor] ==
            IF i = 0 THEN bs
            ELSE RemoveEntryWithKey(upto[i - 1], hash[<<k, i - 1>>])
    IN  upto[UniformFactor]

-----------------------------------------------------------------------------
(***************************************************************************)
(* mrpc_consistent_hash_get_entry.  Pass i of its loop looks into one      *)
(* bucket, for the first entry at or after the key, or, once the search    *)
(* has wrapped round, for the first entry.                                 *)
(***************************************************************************)
PassBucket(key, i) == (GetBucketNum(key) + i) % BucketsCnt

\* mutant: key is not set to 0 when the search wraps round
PassKeyKept(key, i) == key

PassKey(key, i) == IF GetBucketNum(key) + i < BucketsCnt THEN key ELSE 0

\* where pass i stops in its bucket; 0: it finds nothing
Hit(bs, key, i) ==
    SelectInSeq(bs[PassBucket(key, i)], LAMBDA e : e.key >= PassKey(key, i))

GetEntry(bs, key) ==
    LET hits == {i \in Buckets : Hit(bs, key, i) # 0}
    IN  IF hits = {} THEN NoValue
        ELSE bs[PassBucket(key, Min(hits))][Hit(bs, key, Min(hits))].value

-----------------------------------------------------------------------------
\* mrpc_consistent_hash_create
RingInit ==
    /\ hash \in Hashes
    /\ buckets = [n \in Buckets |-> <<>>]
    /\ entries_cnt = 0

\* mrpc_consistent_hash_add_entry
AddEntry(k, value) ==
    /\ buckets' = WithPoints(buckets, k, value)
    /\ entries_cnt' = entries_cnt + UniformFactor
    /\ UNCHANGED hash

\* mrpc_consistent_hash_remove_entry
RemoveEntry(k) ==
    /\ buckets' = WithoutPoints(buckets, k)
    /\ entries_cnt' = entries_cnt - UniformFactor
    /\ UNCHANGED hash

\* mrpc_consistent_hash_remove_all_entries
RemoveAllEntries ==
    /\ buckets' = [n \in Buckets |-> <<>>]
    /\ entries_cnt' = 0
    /\ UNCHANGED hash

\* mrpc_consistent_hash_is_empty
IsEmpty == entries_cnt = 0

-----------------------------------------------------------------------------
(***************************************************************************)
(* Properties of the ring                                                  *)
(***************************************************************************)
Entries == UNION {ToSet(buckets[n]) : n \in Buckets}

\* What a lookup is for: the key of the first point at or after the key, and
\* of the first point of all if there is none.
NextPoint(key) ==
    LET keys  == {e.key : e \in Entries}
        after == {k \in keys : k >= key}
    IN  IF after # {} THEN Min(after) ELSE Min(keys)

\* All points lie in the bucket of the key, before the key.
OnlyBehind(key) ==
    \A e \in Entries : e.key < key /\ GetBucketNum(e.key) = GetBucketNum(key)

\* Whatever get_entry finds is right: it never passes over the next point on the
\* ring for one further on, in the bucket of the key, in the buckets after it or
\* once the search has wrapped round.  Keys with no point except behind them in
\* their own bucket are LookupTotal's.
LookupCorrect ==
    \A key \in Ring : ~OnlyBehind(key) =>
        \E e \in Entries : /\ e.key = NextPoint(key)
                           /\ e.value = GetEntry(buckets, key)

\* "It is assumed that the consistent_hash contains at least one entry": that is
\* all that is asked of the caller, so every key of a ring that is not empty
\* has a value.  This does not hold: the loop looks into the bucket of the key
\* only once, and entries there that lie before the key are missed if there
\* are no others (the ff_assert(0) at the end of the function).
LookupTotal ==
    ~IsEmpty => \A key \in Ring : GetEntry(buckets, key) # NoValue

\* No two servers have a point in common: 32-bit hash values need not give
\* that, and remove_entry_with_key depends on it.
NoCollisions ==
    \A j, k \in Keys : \A h, i \in Points : hash[<<j, h>>] = hash[<<k, i>>] => j = k
=============================================================================
