---------------------------- MODULE RpcCallProofs ----------------------------
(***************************************************************************)
(* Proofs about RpcCall, for every interface: however a call ends, objects *)
(* and files are neither leaked nor freed too early, and what a peer sends *)
(* is of the declared type or refused.                                     *)
(***************************************************************************)
EXTENDS RpcCall, FiniteSetTheorems, SequenceTheorems, CommonFacts, TLAPS

(***************************************************************************)
(* The inductive invariant                                                 *)
(***************************************************************************)
ArrayTypes == {"char_array", "wchar_array"}
Phases == {"idle", "create_stream", "write_request", "read_method_id",
           "read_request", "service", "write_response", "end_handler",
           "read_response", "end_method", "returned"}
Filled == {"read_request", "read_response", "service"}
Owners == {"args", "request", "response", "received"}

Types ==
    /\ phase \in Phases
    /\ step \in {"param", "open", "copy", "flush", "close"}
    /\ i \in Nat \ {0}
    /\ method_id \in 0 .. Len(Methods) - 1
    /\ served_id \in 0 .. Len(Methods) - 1
    /\ wire \in Seq(Bytes)

\* the variables of the functions: which of them exist when, and which of them
\* point to something
Empty(fs) == \A f \in fs : DOMAIN slots[f] = {}
Full(f) == DOMAIN slots[f] = DOMAIN TypesOf(f)

Variables ==
    /\ DOMAIN slots = Frames
    /\ \A f \in Frames : DOMAIN slots[f] = {} \/ Full(f)
    /\ \A f \in Frames : \A n \in DOMAIN slots[f] :
         ~IsPtr(TypesOf(f)[n]) => HasType(TypesOf(f)[n], slots[f][n])
    /\ phase = "idle" => Empty(Frames) /\ remaining = {}
    /\ phase \in {"create_stream", "write_request", "read_method_id"} =>
         Empty(Frames \ {"args"})
    /\ phase \in {"create_stream", "write_request"} => Full("args")
    /\ phase \in {"read_request", "service", "write_response", "end_handler"} =>
         Empty({"received", "returned"}) /\ Full("request") /\ Full("response")
    /\ phase = "read_response" => Empty({"returned"}) /\ Full("received")

Pointing ==
    /\ phase \in Filled => \A n \in DOMAIN slots[Reading] : n >= i => ~IsSet(Reading, n)
    /\ phase = "read_request" => \A n \in DOMAIN slots["response"] : ~IsSet("response", n)
    /\ phase \in {"create_stream", "write_request"} =>
         \A n \in DOMAIN slots["args"] : IsPtr(TypesOf("args")[n]) => IsSet("args", n)
    /\ phase = "service" =>
         \A n \in DOMAIN slots["response"] :
            n < i /\ IsPtr(TypesOf("response")[n]) => IsSet("response", n)
    /\ phase = "write_response" =>
         \A n \in DOMAIN slots["response"] :
            IsPtr(TypesOf("response")[n]) => IsSet("response", n)

ObjType(o) == TypesOf(o[1])[o[2]]
IsName(o) == /\ o = <<o[1], o[2]>> /\ o[1] \in Owners
             /\ o[2] \in DOMAIN TypesOf(o[1])

Objects ==
    /\ \A a \in DOMAIN arrays :
         /\ IsName(a) /\ ObjType(a) \in ArrayTypes
         /\ DOMAIN arrays[a] = {"value", "ref_cnt"}
         /\ HasType(ObjType(a), arrays[a].value)
    /\ \A b \in DOMAIN blobs :
         /\ IsName(b) /\ ObjType(b) = "blob"
         /\ ~Filling(b) => blobs[b].state = "COMPLETE"

\* blobs and their files
BlobType == [file_path : 1 .. files, len : 0 .. 2^(WordBits - 1) - 1,
             state : {"EMPTY", "INCOMPLETE", "COMPLETE"}, ref_cnt : Nat]

Files ==
    /\ files \in Nat
    /\ \A b \in DOMAIN blobs : blobs[b] \in BlobType /\ Path(b) \notin remaining
    /\ DOMAIN disk \subseteq 1 .. files
    /\ \A p \in DOMAIN disk : disk[p] \in Seq(Bytes)
    /\ FilesMatchBlobs

BlobStreams ==
    /\ phase # "returned" /\ step \in {"param", "open"} => streams = {}
    /\ step \in {"copy", "flush", "close"} =>
         streams = {[blob |-> Name, who |-> "writer", mode |-> "WRITE",
                     curr_pos |-> Len(disk[Path(Name)])]}
    /\ phase = "returned" =>
         /\ IsFiniteSet(streams)
         /\ \A s \in streams :
              /\ s = [blob |-> s.blob, who |-> s.who, mode |-> "READ", curr_pos |-> s.curr_pos]
              /\ s.blob \in DOMAIN blobs
         /\ \A s, t \in streams : s.who = t.who => s = t

NewBlob ==
    step # "param" =>
        /\ phase \in Filled
        /\ i \in DOMAIN TypesOf(Reading) /\ Type = "blob" /\ Name \in DOMAIN blobs
        /\ step = "open" => blobs[Name].state = "EMPTY"
        /\ step = "copy" =>
             \/ blobs[Name].state = "INCOMPLETE"
             \/ phase = "service" /\ blobs[Name].state = "COMPLETE"
        /\ step = "copy" /\ phase # "service" => disk[Path(Name)] = <<>>
        /\ step = "flush" =>
             blobs[Name].state = "INCOMPLETE" /\ Len(disk[Path(Name)]) = blobs[Name].len
        /\ step = "close" => blobs[Name].state = "COMPLETE"
        /\ phase = "service" => step \in {"open", "copy"}

\* what the service answers, as long as the answer is not complete
Answers == UNION {ValuesOf[type] : type \in ParamTypes}

Answering ==
    /\ phase \in {"idle", "create_stream", "write_request", "read_method_id",
                  "read_request"} => answer = <<>>
    /\ phase = "service" =>
         /\ answer \in Seq(Answers)
         /\ Len(answer) = IF step = "param" THEN i - 1 ELSE i
         /\ step # "param" =>
              answer[i] \in Seq(Bytes) /\ Len(answer[i]) = blobs[Name].len

\* how many variables point to an object
Count(o) == (IF IsSet(o[1], o[2]) THEN 1 ELSE 0)
                + (IF o[1] = "received" /\ IsSet("returned", o[2]) THEN 1 ELSE 0)

\* RefsExact in the form in which the proofs use it
RefsOK ==
    /\ \A a \in DOMAIN arrays : arrays[a].ref_cnt = Count(a) /\ Count(a) > 0
    /\ \A b \in DOMAIN blobs :
         /\ blobs[b].ref_cnt = Count(b) + Cardinality(OpenStreams(b)) + (IF Filling(b) THEN 1 ELSE 0)
         /\ blobs[b].ref_cnt > 0
    /\ \A f \in Frames : \A n :
         IsSet(f, n) => <<Owner(f), n>> \in DOMAIN arrays \union DOMAIN blobs

CallInv ==
    /\ Types /\ Variables /\ Pointing /\ Objects /\ Files /\ BlobStreams /\ NewBlob
    /\ Answering /\ RefsOK

(***************************************************************************)
(* Integers                                                                *)
(***************************************************************************)

LEMMA Widths ==
    /\ OctetBits \in Nat /\ OctetBits >= 1
    /\ WordBits \in Nat /\ WordBits >= 1 /\ LongBits \in Nat /\ LongBits >= WordBits
    /\ MaxArrayLength \in Nat /\ MaxArrayLength < 2^(WordBits - 1)
    /\ CharLimit \in Nat /\ CharLimit >= 1 /\ CharLimit <= 2^WordBits
BY MrpcIntAssumption

LEMMA Monotone ==
    ASSUME NEW a \in Nat, NEW b \in Nat, a <= b, NEW c \in Nat
    PROVE  a * c <= b * c /\ a * c \in Nat
<1>1. a * c \in Nat /\ (b - a) * c \in Nat /\ b - a \in Nat
  OBVIOUS
<1>2. b * c = a * c + (b - a) * c
  OBVIOUS
<1> QED
  BY <1>1, <1>2

\* the exponents for which the powers of 2 are known
Exponents == 0 .. LongBits * OctetBits

LEMMA ExponentRange ==
    /\ \A n \in 0 .. LongBits : n \in Exponents /\ n * OctetBits \in Exponents
    /\ WordBits \in Exponents /\ WordBits - 1 \in Exponents
    /\ LongBits - 1 \in Exponents /\ OctetBits \in Exponents
<1>1. ASSUME NEW n \in 0 .. LongBits
      PROVE  n \in Exponents /\ n * OctetBits \in Exponents
  <2>1. n * OctetBits <= LongBits * OctetBits /\ n * OctetBits \in Nat
    BY Widths, Monotone
  <2>2. n * 1 <= n * OctetBits
    BY Widths, Monotone
  <2> QED
    BY <2>1, <2>2, Widths DEF Exponents
<1>2. 1 * OctetBits \in Exponents
  BY <1>1, Widths
<1> QED
  BY <1>1, <1>2, Widths

LEMMA Power ==
    ASSUME NEW k \in Exponents
    PROVE  2^k \in Nat /\ 2^k >= 1 /\ 2^(k + 1) = 2 * 2^k
BY PowersOfTwo DEF Exponents

LEMMA PowerGrows ==
    ASSUME NEW a \in Exponents, NEW b \in Exponents, a <= b
    PROVE  2^a <= 2^b
<1> DEFINE T == {n \in Nat : a + n \in Exponents => 2^a <= 2^(a + n)}
<1>1. a \in Nat /\ b - a \in Nat /\ a + (b - a) = b
  BY Widths DEF Exponents
<1>2. 0 \in T
  BY <1>1, Power
<1>3. ASSUME NEW n \in 0 .. (b - a) - 1, n \in T
      PROVE  n + 1 \in T
  <2>1. a + n \in Exponents /\ a + (n + 1) = (a + n) + 1 /\ n + 1 \in Nat
    BY <1>1, Widths DEF Exponents
  <2>2. 2^a <= 2^(a + n) /\ 2^a \in Nat
    BY <1>3, <2>1, Power
  <2>3. 2^(a + n) \in Nat /\ 2^((a + n) + 1) = 2 * 2^(a + n)
    BY <2>1, Power
  <2>4. 2^a <= 2^((a + n) + 1)
    BY <2>2, <2>3
  <2> QED
    BY <2>1, <2>4
<1>4. 0 .. (b - a) \subseteq T
  BY <1>1, <1>2, <1>3, Iterating
<1>5. b - a \in T
  BY <1>1, <1>4
<1> QED
  BY <1>1, <1>5

\* the numbers that bound the types
LEMMA Limits ==
    /\ ContinueFlag \in Nat /\ ContinueFlag >= 1
    /\ 2^WordBits \in Nat /\ 2^(WordBits - 1) \in Nat /\ 2^(WordBits - 1) >= 1
    /\ 2^WordBits = 2 * 2^(WordBits - 1)
    /\ 2^LongBits \in Nat /\ 2^(LongBits - 1) \in Nat /\ 2^(LongBits - 1) >= 1
    /\ 2^LongBits = 2 * 2^(LongBits - 1)
    /\ 2^WordBits <= 2^LongBits
<1>1. ContinueFlag \in Nat /\ ContinueFlag >= 1
  BY ExponentRange, Power DEF ContinueFlag
<1>2. (WordBits - 1) + 1 = WordBits /\ (LongBits - 1) + 1 = LongBits /\ LongBits \in 0 .. LongBits
  BY Widths
<1>3. /\ 2^(WordBits - 1) \in Nat /\ 2^(WordBits - 1) >= 1
      /\ 2^((WordBits - 1) + 1) = 2 * 2^(WordBits - 1)
  BY ExponentRange, Power
<1>4. /\ 2^(LongBits - 1) \in Nat /\ 2^(LongBits - 1) >= 1
      /\ 2^((LongBits - 1) + 1) = 2 * 2^(LongBits - 1)
  BY ExponentRange, Power
<1>5. LongBits \in Exponents
  BY <1>2, ExponentRange
<1>6. 2^WordBits <= 2^LongBits /\ 2^WordBits \in Nat /\ 2^LongBits \in Nat
  BY <1>5, ExponentRange, Power, PowerGrows, Widths
<1> QED
  BY <1>1, <1>2, <1>3, <1>4, <1>6

LEMMA Remainder ==
    ASSUME NEW x \in Int, NEW y \in Nat, y >= 1
    PROVE  x % y \in 0 .. y - 1 /\ x \div y \in Int
OBVIOUS

\* The octets of a number of LongBits bits are bytes.
LEMMA Uint64SerializeType ==
    ASSUME NEW data \in 0 .. 2^LongBits - 1
    PROVE  Uint64Serialize(data) \in Seq(Bytes)
<1> DEFINE S == {n \in 1 .. LongBits : data < Shifted(1, n)}
<1>1. data \in Nat /\ data < 2^LongBits
  BY Limits
<1>2. LongBits \in S
  <2>1. LongBits \in 1 .. LongBits /\ LongBits \in 0 .. LongBits
    BY Widths
  <2>2. LongBits \in Exponents /\ LongBits * OctetBits \in Exponents
    BY <2>1, ExponentRange
  <2>3. LongBits * 1 <= LongBits * OctetBits /\ LongBits * 1 = LongBits
    BY Widths, Monotone
  <2>4. 2^LongBits <= 2^(LongBits * OctetBits) /\ 2^(LongBits * OctetBits) \in Nat
    BY <2>2, <2>3, PowerGrows, Power
  <2>5. Shifted(1, LongBits) = 2^(LongBits * OctetBits)
    BY <2>4 DEF Shifted
  <2>6. data < Shifted(1, LongBits)
    BY <1>1, <2>4, <2>5, Limits
  <2> QED
    BY <2>1, <2>6
<1>3. S \in SUBSET Nat /\ S # {}
  BY <1>2
<1>4. \E n \in S : \A m \in S : n <= m
  BY <1>3, LeastElement
<1>5. OctetsCnt(data) \in S
  BY <1>4 DEF OctetsCnt, Min
<1> DEFINE cnt == OctetsCnt(data)
<1>6. cnt \in 1 .. LongBits
  BY <1>5
<1> HIDE DEF cnt
<1>7. ASSUME NEW k \in 1 .. cnt
      PROVE  Octet(data, k - 1) \in 0 .. ContinueFlag - 1
  <2>1. k - 1 \in 0 .. LongBits
    BY <1>6, Widths
  <2>2. (k - 1) * OctetBits \in Exponents
    BY <2>1, ExponentRange
  <2>3. 2^((k - 1) * OctetBits) \in Nat /\ 2^((k - 1) * OctetBits) >= 1
    BY <2>2, Power
  <2>4. Shifted(1, k - 1) = 2^((k - 1) * OctetBits)
    BY <2>3 DEF Shifted
  <2>5. data \div Shifted(1, k - 1) \in Int
    BY <1>1, <2>3, <2>4, Remainder
  <2> QED
    BY <2>5, Limits, Remainder DEF Octet
<1>8. ASSUME NEW k \in 1 .. cnt
      PROVE  Octet(data, k - 1) + (IF k < cnt THEN ContinueFlag ELSE 0) \in Bytes
  BY <1>7, Limits DEF Bytes
<1>9. Uint64Serialize(data) =
        [k \in 1 .. cnt |-> Octet(data, k - 1) + (IF k < cnt THEN ContinueFlag ELSE 0)]
  BY DEF Uint64Serialize, cnt
<1>10. cnt \in Nat
  BY <1>6
<1> QED
  BY <1>8, <1>9, <1>10

LEMMA ZigZagRange ==
    ASSUME NEW m \in Nat, NEW data \in -m .. m - 1
    PROVE  ZigZag(data) \in 0 .. 2 * m - 1
BY DEF ZigZag

LEMMA UnZigZagRange ==
    ASSUME NEW m \in Nat, NEW u \in 0 .. 2 * m - 1
    PROVE  UnZigZag(u) \in -m .. m - 1
BY DEF UnZigZag

(***************************************************************************)
(* What an unserialize function returns                                    *)
(***************************************************************************)
Returns(r, V) ==
    /\ r = [ok |-> r.ok, value |-> r.value, rest |-> r.rest]
    /\ r.ok \in BOOLEAN
    /\ r.ok => r.value \in V /\ r.rest \in Seq(Bytes)

LEMMA FailedReturns ==
    ASSUME NEW V
    PROVE  Returns(Failed, V) /\ Failed.ok = FALSE
BY DEF Returns, Failed

LEMMA ReadReturns ==
    ASSUME NEW V, NEW v \in V, NEW r \in Seq(Bytes)
    PROVE  Returns(Read(v, r), V) /\ Read(v, r).ok = TRUE
           /\ Read(v, r).value = v /\ Read(v, r).rest = r
BY DEF Returns, Read

LEMMA ElementType ==
    ASSUME NEW S, NEW s \in Seq(S), NEW k \in DOMAIN s
    PROVE  s[k] \in S
OBVIOUS

LEMMA RestType ==
    ASSUME NEW s \in Seq(Bytes), NEW n \in 0 .. Len(s)
    PROVE  SubSeq(s, n + 1, Len(s)) \in Seq(Bytes)
<1>1. n + 1 \in 1 .. Len(s) + 1 /\ Len(s) \in Nat
  OBVIOUS
<1> QED
  BY <1>1, SubSeqProperties

\* The sum of the first n elements of d, computed as the loop does.
LEMMA SumType ==
    ASSUME NEW n \in Nat, NEW d, \A k \in 1 .. n : d[k] \in Int,
           NEW sum,
           sum = CHOOSE g : g = [k \in 0 .. n |-> IF k = 0 THEN 0 ELSE g[k - 1] + d[k]]
    PROVE  /\ sum = [k \in 0 .. n |-> IF k = 0 THEN 0 ELSE sum[k - 1] + d[k]]
           /\ \A k \in 0 .. n : sum[k] \in Int
<1> DEFINE F == [k \in 0 .. n - 1 |-> [x \in Int |-> x + d[k + 1]]]
           Body(g) == [k \in 0 .. n |-> IF k = 0 THEN 0 ELSE g[k - 1] + d[k]]
<1>1. F \in [0 .. n - 1 -> [Int -> Int]]
  OBVIOUS
<1>2. PICK f \in [0 .. n -> Int] : Runs(f, n, 0, F)
  <2> HIDE DEF F
  <2>1. 0 \in Int
    OBVIOUS
  <2> QED
    BY <1>1, <2>1, LoopStates, Zenon
<1>3. f = Body(f)
  <2>1. f[0] = 0
    BY <1>2 DEF Runs
  <2>2. ASSUME NEW k \in 1 .. n PROVE f[k] = f[k - 1] + d[k]
    <3>1. f[k] = F[k - 1][f[k - 1]]
      BY <1>2, Zenon DEF Runs
    <3>2. k - 1 \in 0 .. n - 1 /\ k - 1 \in 0 .. n /\ (k - 1) + 1 = k
      OBVIOUS
    <3>3. F[k - 1] = [x \in Int |-> x + d[(k - 1) + 1]]
      BY <3>2
    <3>4. f[k - 1] \in Int
      BY <3>2
    <3> QED
      BY <3>1, <3>2, <3>3, <3>4
  <2> QED
    BY <2>1, <2>2
<1> HIDE DEF F
<1>4. sum = Body(sum)
  <2>1. \E g : g = Body(g)
    BY <1>3
  <2>2. sum = CHOOSE g : g = Body(g)
    OBVIOUS
  <2> HIDE DEF Body
  <2> QED
    BY <2>1, <2>2
<1> DEFINE T == {k \in Nat : k \in 0 .. n => sum[k] \in Int}
<1>5. 0 \in T
  <2>1. Body(sum)[0] = 0
    OBVIOUS
  <2>2. sum[0] = 0
    BY <1>4, <2>1, Zenon
  <2> QED
    BY <2>2
<1>6. ASSUME NEW k \in 0 .. n - 1, k \in T
      PROVE  k + 1 \in T
  <2>1. k + 1 \in 0 .. n /\ k + 1 # 0 /\ (k + 1) - 1 = k /\ k + 1 \in 1 .. n /\ k \in 0 .. n
    OBVIOUS
  <2>2. sum[k + 1] = sum[(k + 1) - 1] + d[k + 1]
    BY <1>4, <2>1
  <2>3. sum[k] \in Int /\ d[k + 1] \in Int
    BY <1>6, <2>1
  <2>4. sum[k + 1] \in Int
    BY <2>1, <2>2, <2>3
  <2> QED
    BY <2>4
<1>7. 0 .. n \subseteq T
  <2> HIDE DEF T
  <2> QED
    BY <1>5, <1>6, Iterating
<1> QED
  BY <1>4, <1>7

\* mrpc_uint64_unserialize returns a number of LongBits bits, whatever it reads.
LEMMA Uint64UnserializeType ==
    ASSUME NEW s \in Seq(Bytes)
    PROVE  Returns(Uint64Unserialize(s), 0 .. 2^LongBits - 1)
<1> DEFINE ends == {n \in 1 .. Len(s) : s[n] < ContinueFlag}
           n    == Min(ends)
           sum  == CHOOSE g : g = [k \in 0 .. n |->
                      IF k = 0 THEN 0 ELSE g[k - 1] + Shifted(s[k] % ContinueFlag, k - 1)]
<1>1. Uint64Unserialize(s) =
        IF ends = {} \/ (n - 1) * OctetBits >= LongBits THEN Failed
        ELSE Read(sum[n] % 2^LongBits, SubSeq(s, n + 1, Len(s)))
  BY DEF Uint64Unserialize
<1>2. CASE ends = {} \/ (n - 1) * OctetBits >= LongBits
  BY <1>1, <1>2, FailedReturns
<1>3. CASE ends # {} /\ ~((n - 1) * OctetBits >= LongBits)
  <2>1. ends \in SUBSET Nat
    OBVIOUS
  <2>2. \E k \in ends : \A m \in ends : k <= m
    BY <1>3, <2>1, LeastElement
  <2>3. n \in ends
    BY <2>2 DEF Min
  <2>4. n \in 1 .. Len(s)
    BY <2>3
  <2> DEFINE d == [k \in 1 .. n |-> Shifted(s[k] % ContinueFlag, k - 1)]
  <2>5. n \in Nat /\ n <= Len(s)
    BY <2>4
  <2> HIDE DEF n
  <2>6. ASSUME NEW k \in 1 .. n PROVE d[k] \in Int
    <3>1. k - 1 \in Nat /\ n - 1 \in Nat /\ k - 1 <= n - 1 /\ OctetBits \in Nat
      BY <2>5, Widths
    <3>2. (k - 1) * OctetBits <= (n - 1) * OctetBits /\ (k - 1) * OctetBits \in Nat
          /\ (n - 1) * OctetBits \in Nat
      BY <3>1, Monotone
    <3>3. (k - 1) * OctetBits \in 0 .. LongBits
      BY <1>3, <3>2, Widths
    <3>4. (k - 1) * OctetBits \in Exponents
      BY <3>3, ExponentRange
    <3>5. 2^((k - 1) * OctetBits) \in Nat
      BY <3>4, Power
    <3>6. s[k] \in Bytes
      BY <2>5
    <3>7. s[k] \in Int
      BY <3>6, Limits DEF Bytes
    <3>8. s[k] % ContinueFlag \in Int
      <4>1. s[k] % ContinueFlag \in 0 .. ContinueFlag - 1
        BY <3>7, Limits, Remainder, Zenon
      <4> QED
        BY <4>1, Limits
    <3>9. d[k] = (s[k] % ContinueFlag) * 2^((k - 1) * OctetBits)
      BY DEF Shifted
    <3> QED
      BY <3>5, <3>8, <3>9
  <2>7. sum = CHOOSE g : g = [k \in 0 .. n |-> IF k = 0 THEN 0 ELSE g[k - 1] + d[k]]
    <3>1. ASSUME NEW g
          PROVE  [k \in 0 .. n |-> IF k = 0 THEN 0 ELSE g[k - 1] + Shifted(s[k] % ContinueFlag, k - 1)]
                   = [k \in 0 .. n |-> IF k = 0 THEN 0 ELSE g[k - 1] + d[k]]
      BY <2>5
    <3> HIDE DEF d
    <3> QED
      BY <3>1
  <2> HIDE DEF d, sum
  <2>8. sum[n] \in Int
    <3>1. \A k \in 0 .. n : sum[k] \in Int
      BY <2>5, <2>6, <2>7, SumType, Zenon
    <3>2. n \in 0 .. n
      BY <2>5
    <3> QED
      BY <3>1, <3>2
  <2>9. sum[n] % 2^LongBits \in 0 .. 2^LongBits - 1
    <3>1. 2^LongBits >= 1
      BY Limits
    <3> QED
      BY <2>8, <3>1, Limits, Remainder, Zenon
  <2>10. SubSeq(s, n + 1, Len(s)) \in Seq(Bytes)
    BY <2>4, RestType
  <2> QED
    BY <1>1, <1>3, <2>9, <2>10, ReadReturns
<1> QED
  BY <1>2, <1>3

LEMMA Uint32UnserializeType ==
    ASSUME NEW s \in Seq(Bytes)
    PROVE  Returns(Uint32Unserialize(s), 0 .. 2^WordBits - 1)
<1> DEFINE r == Uint64Unserialize(s)
<1>1. Returns(r, 0 .. 2^LongBits - 1)
  BY Uint64UnserializeType
<1>2. Uint32Unserialize(s) = IF r.ok /\ r.value >= 2^WordBits THEN Failed ELSE r
  BY DEF Uint32Unserialize
<1> HIDE DEF r
<1>3. CASE r.ok /\ r.value >= 2^WordBits
  BY <1>2, <1>3, FailedReturns
<1>4. CASE ~(r.ok /\ r.value >= 2^WordBits)
  <2>1. Returns(r, 0 .. 2^WordBits - 1)
    BY <1>1, <1>4, Limits DEF Returns
  <2> QED
    BY <1>2, <1>4, <2>1
<1> QED
  BY <1>3, <1>4

LEMMA SignedType ==
    ASSUME NEW m \in Nat, NEW r, Returns(r, 0 .. 2 * m - 1)
    PROVE  Returns(Signed(r), -m .. m - 1)
<1>1. CASE r.ok
  <2>1. r.value \in 0 .. 2 * m - 1 /\ r.rest \in Seq(Bytes)
    BY <1>1 DEF Returns
  <2>2. UnZigZag(r.value) \in -m .. m - 1
    BY <2>1, UnZigZagRange
  <2>3. r = [ok |-> r.ok, value |-> r.value, rest |-> r.rest]
    BY DEF Returns
  <2>4. Signed(r) = [ok |-> r.ok, value |-> UnZigZag(r.value), rest |-> r.rest]
    BY <1>1, <2>3 DEF Signed
  <2> QED
    BY <1>1, <2>1, <2>2, <2>4 DEF Returns
<1>2. CASE ~r.ok
  BY <1>2 DEF Signed, Returns
<1> QED
  BY <1>1, <1>2

LEMMA TakeBytesType ==
    ASSUME NEW s \in Seq(Bytes), NEW n \in Nat
    PROVE  Returns(TakeBytes(s, n), {v \in Seq(Bytes) : Len(v) = n})
<1>1. CASE n > Len(s)
  BY <1>1, FailedReturns DEF TakeBytes
<1>2. CASE ~(n > Len(s))
  <2>1. n \in 0 .. Len(s) /\ Len(s) \in Nat
    BY <1>2
  <2>2. SubSeq(s, n + 1, Len(s)) \in Seq(Bytes)
    BY <2>1, RestType
  <2>3. SubSeq(s, 1, n) \in Seq(Bytes) /\ Len(SubSeq(s, 1, n)) = n
    BY <2>1, SubSeqProperties
  <2>4. TakeBytes(s, n) = Read(SubSeq(s, 1, n), SubSeq(s, n + 1, Len(s)))
    BY <1>2 DEF TakeBytes
  <2>5. SubSeq(s, 1, n) \in {v \in Seq(Bytes) : Len(v) = n}
    BY <2>3
  <2> QED
    BY <2>2, <2>4, <2>5, ReadReturns, Zenon
<1> QED
  BY <1>1, <1>2

LEMMA CharArrayUnserializeType ==
    ASSUME NEW s \in Seq(Bytes)
    PROVE  Returns(CharArrayUnserialize(s), {v \in Seq(Bytes) : Len(v) <= MaxArrayLength})
<1> DEFINE u == Uint32Unserialize(s)
<1>1. Returns(u, 0 .. 2^WordBits - 1)
  BY Uint32UnserializeType
<1>2. CharArrayUnserialize(s) =
        IF ~u.ok \/ u.value > MaxArrayLength THEN Failed ELSE TakeBytes(u.rest, u.value)
  BY DEF CharArrayUnserialize
<1> HIDE DEF u
<1>3. CASE ~u.ok \/ u.value > MaxArrayLength
  BY <1>2, <1>3, FailedReturns
<1>4. CASE ~(~u.ok \/ u.value > MaxArrayLength)
  <2>1. u.rest \in Seq(Bytes) /\ u.value \in 0 .. 2^WordBits - 1
    BY <1>1, <1>4 DEF Returns
  <2>2. u.value \in Nat /\ u.value <= MaxArrayLength
    BY <1>4, <2>1, Limits, Widths
  <2>3. Returns(TakeBytes(u.rest, u.value), {v \in Seq(Bytes) : Len(v) = u.value})
    BY <2>1, <2>2, TakeBytesType
  <2> DEFINE t == TakeBytes(u.rest, u.value)
  <2>4. Returns(t, {v \in Seq(Bytes) : Len(v) <= MaxArrayLength})
    <3> HIDE DEF t
    <3>1. Returns(t, {v \in Seq(Bytes) : Len(v) = u.value})
      BY <2>3 DEF t
    <3> QED
      BY <2>2, <3>1 DEF Returns
  <2> QED
    BY <1>2, <1>4, <2>4
<1> QED
  BY <1>3, <1>4

WideStrings(n) == {v \in Seq(0 .. CharLimit - 1) : Len(v) = n}

\* one iteration of the loop of mrpc_wchar_array_unserialize
LEMMA ReadCharType ==
    ASSUME NEW n \in Nat, NEW r, Returns(r, WideStrings(n))
    PROVE  Returns(ReadChar(r), WideStrings(n + 1))
<1> DEFINE ch == Uint32Unserialize(r.rest)
<1>1. ReadChar(r) = IF ~r.ok \/ ~ch.ok \/ ch.value >= CharLimit THEN Failed
                    ELSE Read(Append(r.value, ch.value), ch.rest)
  BY DEF ReadChar
<1>2. CASE r.ok
  <2>1. r.rest \in Seq(Bytes) /\ r.value \in WideStrings(n)
    BY <1>2 DEF Returns
  <2>2. Returns(ch, 0 .. 2^WordBits - 1)
    BY <2>1, Uint32UnserializeType
  <2> HIDE DEF ch
  <2>3. CASE ~ch.ok \/ ch.value >= CharLimit
    BY <1>1, <2>3, FailedReturns
  <2>4. CASE ~(~ch.ok \/ ch.value >= CharLimit)
    <3>1. ch.rest \in Seq(Bytes) /\ ch.value \in 0 .. 2^WordBits - 1
      BY <2>2, <2>4 DEF Returns
    <3>2. ch.value \in 0 .. CharLimit - 1
      BY <2>4, <3>1, Limits, Widths
    <3>3. r.value \in Seq(0 .. CharLimit - 1) /\ Len(r.value) = n
      BY <2>1 DEF WideStrings
    <3>4. /\ Append(r.value, ch.value) \in Seq(0 .. CharLimit - 1)
          /\ Len(Append(r.value, ch.value)) = n + 1
      BY <3>2, <3>3, AppendProperties
    <3>5. Append(r.value, ch.value) \in WideStrings(n + 1)
      BY <3>4 DEF WideStrings
    <3> QED
      BY <1>1, <1>2, <2>4, <3>1, <3>5, ReadReturns
  <2> QED
    BY <2>3, <2>4
<1>3. CASE ~r.ok
  BY <1>1, <1>3, FailedReturns
<1> QED
  BY <1>2, <1>3

\* The loop itself: after k iterations it has failed or read k characters.
LEMMA WcharLoop ==
    ASSUME NEW N \in Nat, NEW rest \in Seq(Bytes), NEW upto,
           upto = CHOOSE g : g = [k \in 0 .. N |->
                     IF k = 0 THEN Read(<<>>, rest) ELSE ReadChar(g[k - 1])]
    PROVE  \A k \in 0 .. N : Returns(upto[k], WideStrings(k))
<1> DEFINE B == [ok : BOOLEAN, value : Seq(0 .. CharLimit - 1), rest : Seq(Bytes)]
           F == [k \in 0 .. N - 1 |-> [r \in B |-> ReadChar(r)]]
           Body(g) == [k \in 0 .. N |-> IF k = 0 THEN Read(<<>>, rest) ELSE ReadChar(g[k - 1])]
<1>1. ASSUME NEW r \in B PROVE ReadChar(r) \in B
  <2>1. r.ok \in BOOLEAN /\ r.value \in Seq(0 .. CharLimit - 1) /\ r.rest \in Seq(Bytes)
        /\ r = [ok |-> r.ok, value |-> r.value, rest |-> r.rest]
    OBVIOUS
  <2>2. Len(r.value) \in Nat /\ Returns(r, WideStrings(Len(r.value)))
    BY <2>1 DEF Returns, WideStrings
  <2>3. Returns(ReadChar(r), WideStrings(Len(r.value) + 1))
    BY <2>2, ReadCharType
  <2>4. CASE ReadChar(r).ok
    BY <2>3, <2>4 DEF Returns, WideStrings
  <2>5. CASE ~ReadChar(r).ok
    <3>1. ReadChar(r) = Failed
      <4> DEFINE ch == Uint32Unserialize(r.rest)
      <4>1. ReadChar(r) = IF ~r.ok \/ ~ch.ok \/ ch.value >= CharLimit THEN Failed
                          ELSE Read(Append(r.value, ch.value), ch.rest)
        BY DEF ReadChar
      <4> HIDE DEF ch
      <4>2. Read(Append(r.value, ch.value), ch.rest).ok
        BY DEF Read
      <4> QED
        BY <2>5, <4>1, <4>2
    <3> QED
      BY <3>1 DEF Failed
  <2> QED
    BY <2>4, <2>5
<1>2. F \in [0 .. N - 1 -> [B -> B]]
  BY <1>1
<1>3. Read(<<>>, rest) \in B
  BY DEF Read
<1> HIDE DEF B
<1>4. PICK h \in [0 .. N -> B] : Runs(h, N, Read(<<>>, rest), F)
  <2> HIDE DEF F
  <2> QED
    BY <1>2, <1>3, LoopStates, Zenon
<1>5. h = Body(h)
  <2>1. h[0] = Read(<<>>, rest)
    BY <1>4 DEF Runs
  <2>2. ASSUME NEW k \in 1 .. N PROVE h[k] = ReadChar(h[k - 1])
    <3>1. h[k] = F[k - 1][h[k - 1]]
      BY <1>4, Zenon DEF Runs
    <3>2. k - 1 \in 0 .. N - 1 /\ h[k - 1] \in B
      OBVIOUS
    <3> QED
      BY <3>1, <3>2
  <2> QED
    BY <2>1, <2>2
<1>6. upto = Body(upto)
  <2>1. \E g : g = Body(g)
    BY <1>5
  <2>2. upto = CHOOSE g : g = Body(g)
    OBVIOUS
  <2> HIDE DEF Body
  <2> QED
    BY <2>1, <2>2
<1> DEFINE T == {k \in Nat : k \in 0 .. N => Returns(upto[k], WideStrings(k))}
<1>7. 0 \in T
  <2>1. Body(upto)[0] = Read(<<>>, rest)
    OBVIOUS
  <2>2. upto[0] = Read(<<>>, rest)
    BY <1>6, <2>1, Zenon
  <2>3. <<>> \in WideStrings(0)
    BY DEF WideStrings
  <2>4. Returns(upto[0], WideStrings(0))
    BY <2>2, <2>3, ReadReturns
  <2> QED
    BY <2>4
<1>8. ASSUME NEW k \in 0 .. N - 1, k \in T PROVE k + 1 \in T
  <2>1. k + 1 \in 0 .. N /\ k + 1 # 0 /\ (k + 1) - 1 = k /\ k \in 0 .. N /\ k + 1 \in Nat /\ k \in Nat
    OBVIOUS
  <2>2. Body(upto)[k + 1] = ReadChar(upto[(k + 1) - 1])
    BY <2>1
  <2>3. upto[k + 1] = ReadChar(upto[k])
    BY <1>6, <2>1, <2>2, Zenon
  <2>4. Returns(upto[k], WideStrings(k))
    BY <1>8, <2>1
  <2>5. Returns(upto[k + 1], WideStrings(k + 1))
    BY <2>1, <2>3, <2>4, ReadCharType
  <2> QED
    BY <2>1, <2>5
<1>9. 0 .. N \subseteq T
  <2> HIDE DEF T
  <2> QED
    BY <1>7, <1>8, Iterating
<1> QED
  BY <1>9

LEMMA WcharArrayUnserializeType ==
    ASSUME NEW s \in Seq(Bytes)
    PROVE  Returns(WcharArrayUnserialize(s),
                   {v \in Seq(0 .. CharLimit - 1) : Len(v) <= MaxArrayLength})
<1> DEFINE u == Uint32Unserialize(s)
           upto == CHOOSE g : g = [k \in 0 .. MaxArrayLength |->
                      IF k = 0 THEN Read(<<>>, u.rest) ELSE ReadChar(g[k - 1])]
<1>1. Returns(u, 0 .. 2^WordBits - 1)
  BY Uint32UnserializeType
<1>2. WcharArrayUnserialize(s) =
        IF ~u.ok \/ u.value > MaxArrayLength THEN Failed ELSE upto[u.value]
  BY DEF WcharArrayUnserialize
<1> HIDE DEF u
<1>3. CASE ~u.ok \/ u.value > MaxArrayLength
  BY <1>2, <1>3, FailedReturns
<1>4. CASE ~(~u.ok \/ u.value > MaxArrayLength)
  <2>1. u.rest \in Seq(Bytes) /\ u.value \in 0 .. 2^WordBits - 1
    BY <1>1, <1>4 DEF Returns
  <2>2. u.value \in 0 .. MaxArrayLength
    BY <1>4, <2>1, Limits, Widths
  <2>3. \A k \in 0 .. MaxArrayLength : Returns(upto[k], WideStrings(k))
    BY <2>1, Widths, WcharLoop
  <2> HIDE DEF upto
  <2>4. Returns(upto[u.value], WideStrings(u.value))
    BY <2>2, <2>3
  <2>5. Returns(upto[u.value], {v \in Seq(0 .. CharLimit - 1) : Len(v) <= MaxArrayLength})
    BY <2>2, <2>4 DEF Returns, WideStrings
  <2> QED
    BY <1>2, <1>4, <2>5
<1> QED
  BY <1>3, <1>4

\* Whatever the bytes are, a parameter that is read has its type.
LEMMA UnserializeType ==
    ASSUME NEW type \in ParamTypes \ {"blob"}, NEW s \in Seq(Bytes)
    PROVE  /\ Unserialize(type, s).ok \in BOOLEAN
           /\ Unserialize(type, s).ok =>
                /\ HasType(type, Unserialize(type, s).value)
                /\ Unserialize(type, s).rest \in Seq(Bytes)
<1> DEFINE r == Unserialize(type, s)
<1>1. CASE type = "uint32"
  <2>1. r = Uint32Unserialize(s)
    BY <1>1 DEF Unserialize
  <2> HIDE DEF r
  <2>2. Returns(r, 0 .. 2^WordBits - 1)
    BY <2>1, Uint32UnserializeType
  <2> QED
    BY <1>1, <2>2 DEF Returns, HasType, r
<1>2. CASE type = "int32"
  <2>1. r = Signed(Uint32Unserialize(s))
    BY <1>2 DEF Unserialize, Int32Unserialize
  <2> HIDE DEF r
  <2>2. Returns(Uint32Unserialize(s), 0 .. 2 * 2^(WordBits - 1) - 1)
    BY Uint32UnserializeType, Limits
  <2>3. Returns(r, -(2^(WordBits - 1)) .. 2^(WordBits - 1) - 1)
    BY <2>1, <2>2, SignedType, Limits
  <2> QED
    BY <1>2, <2>3 DEF Returns, HasType, r
<1>3. CASE type = "uint64"
  <2>1. r = Uint64Unserialize(s)
    BY <1>3 DEF Unserialize
  <2> HIDE DEF r
  <2>2. Returns(r, 0 .. 2^LongBits - 1)
    BY <2>1, Uint64UnserializeType
  <2> QED
    BY <1>3, <2>2 DEF Returns, HasType, r
<1>4. CASE type = "int64"
  <2>1. r = Signed(Uint64Unserialize(s))
    BY <1>4 DEF Unserialize, Int64Unserialize
  <2> HIDE DEF r
  <2>2. Returns(Uint64Unserialize(s), 0 .. 2 * 2^(LongBits - 1) - 1)
    BY Uint64UnserializeType, Limits
  <2>3. Returns(r, -(2^(LongBits - 1)) .. 2^(LongBits - 1) - 1)
    BY <2>1, <2>2, SignedType, Limits
  <2> QED
    BY <1>4, <2>3 DEF Returns, HasType, r
<1>5. CASE type = "char_array"
  <2>1. r = CharArrayUnserialize(s)
    BY <1>5 DEF Unserialize
  <2> HIDE DEF r
  <2>2. Returns(r, {v \in Seq(Bytes) : Len(v) <= MaxArrayLength})
    BY <2>1, CharArrayUnserializeType
  <2> QED
    BY <1>5, <2>2 DEF Returns, HasType, r
<1>6. CASE type = "wchar_array"
  <2>1. r = WcharArrayUnserialize(s)
    BY <1>6 DEF Unserialize
  <2> HIDE DEF r
  <2>2. Returns(r, {v \in Seq(0 .. CharLimit - 1) : Len(v) <= MaxArrayLength})
    BY <2>1, WcharArrayUnserializeType
  <2> QED
    BY <1>6, <2>2 DEF Returns, HasType, r
<1> QED
  BY <1>1, <1>2, <1>3, <1>4, <1>5, <1>6 DEF ParamTypes

\* The concatenation of sequences of bytes is one.
LEMMA FlattenType ==
    ASSUME NEW q \in Seq(Seq(Bytes))
    PROVE  FlattenSeq(q) \in Seq(Bytes)
<1> DEFINE n == Len(q)
           flatten == CHOOSE g : g = [k \in 1 .. n |->
                         IF k = 1 THEN q[k] ELSE g[k - 1] \o q[k]]
           Body(g) == [k \in 1 .. n |-> IF k = 1 THEN q[k] ELSE g[k - 1] \o q[k]]
<1>1. FlattenSeq(q) = IF n = 0 THEN q ELSE flatten[n]
  BY DEF FlattenSeq
<1>2. n \in Nat /\ \A k \in 1 .. n : q[k] \in Seq(Bytes)
  OBVIOUS
<1>3. CASE n = 0
  <2>1. q = <<>>
    BY <1>3
  <2> QED
    BY <1>1, <1>3, <2>1
<1>4. CASE n # 0
  <2> HIDE DEF n
  <2> DEFINE F == [k \in 0 .. n - 1 |-> [x \in Seq(Bytes) |-> x \o q[k + 1]]]
  <2>1. F \in [0 .. n - 1 -> [Seq(Bytes) -> Seq(Bytes)]]
    BY <1>2
  <2>2. PICK h \in [0 .. n -> Seq(Bytes)] : Runs(h, n, <<>>, F)
    <3> HIDE DEF F
    <3>1. <<>> \in Seq(Bytes)
      OBVIOUS
    <3> QED
      BY <1>2, <2>1, <3>1, LoopStates, Zenon
  <2>3. ASSUME NEW k \in 1 .. n PROVE h[k] = h[k - 1] \o q[k]
    <3>1. h[k] = F[k - 1][h[k - 1]]
      BY <2>2, Zenon DEF Runs
    <3>2. k - 1 \in 0 .. n - 1 /\ k - 1 \in 0 .. n /\ (k - 1) + 1 = k
      BY <1>2
    <3>3. h[k - 1] \in Seq(Bytes)
      BY <3>2
    <3>4. F[k - 1] = [x \in Seq(Bytes) |-> x \o q[(k - 1) + 1]]
      BY <3>2
    <3> QED
      BY <3>1, <3>2, <3>3, <3>4
  <2>4. h[1] = q[1]
    <3>1. 1 \in 1 .. n /\ 1 - 1 = 0
      BY <1>2, <1>4
    <3>2. h[1] = h[0] \o q[1] /\ h[0] = <<>> /\ q[1] \in Seq(Bytes)
      BY <1>2, <2>2, <2>3, <3>1 DEF Runs
    <3> QED
      BY <3>2
  <2> DEFINE f == [k \in 1 .. n |-> h[k]]
  <2>5. f = Body(f)
    <3>1. ASSUME NEW k \in 1 .. n, k # 1 PROVE f[k] = f[k - 1] \o q[k]
      <4>1. k - 1 \in 1 .. n
        BY <1>2, <3>1
      <4> QED
        BY <2>3, <4>1
    <3> QED
      BY <2>4, <3>1
  <2>6. flatten = Body(flatten)
    <3>1. \E g : g = Body(g)
      BY <2>5
    <3>2. flatten = CHOOSE g : g = Body(g)
      OBVIOUS
    <3> HIDE DEF Body, flatten
    <3> QED
      BY <3>1, <3>2, Zenon
  <2> HIDE DEF flatten
  <2> DEFINE T == {k \in Nat : k \in 1 .. n => flatten[k] \in Seq(Bytes)}
  <2>7. 0 \in T
    OBVIOUS
  <2>8. ASSUME NEW k \in 0 .. n - 1, k \in T PROVE k + 1 \in T
    <3>1. k + 1 \in 1 .. n /\ k + 1 \in Nat /\ (k + 1) - 1 = k /\ k \in Nat
      BY <1>2
    <3>2. q[k + 1] \in Seq(Bytes)
      BY <1>2, <3>1
    <3>3. CASE k = 0
      <4>1. Body(flatten)[k + 1] = q[k + 1]
        BY <3>1, <3>3
      <4>2. flatten[k + 1] = q[k + 1]
        BY <2>6, <4>1, Zenon
      <4> QED
        BY <3>1, <3>2, <4>2
    <3>4. CASE k # 0
      <4>1. k \in 1 .. n /\ k + 1 # 1
        BY <1>2, <3>1, <3>4
      <4>2. Body(flatten)[k + 1] = flatten[(k + 1) - 1] \o q[k + 1]
        BY <3>1, <4>1
      <4>3. flatten[k + 1] = flatten[k] \o q[k + 1]
        BY <2>6, <3>1, <4>2, Zenon
      <4>4. flatten[k] \in Seq(Bytes)
        BY <2>8, <4>1
      <4>5. flatten[k + 1] \in Seq(Bytes)
        BY <3>2, <4>3, <4>4
      <4> QED
        BY <3>1, <4>5
    <3> QED
      BY <3>3, <3>4
  <2>9. 0 .. n \subseteq T
    <3> HIDE DEF T
    <3> QED
      BY <1>2, <2>7, <2>8, Iterating
  <2>10. flatten[n] \in Seq(Bytes)
    BY <1>2, <1>4, <2>9
  <2> QED
    BY <1>1, <1>4, <2>10
<1> QED
  BY <1>3, <1>4

LEMMA Uint32SerializeType ==
    ASSUME NEW data \in 0 .. 2^WordBits - 1
    PROVE  Uint32Serialize(data) \in Seq(Bytes)
<1>1. data \in 0 .. 2^LongBits - 1
  BY Limits
<1> QED
  BY <1>1, Uint64SerializeType DEF Uint32Serialize

\* A parameter that has its type is written as bytes.
LEMMA SerializeType ==
    ASSUME NEW type \in ParamTypes, NEW v, HasType(type, v)
    PROVE  Serialize(type, v) \in Seq(Bytes)
<1>1. CASE type = "uint32"
  <2>1. v \in 0 .. 2^WordBits - 1
    BY <1>1 DEF HasType
  <2> QED
    BY <1>1, <2>1, Uint32SerializeType DEF Serialize
<1>2. CASE type = "int32"
  <2>1. v \in -(2^(WordBits - 1)) .. 2^(WordBits - 1) - 1
    BY <1>2 DEF HasType
  <2>2. ZigZag(v) \in 0 .. 2 * 2^(WordBits - 1) - 1
    BY <2>1, ZigZagRange, Limits
  <2>3. ZigZag(v) \in 0 .. 2^WordBits - 1
    BY <2>2, Limits
  <2>4. Serialize(type, v) = Uint32Serialize(ZigZag(v))
    BY <1>2 DEF Serialize, Int32Serialize
  <2> QED
    BY <2>3, <2>4, Uint32SerializeType
<1>3. CASE type = "uint64"
  <2>1. v \in 0 .. 2^LongBits - 1
    BY <1>3 DEF HasType
  <2> QED
    BY <1>3, <2>1, Uint64SerializeType DEF Serialize
<1>4. CASE type = "int64"
  <2>1. v \in -(2^(LongBits - 1)) .. 2^(LongBits - 1) - 1
    BY <1>4 DEF HasType
  <2>2. ZigZag(v) \in 0 .. 2 * 2^(LongBits - 1) - 1
    BY <2>1, ZigZagRange, Limits
  <2>3. ZigZag(v) \in 0 .. 2^LongBits - 1
    BY <2>2, Limits
  <2>4. Serialize(type, v) = Uint64Serialize(ZigZag(v))
    BY <1>4 DEF Serialize, Int64Serialize
  <2> QED
    BY <2>3, <2>4, Uint64SerializeType
<1>5. CASE type = "char_array"
  <2>1. v \in Seq(Bytes) /\ Len(v) <= MaxArrayLength
    BY <1>5 DEF HasType
  <2>2. Len(v) \in 0 .. 2^WordBits - 1
    BY <2>1, Widths, Limits
  <2>3. Uint32Serialize(Len(v)) \in Seq(Bytes)
    BY <2>2, Uint32SerializeType
  <2>4. Serialize(type, v) = Uint32Serialize(Len(v)) \o v
    BY <1>5 DEF Serialize, CharArraySerialize
  <2> QED
    BY <2>1, <2>3, <2>4, ConcatProperties
<1>6. CASE type = "wchar_array"
  <2>1. v \in Seq(0 .. CharLimit - 1) /\ Len(v) <= MaxArrayLength
    BY <1>6 DEF HasType
  <2>2. Len(v) \in 0 .. 2^WordBits - 1
    BY <2>1, Widths, Limits
  <2>3. Uint32Serialize(Len(v)) \in Seq(Bytes)
    BY <2>2, Uint32SerializeType
  <2> DEFINE q == [k \in DOMAIN v |-> Uint32Serialize(v[k])]
  <2>4. ASSUME NEW k \in DOMAIN v PROVE Uint32Serialize(v[k]) \in Seq(Bytes)
    <3>1. v[k] \in 0 .. CharLimit - 1
      BY <2>1, ElementType
    <3>2. v[k] \in 0 .. 2^WordBits - 1
      BY <3>1, Widths, Limits
    <3> QED
      BY <3>2, Uint32SerializeType
  <2>5. q \in Seq(Seq(Bytes))
    <3>1. DOMAIN v = 1 .. Len(v) /\ Len(v) \in Nat
      BY <2>1
    <3>2. q \in [1 .. Len(v) -> Seq(Bytes)]
      BY <2>4, <3>1
    <3> HIDE DEF q
    <3> QED
      BY <3>1, <3>2
  <2>6. FlattenSeq(q) \in Seq(Bytes)
    <3> HIDE DEF q
    <3> QED
      BY <2>5, FlattenType
  <2>7. Serialize(type, v) = Uint32Serialize(Len(v)) \o FlattenSeq(q)
    BY <1>6 DEF Serialize, WcharArraySerialize
  <2> HIDE DEF q
  <2> QED
    BY <2>3, <2>6, <2>7, ConcatProperties
<1>7. CASE type = "blob"
  <2>1. v \in Seq(Bytes) /\ Len(v) < 2^(WordBits - 1)
    BY <1>7 DEF HasType
  <2>2. Len(v) \in 0 .. 2^WordBits - 1
    BY <2>1, Limits
  <2>3. Uint32Serialize(Len(v)) \in Seq(Bytes)
    BY <2>2, Uint32SerializeType
  <2>4. Serialize(type, v) = Uint32Serialize(Len(v)) \o v
    BY <1>7 DEF Serialize
  <2> QED
    BY <2>1, <2>3, <2>4, ConcatProperties
<1> QED
  BY <1>1, <1>2, <1>3, <1>4, <1>5, <1>6, <1>7 DEF ParamTypes

(***************************************************************************)
(* Blobs and their files                                                   *)
(***************************************************************************)

\* FilesMatchBlobs in the form in which the proofs use it
LEMMA MatchForm ==
    FilesMatchBlobs <=>
        /\ \A p : p \in DOMAIN disk <=>
             \/ p \in remaining
             \/ \E b \in DOMAIN blobs : blobs[b].state # "EMPTY" /\ blobs[b].file_path = p
        /\ \A a, b \in DOMAIN blobs : blobs[a].file_path = blobs[b].file_path => a = b
        /\ \A b \in DOMAIN blobs :
             blobs[b].state = "COMPLETE" => Len(disk[blobs[b].file_path]) = blobs[b].len
BY DEF FilesMatchBlobs, Path

LEMMA MatchFormNext ==
    FilesMatchBlobs' <=>
        /\ \A p : p \in DOMAIN disk' <=>
             \/ p \in remaining'
             \/ \E b \in DOMAIN blobs' : blobs'[b].state # "EMPTY" /\ blobs'[b].file_path = p
        /\ \A a, b \in DOMAIN blobs' : blobs'[a].file_path = blobs'[b].file_path => a = b
        /\ \A b \in DOMAIN blobs' :
             blobs'[b].state = "COMPLETE" => Len(disk'[blobs'[b].file_path]) = blobs'[b].len
<1> DEFINE stored == {blobs'[b].file_path : b \in {b \in DOMAIN blobs' : blobs'[b].state # "EMPTY"}}
<1>1. FilesMatchBlobs' <=>
        /\ DOMAIN disk' = stored \union remaining'
        /\ \A a, b \in DOMAIN blobs' : blobs'[a].file_path = blobs'[b].file_path => a = b
        /\ \A b \in DOMAIN blobs' :
             blobs'[b].state = "COMPLETE" => Len(disk'[blobs'[b].file_path]) = blobs'[b].len
  BY Zenon DEF FilesMatchBlobs, Path
<1>2. \A p : p \in stored <=>
         \E b \in DOMAIN blobs' : blobs'[b].state # "EMPTY" /\ blobs'[b].file_path = p
  OBVIOUS
<1> HIDE DEF stored
<1>3. DOMAIN disk' = stored \union remaining' <=>
        \A p : p \in DOMAIN disk' <=> p \in remaining' \/ p \in stored
  OBVIOUS
<1> QED
  BY <1>1, <1>2, <1>3, Zenon

\* References and states may change if an empty blob stays empty and a blob
\* becomes complete with all its bytes only.
LEMMA FilesKept ==
    ASSUME Files, UNCHANGED <<disk, files, remaining>>, DOMAIN blobs' = DOMAIN blobs,
           \A b \in DOMAIN blobs :
              /\ blobs'[b] \in BlobType
              /\ blobs'[b].file_path = blobs[b].file_path /\ blobs'[b].len = blobs[b].len
              /\ blobs'[b].state = "EMPTY" <=> blobs[b].state = "EMPTY"
              /\ \/ blobs'[b].state # "COMPLETE"
                 \/ blobs[b].state = "COMPLETE"
                 \/ Len(disk[blobs[b].file_path]) = blobs[b].len
    PROVE  Files'
<1> USE DEF Files, Path
<1>1. \A b \in DOMAIN blobs' : blobs'[b] \in BlobType' /\ blobs'[b].file_path \notin remaining'
  BY DEF BlobType
<1>2. FilesMatchBlobs'
  <2>1. \A p : p \in DOMAIN disk' <=>
             \/ p \in remaining'
             \/ \E b \in DOMAIN blobs' : blobs'[b].state # "EMPTY" /\ blobs'[b].file_path = p
    BY MatchForm
  <2>2. \A a, b \in DOMAIN blobs' : blobs'[a].file_path = blobs'[b].file_path => a = b
    BY MatchForm
  <2>3. ASSUME NEW b \in DOMAIN blobs', blobs'[b].state = "COMPLETE"
        PROVE  Len(disk'[blobs'[b].file_path]) = blobs'[b].len
    BY <2>3, MatchForm
  <2> QED
    BY <2>1, <2>2, <2>3, MatchFormNext
<1> QED
  BY <1>1, <1>2

\* create_blob
LEMMA FilesCreate ==
    ASSUME Files, NEW b, NEW len \in 0 .. 2^(WordBits - 1) - 1, CreateBlob(b, len)
    PROVE  /\ Files'
           /\ DOMAIN blobs' = DOMAIN blobs \union {b} /\ b \notin DOMAIN blobs
           /\ \A a \in DOMAIN blobs : blobs'[a] = blobs[a]
           /\ blobs'[b].state = "EMPTY" /\ blobs'[b].ref_cnt = 1 /\ blobs'[b].len = len
           /\ UNCHANGED <<streams, disk, remaining>>
<1> DEFINE new == [file_path |-> files + 1, len |-> len, state |-> "EMPTY", ref_cnt |-> 1]
<1>1. /\ b \notin DOMAIN blobs /\ files' = files + 1 /\ UNCHANGED <<streams, disk, remaining>>
      /\ blobs' = With(blobs, b, new)
  BY DEF CreateBlob
<1>2. /\ DOMAIN blobs' = DOMAIN blobs \union {b}
      /\ \A a \in DOMAIN blobs : blobs'[a] = blobs[a]
      /\ blobs'[b] = new
  BY <1>1 DEF With
<1>3. files \in Nat /\ files' \in Nat /\ DOMAIN disk \subseteq 1 .. files
  BY <1>1 DEF Files
<1>4. ASSUME NEW a \in DOMAIN blobs
      PROVE  /\ blobs[a] \in BlobType' /\ blobs[a].file_path \in 1 .. files
             /\ blobs[a].file_path # files + 1 /\ blobs[a].file_path \notin remaining
  BY <1>1, <1>3 DEF Files, BlobType, Path
<1>5. remaining \subseteq DOMAIN disk
  BY MatchForm DEF Files
<1>6. new \in BlobType' /\ files + 1 \notin remaining
  BY <1>1, <1>3, <1>5 DEF BlobType
<1>7. FilesMatchBlobs'
  <2>1. ASSUME NEW p
        PROVE  p \in DOMAIN disk' <=>
             \/ p \in remaining'
             \/ \E a \in DOMAIN blobs' : blobs'[a].state # "EMPTY" /\ blobs'[a].file_path = p
    BY <1>1, <1>2, MatchForm DEF Files
  <2>2. \A a, c \in DOMAIN blobs' : blobs'[a].file_path = blobs'[c].file_path => a = c
    BY <1>2, <1>4, MatchForm DEF Files
  <2>3. ASSUME NEW a \in DOMAIN blobs', blobs'[a].state = "COMPLETE"
        PROVE  Len(disk'[blobs'[a].file_path]) = blobs'[a].len
    BY <1>1, <1>2, <2>3, MatchForm DEF Files
  <2> QED
    BY <2>1, <2>2, <2>3, MatchFormNext
<1>8. /\ \A a \in DOMAIN blobs' : blobs'[a] \in BlobType' /\ blobs'[a].file_path \notin remaining'
  BY <1>1, <1>2, <1>4, <1>6
<1>9. DOMAIN disk' \subseteq 1 .. files' /\ \A p \in DOMAIN disk' : disk'[p] \in Seq(Bytes)
  BY <1>1, <1>3 DEF Files
<1> QED
  BY <1>1, <1>2, <1>3, <1>7, <1>8, <1>9 DEF Files, Path

\* the file of a blob is its own
LEMMA OwnFile ==
    ASSUME Files, NEW b \in DOMAIN blobs
    PROVE  /\ Path(b) \in 1 .. files /\ Path(b) \notin remaining
           /\ blobs[b].state # "EMPTY" => Path(b) \in DOMAIN disk /\ disk[Path(b)] \in Seq(Bytes)
           /\ blobs[b].state = "EMPTY" => Path(b) \notin DOMAIN disk
           /\ \A a \in DOMAIN blobs : a # b => Path(a) # Path(b)
           /\ blobs[b].state = "COMPLETE" => Len(disk[Path(b)]) = blobs[b].len
<1> USE DEF Files, Path
<1>1. Path(b) \in 1 .. files /\ Path(b) \notin remaining
  BY DEF BlobType
<1> QED
  BY <1>1, MatchForm

\* mrpc_blob_open_stream for writing
LEMMA FilesOpen ==
    ASSUME Files, NEW b \in DOMAIN blobs, OpenBlobToWrite(b)
    PROVE  /\ Files'
           /\ blobs' = [blobs EXCEPT ![b].ref_cnt = 2, ![b].state = "INCOMPLETE"]
           /\ DOMAIN blobs' = DOMAIN blobs
           /\ \A a \in DOMAIN blobs : a # b => blobs'[a] = blobs[a]
           /\ blobs'[b].state = "INCOMPLETE" /\ blobs'[b].ref_cnt = 2
           /\ blobs'[b].len = blobs[b].len
           /\ Path(b)' = Path(b) /\ disk'[Path(b)] = <<>>
<1>1. /\ blobs[b].state = "EMPTY"
      /\ blobs' = [blobs EXCEPT ![b].ref_cnt = 2, ![b].state = "INCOMPLETE"]
      /\ disk' = With(disk, Path(b), <<>>)
      /\ UNCHANGED <<files, remaining>>
  BY DEF OpenBlobToWrite
<1>2. /\ DOMAIN disk' = DOMAIN disk \union {Path(b)} /\ disk'[Path(b)] = <<>>
      /\ \A p \in DOMAIN disk : p # Path(b) => disk'[p] = disk[p]
  BY <1>1 DEF With
<1>3. blobs[b] \in BlobType
  BY DEF Files
<1>4. /\ DOMAIN blobs' = DOMAIN blobs
      /\ \A a \in DOMAIN blobs : a # b => blobs'[a] = blobs[a]
      /\ blobs'[b] = [blobs[b] EXCEPT !.ref_cnt = 2, !.state = "INCOMPLETE"]
  BY <1>1
<1>5. /\ blobs'[b] \in BlobType' /\ blobs'[b].file_path = Path(b)
      /\ blobs'[b].state = "INCOMPLETE" /\ blobs'[b].len = blobs[b].len /\ blobs'[b].ref_cnt = 2
  BY <1>1, <1>3, <1>4 DEF BlobType, Path
<1>6. ASSUME NEW a \in DOMAIN blobs
      PROVE  blobs'[a] \in BlobType' /\ blobs'[a].file_path = blobs[a].file_path
             /\ blobs'[a].file_path \notin remaining'
  BY <1>1, <1>4, <1>5 DEF Files, BlobType, Path
<1>7. FilesMatchBlobs'
  <2>1. ASSUME NEW p
        PROVE  p \in DOMAIN disk' <=>
             \/ p \in remaining'
             \/ \E a \in DOMAIN blobs' : blobs'[a].state # "EMPTY" /\ blobs'[a].file_path = p
    <3>1. p \in DOMAIN disk' <=> p \in DOMAIN disk \/ p = Path(b)
      BY <1>2
    <3>2. p \in DOMAIN disk <=>
             \/ p \in remaining
             \/ \E a \in DOMAIN blobs : blobs[a].state # "EMPTY" /\ blobs[a].file_path = p
      BY MatchForm DEF Files
    <3>3. CASE p = Path(b)
      BY <1>4, <1>5, <3>1, <3>3
    <3>4. CASE p # Path(b)
      BY <1>1, <1>4, <1>5, <3>1, <3>2, <3>4 DEF Path
    <3> QED
      BY <3>3, <3>4
  <2>2. \A a, c \in DOMAIN blobs' : blobs'[a].file_path = blobs'[c].file_path => a = c
    BY <1>4, <1>6, MatchForm DEF Files
  <2>3. ASSUME NEW a \in DOMAIN blobs', blobs'[a].state = "COMPLETE"
        PROVE  Len(disk'[blobs'[a].file_path]) = blobs'[a].len
    <3>1. a # b /\ blobs'[a] = blobs[a] /\ a \in DOMAIN blobs
      BY <1>4, <1>5, <2>3
    <3>2. Path(a) # Path(b) /\ Path(a) \in DOMAIN disk /\ Len(disk[Path(a)]) = blobs[a].len
      BY <2>3, <3>1, OwnFile
    <3> QED
      BY <1>2, <3>1, <3>2 DEF Path
  <2> QED
    BY <2>1, <2>2, <2>3, MatchFormNext
<1>8. DOMAIN disk' \subseteq 1 .. files' /\ \A p \in DOMAIN disk' : disk'[p] \in Seq(Bytes)
  <2>1. Path(b) \in 1 .. files
    BY OwnFile
  <2>2. DOMAIN disk' \subseteq 1 .. files'
    BY <1>1, <1>2, <2>1 DEF Files
  <2>3. <<>> \in Seq(Bytes) /\ \A p \in DOMAIN disk : disk[p] \in Seq(Bytes)
    BY DEF Files
  <2>4. \A p \in DOMAIN disk' : disk'[p] \in Seq(Bytes)
    BY <1>2, <2>3, Zenon
  <2> QED
    BY <2>2, <2>4
<1> QED
  BY <1>1, <1>2, <1>4, <1>5, <1>6, <1>7, <1>8 DEF Files, Path

\* write_to_blob_stream
LEMMA FilesWrite ==
    ASSUME Files, NEW b \in DOMAIN blobs, blobs[b].state # "EMPTY",
           NEW data \in Seq(Bytes), data = <<>> \/ blobs[b].state # "COMPLETE",
           disk' = [disk EXCEPT ![Path(b)] = @ \o data],
           UNCHANGED <<blobs, files, remaining>>
    PROVE  Files' /\ disk'[Path(b)] = disk[Path(b)] \o data
           /\ Len(disk'[Path(b)]) = Len(disk[Path(b)]) + Len(data)
<1>1. Path(b) \in DOMAIN disk /\ disk[Path(b)] \in Seq(Bytes)
  BY OwnFile
<1>2. /\ DOMAIN disk' = DOMAIN disk /\ disk'[Path(b)] = disk[Path(b)] \o data
      /\ \A p \in DOMAIN disk : p # Path(b) => disk'[p] = disk[p]
  BY <1>1
<1>3. disk'[Path(b)] \in Seq(Bytes) /\ Len(disk'[Path(b)]) = Len(disk[Path(b)]) + Len(data)
  BY <1>1, <1>2, ConcatProperties
<1>4. \A p \in DOMAIN disk' : disk'[p] \in Seq(Bytes)
  <2>1. \A p \in DOMAIN disk : disk[p] \in Seq(Bytes)
    BY DEF Files
  <2> QED
    BY <1>2, <1>3, <2>1, Zenon
<1>5. FilesMatchBlobs'
  <2>1. ASSUME NEW a \in DOMAIN blobs', blobs'[a].state = "COMPLETE"
        PROVE  Len(disk'[blobs'[a].file_path]) = blobs'[a].len
    <3>1. Len(disk[Path(a)]) = blobs[a].len /\ Path(a) \in DOMAIN disk
      BY <2>1, OwnFile
    <3>2. CASE a = b
      <4>1. data = <<>>
        BY <2>1, <3>2
      <4>2. Len(disk'[Path(b)]) = Len(disk[Path(b)])
        BY <1>1, <1>3, <4>1
      <4> QED
        BY <3>1, <3>2, <4>2 DEF Path
    <3>3. CASE a # b
      <4>1. Path(a) # Path(b)
        BY <3>3, OwnFile
      <4> QED
        BY <1>2, <3>1, <4>1 DEF Path
    <3> QED
      BY <3>2, <3>3
  <2>2. \A p : p \in DOMAIN disk' <=>
             \/ p \in remaining'
             \/ \E a \in DOMAIN blobs' : blobs'[a].state # "EMPTY" /\ blobs'[a].file_path = p
    BY <1>2, MatchForm DEF Files
  <2>3. \A a, c \in DOMAIN blobs' : blobs'[a].file_path = blobs'[c].file_path => a = c
    BY MatchForm DEF Files
  <2> QED
    BY <2>1, <2>2, <2>3, MatchFormNext
<1>6. /\ files' \in Nat
      /\ \A a \in DOMAIN blobs' : blobs'[a] \in BlobType' /\ blobs'[a].file_path \notin remaining'
      /\ DOMAIN disk' \subseteq 1 .. files'
  BY <1>2 DEF Files, BlobType, Path
<1> QED
  BY <1>2, <1>3, <1>4, <1>5, <1>6 DEF Files, Path

\* mrpc_blob_dec_ref that drops the last reference, with delete_blob
LEMMA FilesRemove ==
    ASSUME Files, NEW b \in DOMAIN blobs, NEW n, blobs[b].ref_cnt = n, n \in Nat, DropRefs(b, n)
    PROVE  /\ Files' /\ DOMAIN blobs' = DOMAIN blobs \ {b}
           /\ \A a \in DOMAIN blobs' : blobs'[a] = blobs[a]
<1>1. /\ blobs' = Without(blobs, b) /\ UNCHANGED files
      /\ \/ /\ disk' = IF Erases(b) THEN Without(disk, Path(b)) ELSE disk
            /\ UNCHANGED remaining
         \/ /\ Erases(b)
            /\ remaining' = remaining \union {Path(b)}
            /\ UNCHANGED disk
  <2>1. ~(blobs[b].ref_cnt > n)
    OBVIOUS
  <2> QED
    BY <2>1 DEF DropRefs
<1>2. DOMAIN blobs' = DOMAIN blobs \ {b} /\ \A a \in DOMAIN blobs' : blobs'[a] = blobs[a]
  BY <1>1 DEF Without, Restrict
<1>3. /\ Path(b) \notin remaining
      /\ \A a \in DOMAIN blobs : a # b => blobs[a].file_path # Path(b)
      /\ blobs[b].state # "EMPTY" => Path(b) \in DOMAIN disk
      /\ blobs[b].state = "EMPTY" => Path(b) \notin DOMAIN disk
  BY OwnFile DEF Path
<1>4. /\ \A p : p \in DOMAIN disk <=>
           \/ p \in remaining
           \/ \E a \in DOMAIN blobs : blobs[a].state # "EMPTY" /\ blobs[a].file_path = p
      /\ \A a, c \in DOMAIN blobs : blobs[a].file_path = blobs[c].file_path => a = c
      /\ \A a \in DOMAIN blobs :
           blobs[a].state = "COMPLETE" => Len(disk[blobs[a].file_path]) = blobs[a].len
  BY MatchForm DEF Files
<1>5. /\ files' \in Nat
      /\ \A a \in DOMAIN blobs' : blobs'[a] \in BlobType'
      /\ \A a \in DOMAIN blobs' : blobs'[a].file_path \notin remaining
  BY <1>1, <1>2 DEF Files, BlobType, Path
<1>6. \A a, c \in DOMAIN blobs' : blobs'[a].file_path = blobs'[c].file_path => a = c
  BY <1>2, <1>4
<1>7. CASE ~Erases(b)
  <2>1. blobs[b].state = "EMPTY" /\ UNCHANGED <<disk, remaining>>
    BY <1>1, <1>7 DEF Erases
  <2>2. FilesMatchBlobs'
    <3>1. \A p : p \in DOMAIN disk' <=>
             \/ p \in remaining'
             \/ \E a \in DOMAIN blobs' : blobs'[a].state # "EMPTY" /\ blobs'[a].file_path = p
      BY <1>2, <1>4, <2>1
    <3>2. \A a \in DOMAIN blobs' :
             blobs'[a].state = "COMPLETE" => Len(disk'[blobs'[a].file_path]) = blobs'[a].len
      BY <1>2, <1>4, <2>1
    <3> QED
      BY <1>6, <3>1, <3>2, MatchFormNext
  <2> QED
    BY <1>1, <1>2, <1>5, <2>1, <2>2 DEF Files, Path
<1>8. CASE Erases(b) /\ UNCHANGED remaining /\ disk' = Without(disk, Path(b))
  <2>1. /\ DOMAIN disk' = DOMAIN disk \ {Path(b)}
        /\ \A p \in DOMAIN disk' : disk'[p] = disk[p]
    BY <1>8 DEF Without, Restrict
  <2>2. FilesMatchBlobs'
    <3>1. ASSUME NEW p
          PROVE  p \in DOMAIN disk' <=>
             \/ p \in remaining'
             \/ \E a \in DOMAIN blobs' : blobs'[a].state # "EMPTY" /\ blobs'[a].file_path = p
      <4>1. CASE p = Path(b)
        BY <1>2, <1>3, <1>8, <2>1, <4>1
      <4>2. CASE p # Path(b)
        BY <1>2, <1>4, <1>8, <2>1, <4>2 DEF Path
      <4> QED
        BY <4>1, <4>2
    <3>2. ASSUME NEW a \in DOMAIN blobs', blobs'[a].state = "COMPLETE"
          PROVE  Len(disk'[blobs'[a].file_path]) = blobs'[a].len
      <4>1. a \in DOMAIN blobs /\ a # b /\ blobs'[a] = blobs[a]
        BY <1>2, <3>2
      <4>2. blobs[a].file_path # Path(b) /\ blobs[a].file_path \in DOMAIN disk
        BY <1>3, <1>4, <3>2, <4>1
      <4> QED
        BY <1>4, <2>1, <3>2, <4>1, <4>2
    <3> QED
      BY <1>6, <3>1, <3>2, MatchFormNext
  <2>3. DOMAIN disk' \subseteq 1 .. files' /\ \A p \in DOMAIN disk' : disk'[p] \in Seq(Bytes)
    BY <1>1, <2>1 DEF Files
  <2> QED
    BY <1>1, <1>2, <1>5, <1>8, <2>2, <2>3 DEF Files, Path
<1>9. CASE Erases(b) /\ remaining' = remaining \union {Path(b)} /\ UNCHANGED disk
  <2>1. blobs[b].state # "EMPTY"
    BY <1>9 DEF Erases
  <2>2. FilesMatchBlobs'
    <3>1. ASSUME NEW p
          PROVE  p \in DOMAIN disk' <=>
             \/ p \in remaining'
             \/ \E a \in DOMAIN blobs' : blobs'[a].state # "EMPTY" /\ blobs'[a].file_path = p
      <4>1. CASE p = Path(b)
        BY <1>2, <1>3, <1>9, <2>1, <4>1
      <4>2. CASE p # Path(b)
        BY <1>2, <1>4, <1>9, <4>2 DEF Path
      <4> QED
        BY <4>1, <4>2
    <3>2. \A a \in DOMAIN blobs' :
             blobs'[a].state = "COMPLETE" => Len(disk'[blobs'[a].file_path]) = blobs'[a].len
      BY <1>2, <1>4, <1>9
    <3> QED
      BY <1>6, <3>1, <3>2, MatchFormNext
  <2>3. \A a \in DOMAIN blobs' : blobs'[a].file_path \notin remaining'
    BY <1>2, <1>3, <1>5, <1>9
  <2> QED
    BY <1>1, <1>2, <1>5, <1>9, <2>2, <2>3 DEF Files, Path
<1> QED
  BY <1>1, <1>2, <1>7, <1>8, <1>9

\* mrpc_blob_dec_ref that leaves references
LEMMA FilesDecRef ==
    ASSUME Files, NEW b \in DOMAIN blobs, NEW n \in Nat, blobs[b].ref_cnt > n, DropRefs(b, n)
    PROVE  /\ Files' /\ DOMAIN blobs' = DOMAIN blobs
           /\ UNCHANGED <<disk, files, remaining>>
           /\ \A a \in DOMAIN blobs : a # b => blobs'[a] = blobs[a]
           /\ blobs'[b].state = blobs[b].state /\ blobs'[b].ref_cnt = blobs[b].ref_cnt - n
           /\ blobs'[b].file_path = blobs[b].file_path /\ blobs'[b].len = blobs[b].len
<1>1. blobs[b] \in BlobType /\ blobs[b].ref_cnt \in Nat
  BY DEF Files, BlobType
<1>2. /\ blobs' = [blobs EXCEPT ![b].ref_cnt = blobs[b].ref_cnt - n]
      /\ UNCHANGED <<disk, files, remaining>>
  <2>1. ~(blobs[b].ref_cnt = n)
    BY <1>1
  <2> QED
    BY <2>1 DEF DropRefs
<1>3. /\ DOMAIN blobs' = DOMAIN blobs /\ \A a \in DOMAIN blobs : a # b => blobs'[a] = blobs[a]
      /\ blobs'[b] = [blobs[b] EXCEPT !.ref_cnt = blobs[b].ref_cnt - n]
  BY <1>2
<1>4. blobs[b].ref_cnt - n \in Nat
  BY <1>1
<1>5. /\ blobs'[b] \in BlobType
      /\ blobs'[b].state = blobs[b].state /\ blobs'[b].ref_cnt = blobs[b].ref_cnt - n
      /\ blobs'[b].file_path = blobs[b].file_path /\ blobs'[b].len = blobs[b].len
  BY <1>1, <1>3, <1>4 DEF BlobType
<1>6. Files'
  <2>1. ASSUME NEW a \in DOMAIN blobs
        PROVE /\ blobs'[a] \in BlobType
              /\ blobs'[a].file_path = blobs[a].file_path /\ blobs'[a].len = blobs[a].len
              /\ blobs'[a].state = blobs[a].state
    BY <1>3, <1>5 DEF Files
  <2> QED
    BY <1>2, <1>3, <2>1, FilesKept
<1> QED
  BY <1>2, <1>3, <1>5, <1>6

\* mrpc_blob_move
LEMMA FilesMove ==
    ASSUME Files, NEW b \in DOMAIN blobs, MoveBlob(b)
    PROVE  /\ Files' /\ DOMAIN blobs' = DOMAIN blobs
           /\ \A a \in DOMAIN blobs : blobs'[a].ref_cnt = blobs[a].ref_cnt
                                      /\ blobs'[a].state = blobs[a].state
<1>1. /\ blobs[b].state = "COMPLETE" /\ files' = files + 1
      /\ disk' = With(Without(disk, Path(b)), files + 1, disk[Path(b)])
      /\ blobs' = [blobs EXCEPT ![b].file_path = files + 1]
      /\ UNCHANGED remaining
  BY DEF MoveBlob
<1>2. files \in Nat /\ files + 1 \in Nat
  BY DEF Files
<1>3. /\ Path(b) \in DOMAIN disk /\ disk[Path(b)] \in Seq(Bytes) /\ Path(b) \notin remaining
      /\ Len(disk[Path(b)]) = blobs[b].len
      /\ \A a \in DOMAIN blobs : a # b => blobs[a].file_path # Path(b)
  BY <1>1, OwnFile DEF Path
<1>4. /\ DOMAIN disk' = (DOMAIN disk \ {Path(b)}) \union {files + 1}
      /\ disk'[files + 1] = disk[Path(b)]
      /\ \A p \in DOMAIN disk : p # Path(b) /\ p # files + 1 => disk'[p] = disk[p]
  BY <1>1 DEF With, Without, Restrict
<1>5. blobs[b] \in BlobType
  BY DEF Files
<1>6. /\ DOMAIN blobs' = DOMAIN blobs /\ \A a \in DOMAIN blobs : a # b => blobs'[a] = blobs[a]
      /\ blobs'[b] = [blobs[b] EXCEPT !.file_path = files + 1]
  BY <1>1
<1>7. /\ blobs'[b] \in BlobType' /\ blobs'[b].file_path = files + 1
      /\ blobs'[b].state = blobs[b].state /\ blobs'[b].ref_cnt = blobs[b].ref_cnt
      /\ blobs'[b].len = blobs[b].len
  BY <1>1, <1>2, <1>5, <1>6 DEF BlobType
<1>8. DOMAIN disk \subseteq 1 .. files /\ remaining \subseteq DOMAIN disk /\ files + 1 \notin 1 .. files
  BY <1>2, MatchForm DEF Files
<1>9. ASSUME NEW a \in DOMAIN blobs, a # b
      PROVE  /\ blobs'[a] = blobs[a] /\ blobs[a] \in BlobType' /\ blobs[a].file_path \notin remaining
             /\ blobs[a].file_path # files + 1
  <2>1. blobs[a] \in BlobType /\ blobs[a].file_path \notin remaining
    BY DEF Files, Path
  <2>2. blobs[a].file_path \in 1 .. files
    BY <2>1 DEF BlobType
  <2> QED
    BY <1>1, <1>2, <1>6, <1>8, <1>9, <2>1, <2>2 DEF BlobType
<1>10. FilesMatchBlobs'
  <2>1. ASSUME NEW p
        PROVE  p \in DOMAIN disk' <=>
             \/ p \in remaining'
             \/ \E a \in DOMAIN blobs' : blobs'[a].state # "EMPTY" /\ blobs'[a].file_path = p
    <3>1. p \in DOMAIN disk <=>
             \/ p \in remaining
             \/ \E a \in DOMAIN blobs : blobs[a].state # "EMPTY" /\ blobs[a].file_path = p
      BY MatchForm DEF Files
    <3>2. CASE p = files + 1
      BY <1>1, <1>4, <1>6, <1>7, <3>2
    <3>3. CASE p = Path(b) /\ p # files + 1
      BY <1>1, <1>3, <1>4, <1>6, <1>7, <3>3
    <3>4. CASE p # Path(b) /\ p # files + 1
      BY <1>1, <1>4, <1>6, <1>7, <3>1, <3>4 DEF Path
    <3> QED
      BY <3>2, <3>3, <3>4
  <2>2. \A a, c \in DOMAIN blobs' : blobs'[a].file_path = blobs'[c].file_path => a = c
    <3>1. \A a, c \in DOMAIN blobs : blobs[a].file_path = blobs[c].file_path => a = c
      BY MatchForm DEF Files
    <3>2. /\ blobs'[b].file_path = files + 1 /\ DOMAIN blobs' = DOMAIN blobs
          /\ \A a \in DOMAIN blobs : a # b =>
               blobs'[a].file_path = blobs[a].file_path /\ blobs[a].file_path # files + 1
      BY <1>6, <1>7, <1>9, Zenon
    <3> QED
      BY <3>1, <3>2, Zenon
  <2>3. ASSUME NEW a \in DOMAIN blobs', blobs'[a].state = "COMPLETE"
        PROVE  Len(disk'[blobs'[a].file_path]) = blobs'[a].len
    <3>1. CASE a = b
      BY <1>3, <1>4, <1>7, <3>1
    <3>2. CASE a # b
      <4>1. a \in DOMAIN blobs /\ blobs'[a] = blobs[a] /\ blobs[a].file_path # files + 1
        BY <1>6, <1>9, <3>2
      <4>2. /\ blobs[a].file_path \in DOMAIN disk /\ blobs[a].file_path # Path(b)
            /\ Len(disk[blobs[a].file_path]) = blobs[a].len
        BY <1>3, <2>3, <3>2, <4>1, OwnFile DEF Path
      <4> QED
        BY <1>4, <4>1, <4>2
    <3> QED
      BY <3>1, <3>2
  <2> QED
    BY <2>1, <2>2, <2>3, MatchFormNext
<1>11. DOMAIN disk' \subseteq 1 .. files'
  BY <1>1, <1>2, <1>4, <1>8
<1>12. ASSUME NEW p \in DOMAIN disk' PROVE disk'[p] \in Seq(Bytes)
  <2>1. \A q \in DOMAIN disk : disk[q] \in Seq(Bytes)
    BY DEF Files
  <2> QED
    BY <1>3, <1>4, <2>1
<1>13. \A a \in DOMAIN blobs' : blobs'[a] \in BlobType' /\ blobs'[a].file_path \notin remaining'
  BY <1>1, <1>6, <1>7, <1>8, <1>9
<1> QED
  BY <1>1, <1>2, <1>6, <1>7, <1>10, <1>11, <1>12, <1>13 DEF Files, Path

(***************************************************************************)
(* Variables and the objects they point to                                 *)
(***************************************************************************)

LEMMA MethodTypes ==
    ASSUME NEW m \in 0 .. Len(Methods) - 1
    PROVE  Methods[m + 1].request \in Seq(ParamTypes) /\ Methods[m + 1].response \in Seq(ParamTypes)
<1>1. Methods \in Seq([request : Seq(ParamTypes), response : Seq(ParamTypes)])
  BY RpcCallAssumption
<1>2. m + 1 \in DOMAIN Methods
  BY <1>1
<1>3. Methods[m + 1] \in [request : Seq(ParamTypes), response : Seq(ParamTypes)]
  BY <1>1, <1>2, ElementType, Zenon
<1> QED
  BY <1>3

LEMMA TypesOfType ==
    ASSUME Types, NEW f \in Frames
    PROVE  /\ TypesOf(f) \in Seq(ParamTypes) /\ Len(TypesOf(f)) \in Nat
           /\ DOMAIN TypesOf(f) = 1 .. Len(TypesOf(f))
           /\ \A n \in DOMAIN TypesOf(f) : TypesOf(f)[n] \in ParamTypes
<1>1. /\ Methods[method_id + 1].request \in Seq(ParamTypes)
      /\ Methods[method_id + 1].response \in Seq(ParamTypes)
      /\ Methods[served_id + 1].request \in Seq(ParamTypes)
      /\ Methods[served_id + 1].response \in Seq(ParamTypes)
  BY MethodTypes DEF Types
<1>2. TypesOf(f) \in Seq(ParamTypes)
  BY <1>1 DEF TypesOf, Frames
<1> QED
  BY <1>2, ElementType

LEMMA CountFrames ==
    ASSUME NEW x \in Owners, NEW B \in [Frames -> BOOLEAN]
    PROVE  Cardinality({f \in Frames : Owner(f) = x /\ B[f]}) =
             (IF B[x] THEN 1 ELSE 0) + (IF x = "received" /\ B["returned"] THEN 1 ELSE 0)
<1> DEFINE P == {f \in Frames : Owner(f) = x /\ B[f]}
<1>1. x \in Frames /\ "returned" \in Frames /\ x # "returned"
  BY DEF Owners, Frames
<1>2. Cardinality({}) = 0 /\ Cardinality({x}) = 1 /\ Cardinality({"returned"}) = 1
  BY FS_EmptySet, FS_Singleton
<1>3. Cardinality({x, "returned"}) = 2
  <2>1. IsFiniteSet({x}) /\ "returned" \notin {x} /\ {x, "returned"} = {x} \union {"returned"}
    BY <1>1, FS_Singleton
  <2>2. Cardinality({x} \union {"returned"}) = Cardinality({x}) + 1
    BY <2>1, FS_AddElement
  <2> QED
    BY <1>2, <2>1, <2>2
<1>4. \A f \in Frames : Owner(f) = x <=> f = x \/ (f = "returned" /\ x = "received")
  BY DEF Owner, Frames, Owners
<1>5. CASE B[x] /\ x = "received" /\ B["returned"]
  <2>1. P = {x, "returned"}
    BY <1>1, <1>4, <1>5
  <2> QED
    BY <1>3, <1>5, <2>1
<1>6. CASE B[x] /\ ~(x = "received" /\ B["returned"])
  <2>1. P = {x}
    BY <1>1, <1>4, <1>6
  <2> QED
    BY <1>2, <1>6, <2>1
<1>7. CASE ~B[x] /\ x = "received" /\ B["returned"]
  <2>1. x # "returned" /\ "returned" \in P /\ \A f \in P : f = "returned"
    BY <1>1, <1>4, <1>7
  <2>2. P = {"returned"}
    BY <2>1
  <2> QED
    BY <1>2, <1>7, <2>2
<1>8. CASE ~B[x] /\ ~(x = "received" /\ B["returned"])
  <2>1. P = {}
    BY <1>1, <1>4, <1>8
  <2> QED
    BY <1>2, <1>8, <2>1
<1> QED
  BY <1>5, <1>6, <1>7, <1>8

LEMMA PointersCounted ==
    ASSUME NEW o, o[1] \in Owners
    PROVE  Cardinality(Pointers(o)) = Count(o)
<1>1. o[1] \in Frames /\ "returned" \in Frames
  BY DEF Owners, Frames
<1> DEFINE B == [f \in Frames |-> IsSet(f, o[2])]
<1>2. B \in [Frames -> BOOLEAN]
  BY DEF IsSet
<1>3. Pointers(o) = {f \in Frames : Owner(f) = o[1] /\ B[f]}
  BY DEF Pointers
<1>4. B[o[1]] = IsSet(o[1], o[2]) /\ B["returned"] = IsSet("returned", o[2])
  BY <1>1
<1> HIDE DEF B
<1>5. Cardinality({f \in Frames : Owner(f) = o[1] /\ B[f]}) =
         (IF B[o[1]] THEN 1 ELSE 0) + (IF o[1] = "received" /\ B["returned"] THEN 1 ELSE 0)
  BY <1>2, CountFrames
<1> QED
  BY <1>3, <1>4, <1>5 DEF Count

LEMMA CountNat ==
    ASSUME NEW o
    PROVE  Count(o) \in 0 .. 2 /\ Count(o)' \in 0 .. 2
BY DEF Count

LEMMA RefsForm ==
    ASSUME \A o \in DOMAIN arrays \union DOMAIN blobs : o[1] \in Owners
    PROVE  RefsExact <=> RefsOK
<1>1. \A o \in DOMAIN arrays \union DOMAIN blobs : Cardinality(Pointers(o)) = Count(o)
  BY PointersCounted
<1>2. (\A f \in Frames : \A n \in DOMAIN slots[f] :
         IsSet(f, n) => <<Owner(f), n>> \in DOMAIN arrays \union DOMAIN blobs)
      <=> (\A f \in Frames : \A n :
         IsSet(f, n) => <<Owner(f), n>> \in DOMAIN arrays \union DOMAIN blobs)
  BY Zenon DEF IsSet
<1>3. (\A a \in DOMAIN arrays :
         arrays[a].ref_cnt = Cardinality(Pointers(a)) /\ arrays[a].ref_cnt > 0)
      <=> (\A a \in DOMAIN arrays : arrays[a].ref_cnt = Count(a) /\ Count(a) > 0)
  BY <1>1
<1>4. ASSUME NEW b \in DOMAIN blobs
      PROVE  References(b) = Count(b) + Cardinality(OpenStreams(b)) + (IF Filling(b) THEN 1 ELSE 0)
  BY <1>1 DEF References
<1> QED
  BY <1>2, <1>3, <1>4, Zenon DEF RefsExact, RefsOK

(***************************************************************************)
(* A step that leaves the pointers alone leaves the objects alone.         *)
(***************************************************************************)
SameSlots == UNCHANGED <<slots, method_id, served_id>>

LEMMA SlotsSame ==
    ASSUME SameSlots
    PROVE  /\ \A f : TypesOf(f)' = TypesOf(f)
           /\ \A f, n : IsSet(f, n)' = IsSet(f, n)
           /\ \A o : /\ Count(o)' = Count(o) /\ ObjType(o)' = ObjType(o)
                     /\ IsName(o)' = IsName(o)
<1>1. \A f : TypesOf(f)' = TypesOf(f)
  BY DEF SameSlots, TypesOf
<1>2. \A f, n : IsSet(f, n)' = IsSet(f, n)
  BY <1>1 DEF SameSlots, IsSet
<1>3. \A o : Count(o)' = Count(o)
  BY <1>2 DEF Count
<1>4. \A o : ObjType(o)' = ObjType(o) /\ IsName(o)' = IsName(o)
  BY <1>1 DEF ObjType, IsName
<1> QED
  BY <1>1, <1>2, <1>3, <1>4

Core == Objects /\ Files /\ RefsOK

LEMMA CoreQuiet ==
    ASSUME Core, UNCHANGED <<blobs, streams, disk, files, remaining, arrays>>,
           step = "param", step' = "param",
           \A f \in Frames : \A n : IsSet(f, n)' = IsSet(f, n),
           \A o \in DOMAIN arrays \union DOMAIN blobs : IsName(o)' /\ ObjType(o)' = ObjType(o)
    PROVE  Core'
<1>1. Files'
  BY DEF Core, Files, BlobType, Path, FilesMatchBlobs
<1>2. \A b : ~Filling(b) /\ ~Filling(b)'
  BY DEF Filling
<1>3. Objects'
  BY <1>2 DEF Core, Objects
<1>4. ASSUME NEW o \in DOMAIN arrays \union DOMAIN blobs
      PROVE  Count(o)' = Count(o) /\ OpenStreams(o)' = OpenStreams(o)
  <2>1. o[1] \in Frames /\ "returned" \in Frames
    BY DEF Core, Objects, IsName, Owners, Frames
  <2>2. IsSet(o[1], o[2])' = IsSet(o[1], o[2]) /\ IsSet("returned", o[2])' = IsSet("returned", o[2])
    BY <2>1
  <2> QED
    BY <2>2 DEF Count, OpenStreams
<1>5. RefsOK'
  <2>1. ASSUME NEW b \in DOMAIN blobs'
        PROVE  /\ blobs'[b].ref_cnt = Count(b)' + Cardinality(OpenStreams(b)')
                                          + (IF Filling(b)' THEN 1 ELSE 0)
               /\ blobs'[b].ref_cnt > 0
    <3>1. Count(b)' = Count(b) /\ OpenStreams(b)' = OpenStreams(b)
      BY <1>4
    <3> QED
      BY <1>2, <3>1 DEF Core, RefsOK
  <2>2. ASSUME NEW a \in DOMAIN arrays'
        PROVE  arrays'[a].ref_cnt = Count(a)' /\ Count(a)' > 0
    <3>1. Count(a)' = Count(a)
      BY <1>4
    <3> QED
      BY <3>1 DEF Core, RefsOK
  <2>3. \A f \in Frames : \A n :
         IsSet(f, n)' => <<Owner(f), n>> \in DOMAIN arrays' \union DOMAIN blobs'
    BY DEF Core, RefsOK
  <2> QED
    BY <2>1, <2>2, <2>3 DEF RefsOK
<1> QED
  BY <1>1, <1>3, <1>5 DEF Core

\* the blob that is being filled
LEMMA FillFacts ==
    ASSUME CallInv, phase \in Filled, i \in DOMAIN TypesOf(Reading)
    PROVE  /\ Reading \in Owners /\ Reading \in Frames /\ Full(Reading)
           /\ Name[1] = Reading /\ Name[2] = i /\ IsName(Name) /\ ObjType(Name) = Type
           /\ ~IsSet(Reading, i) /\ Count(Name) = 0
           /\ i \in DOMAIN slots[Reading] /\ Owner(Reading) = Reading
<1>1. Reading \in Owners /\ Reading \in Frames /\ Owner(Reading) = Reading
  BY DEF Filled, Reading, Owners, Frames, Owner
<1>2. Full(Reading)
  BY DEF CallInv, Variables, Filled, Reading
<1>3. i \in DOMAIN slots[Reading]
  BY <1>2 DEF Full
<1>4. Name[1] = Reading /\ Name[2] = i /\ Name = <<Name[1], Name[2]>>
  BY DEF Name
<1>5. IsName(Name) /\ ObjType(Name) = Type
  BY <1>1, <1>4 DEF IsName, ObjType, Type
<1>6. ~IsSet(Reading, i)
  <2>1. i >= i
    BY DEF CallInv, Types
  <2> QED
    BY <1>3, <2>1 DEF CallInv, Pointing
<1>7. Reading = "received" => ~IsSet("returned", i)
  BY DEF CallInv, Variables, Filled, Reading, Empty, IsSet
<1>8. Count(Name) = 0
  BY <1>4, <1>6, <1>7 DEF Count
<1> QED
  BY <1>1, <1>2, <1>3, <1>4, <1>5, <1>6, <1>8

\* create_blob for the parameter that is next
LEMMA CoreCreate ==
    ASSUME CallInv, step = "param", step' = "open", phase \in Filled,
           i \in DOMAIN TypesOf(Reading), Type = "blob",
           NEW len \in 0 .. 2^(WordBits - 1) - 1, CreateBlob(Name, len),
           SameSlots, UNCHANGED <<phase, i, arrays>>
    PROVE  /\ Core' /\ Name' = Name /\ Reading' = Reading /\ Name \in DOMAIN blobs'
           /\ blobs'[Name].state = "EMPTY" /\ blobs'[Name].len = len /\ streams' = {}
<1>1. Reading' = Reading /\ Name' = Name
  BY DEF Reading, Name
<1>2. /\ Files' /\ DOMAIN blobs' = DOMAIN blobs \union {Name} /\ Name \notin DOMAIN blobs
      /\ \A a \in DOMAIN blobs : blobs'[a] = blobs[a]
      /\ blobs'[Name].state = "EMPTY" /\ blobs'[Name].ref_cnt = 1 /\ blobs'[Name].len = len
      /\ UNCHANGED streams
  BY FilesCreate DEF CallInv
<1>3. IsName(Name) /\ ObjType(Name) = "blob" /\ Count(Name) = 0
  BY FillFacts
<1>4. streams = {} /\ streams' = {}
  BY <1>2 DEF CallInv, BlobStreams, Filled
<1>5. /\ \A b : ~Filling(b)
      /\ \A b : Filling(b)' <=> b = Name
  BY <1>1 DEF Filling
<1>6. Objects'
  BY <1>2, <1>3, <1>5, SlotsSame DEF CallInv, Objects
<1>7. \A b : OpenStreams(b) = {} /\ OpenStreams(b)' = {}
  BY <1>4 DEF OpenStreams
<1>8. Cardinality({}) = 0
  BY FS_EmptySet
<1>9. RefsOK'
  <2>1. ASSUME NEW b \in DOMAIN blobs'
        PROVE  /\ blobs'[b].ref_cnt = Count(b)' + Cardinality(OpenStreams(b)')
                                        + (IF Filling(b)' THEN 1 ELSE 0)
               /\ blobs'[b].ref_cnt > 0
    <3>1. CASE b = Name
      BY <1>2, <1>3, <1>5, <1>7, <1>8, <3>1, SlotsSame
    <3>2. CASE b # Name
      BY <1>2, <1>5, <1>7, <1>8, <3>2, SlotsSame DEF CallInv, RefsOK
    <3> QED
      BY <3>1, <3>2
  <2>2. \A a \in DOMAIN arrays' : arrays'[a].ref_cnt = Count(a)' /\ Count(a)' > 0
    BY SlotsSame DEF CallInv, RefsOK
  <2>3. \A f \in Frames : \A n :
         IsSet(f, n)' => <<Owner(f), n>> \in DOMAIN arrays' \union DOMAIN blobs'
    BY <1>2, SlotsSame DEF CallInv, RefsOK
  <2> QED
    BY <2>1, <2>2, <2>3 DEF RefsOK
<1> QED
  BY <1>1, <1>2, <1>4, <1>6, <1>9 DEF Core

\* the stream through which it is filled
Writer == [blob |-> Name, who |-> "writer", mode |-> "WRITE",
           curr_pos |-> Len(disk[Path(Name)])]

LEMMA WriterFacts ==
    ASSUME CallInv, step \in {"copy", "flush", "close"}
    PROVE  /\ streams = {Writer} /\ NewStream = Writer
           /\ Writer.blob = Name /\ Writer.curr_pos = Len(disk[Path(Name)])
           /\ \A b : OpenStreams(b) = IF b = Name THEN {Writer} ELSE {}
<1>1. streams = {Writer}
  BY DEF CallInv, BlobStreams, Writer
<1>2. Writer.blob = Name /\ Writer.curr_pos = Len(disk[Path(Name)])
  BY DEF Writer
<1> HIDE DEF Writer
<1>3. NewStream = Writer
  BY <1>1, <1>2 DEF NewStream
<1>4. \A b : OpenStreams(b) = IF b = Name THEN {Writer} ELSE {}
  BY <1>1, <1>2 DEF OpenStreams
<1> QED
  BY <1>1, <1>2, <1>3, <1>4

LEMMA FillingFacts ==
    ASSUME CallInv, step # "param"
    PROVE  /\ phase \in Filled /\ i \in DOMAIN TypesOf(Reading) /\ Type = "blob"
           /\ Name \in DOMAIN blobs /\ IsName(Name) /\ ObjType(Name) = "blob"
           /\ Count(Name) = 0 /\ \A b : Filling(b) <=> b = Name
           /\ step = "open" => blobs[Name].ref_cnt = 1 /\ blobs[Name].state = "EMPTY"
                               /\ streams = {} /\ \A b : OpenStreams(b) = {}
           /\ step # "open" => blobs[Name].ref_cnt = 2 /\ blobs[Name].state # "EMPTY"
           /\ blobs[Name].len \in 0 .. 2^(WordBits - 1) - 1
<1>1. /\ phase \in Filled /\ i \in DOMAIN TypesOf(Reading) /\ Type = "blob"
      /\ Name \in DOMAIN blobs
      /\ step = "open" => blobs[Name].state = "EMPTY"
      /\ step # "open" => blobs[Name].state # "EMPTY" /\ step \in {"copy", "flush", "close"}
  BY DEF CallInv, NewBlob, Types
<1>2. IsName(Name) /\ ObjType(Name) = "blob" /\ Count(Name) = 0
  BY <1>1, FillFacts
<1>3. \A b : Filling(b) <=> b = Name
  BY DEF Filling
<1>4. blobs[Name].ref_cnt = 0 + Cardinality(OpenStreams(Name)) + 1
  BY <1>1, <1>2, <1>3 DEF CallInv, RefsOK
<1>5. CASE step = "open"
  <2>1. streams = {}
    BY <1>1, <1>5 DEF CallInv, BlobStreams, Filled
  <2>2. \A b : OpenStreams(b) = {}
    BY <2>1 DEF OpenStreams
  <2>3. Cardinality(OpenStreams(Name)) = 0
    BY <2>2, FS_EmptySet
  <2> QED
    BY <1>1, <1>2, <1>3, <1>4, <1>5, <2>1, <2>2, <2>3 DEF CallInv, Files, BlobType
<1>6. CASE step # "open"
  <2>1. OpenStreams(Name) = {Writer}
    BY <1>1, <1>6, WriterFacts
  <2>2. Cardinality(OpenStreams(Name)) = 1
    BY <2>1, FS_Singleton
  <2> QED
    BY <1>1, <1>2, <1>3, <1>4, <1>6, <2>2 DEF CallInv, Files, BlobType
<1> QED
  BY <1>5, <1>6

\* A step in the life of the new blob in which no other blob takes part.
LEMMA CoreFill ==
    ASSUME CallInv, step # "param", step' # "param", SameSlots, UNCHANGED <<phase, i, arrays>>,
           Files', DOMAIN blobs' = DOMAIN blobs,
           \A b \in DOMAIN blobs : b # Name => blobs'[b] = blobs[b],
           blobs'[Name].ref_cnt = 2, NEW w, streams' = {w}, w.blob = Name
    PROVE  Core' /\ Name' = Name /\ Reading' = Reading
<1>1. Reading' = Reading /\ Name' = Name
  BY DEF Reading, Name
<1>2. \A b : Filling(b)' <=> b = Name
  BY <1>1 DEF Filling
<1>3. /\ Name \in DOMAIN blobs /\ IsName(Name) /\ ObjType(Name) = "blob"
      /\ Count(Name) = 0 /\ \A b : Filling(b) <=> b = Name
  BY FillingFacts
<1>4. Objects'
  BY <1>2, <1>3, SlotsSame DEF CallInv, Objects
<1>5. \A b : OpenStreams(b)' = IF b = Name THEN {w} ELSE {}
  BY DEF OpenStreams
<1>6. Cardinality({}) = 0 /\ Cardinality({w}) = 1
  BY FS_EmptySet, FS_Singleton
<1>7. \A b : b # Name => Cardinality(OpenStreams(b)) = 0
  <2>1. CASE step = "open"
    BY <1>6, <2>1, FillingFacts
  <2>2. CASE step # "open"
    BY <1>6, <2>2, WriterFacts DEF CallInv, Types
  <2> QED
    BY <2>1, <2>2
<1>8. ASSUME NEW b \in DOMAIN blobs'
      PROVE  /\ blobs'[b].ref_cnt = Count(b)' + Cardinality(OpenStreams(b)')
                                        + (IF Filling(b)' THEN 1 ELSE 0)
             /\ blobs'[b].ref_cnt > 0
  <2>1. CASE b = Name
    BY <1>2, <1>3, <1>5, <1>6, <2>1, SlotsSame
  <2>2. CASE b # Name
    <3>1. /\ blobs[b].ref_cnt = Count(b) + Cardinality(OpenStreams(b)) + 0
          /\ blobs[b].ref_cnt > 0
      BY <1>3, <2>2 DEF CallInv, RefsOK
    <3> QED
      BY <1>2, <1>5, <1>6, <1>7, <2>2, <3>1, SlotsSame
  <2> QED
    BY <2>1, <2>2
<1>9. \A a \in DOMAIN arrays' : arrays'[a].ref_cnt = Count(a)' /\ Count(a)' > 0
  BY SlotsSame DEF CallInv, RefsOK
<1>10. \A f \in Frames : \A n :
         IsSet(f, n)' => <<Owner(f), n>> \in DOMAIN arrays' \union DOMAIN blobs'
  BY SlotsSame DEF CallInv, RefsOK
<1>11. RefsOK'
  BY <1>8, <1>9, <1>10 DEF RefsOK
<1> QED
  BY <1>1, <1>4, <1>11 DEF Core

\* mrpc_blob_open_stream
LEMMA CoreOpen ==
    ASSUME CallInv, step = "open", step' = "copy", OpenBlobToWrite(Name),
           SameSlots, UNCHANGED <<phase, i, arrays>>
    PROVE  /\ Core' /\ Name' = Name /\ Reading' = Reading /\ DOMAIN blobs' = DOMAIN blobs
           /\ blobs'[Name].state = "INCOMPLETE" /\ blobs'[Name].len = blobs[Name].len
           /\ disk'[Path(Name)'] = <<>> /\ streams' = {Writer'}
<1>1. Name \in DOMAIN blobs /\ streams = {}
  BY FillingFacts
<1>2. /\ Files' /\ DOMAIN blobs' = DOMAIN blobs
      /\ \A a \in DOMAIN blobs : a # Name => blobs'[a] = blobs[a]
      /\ blobs'[Name].state = "INCOMPLETE" /\ blobs'[Name].ref_cnt = 2
      /\ blobs'[Name].len = blobs[Name].len
      /\ Path(Name)' = Path(Name) /\ disk'[Path(Name)] = <<>>
  <2>1. Files
    BY DEF CallInv
  <2> DEFINE b == Name
  <2>2. b \in DOMAIN blobs /\ OpenBlobToWrite(b)
    BY <1>1
  <2>3. Name' = Name
    BY DEF Name, Reading
  <2> QED
    BY <2>1, <2>2, <2>3, FilesOpen DEF Path
<1>3. Name' = Name
  BY DEF Name, Reading
<1>4. streams' = {[blob |-> Name, who |-> "writer", mode |-> "WRITE", curr_pos |-> 0]}
  BY <1>1 DEF OpenBlobToWrite
<1>5. Len(disk'[Path(Name)']) = 0
  BY <1>2
<1>6. streams' = {Writer'}
  BY <1>2, <1>3, <1>4, <1>5 DEF Writer
<1>7. Core' /\ Reading' = Reading
  BY <1>2, <1>4, CoreFill
<1> QED
  BY <1>2, <1>3, <1>6, <1>7

\* write_to_blob_stream
LEMMA CoreWrite ==
    ASSUME CallInv, step = "copy", step' # "param", NEW data \in Seq(Bytes),
           data = <<>> \/ blobs[Name].state # "COMPLETE", WriteBlobStream(NewStream, data),
           SameSlots, UNCHANGED <<phase, i, arrays>>
    PROVE  /\ Core' /\ Name' = Name /\ Reading' = Reading /\ UNCHANGED blobs
           /\ disk'[Path(Name)'] = disk[Path(Name)] \o data
           /\ Len(disk'[Path(Name)']) = Len(disk[Path(Name)]) + Len(data)
           /\ streams' = {Writer'}
<1>1. /\ streams = {Writer} /\ NewStream = Writer
      /\ Writer.blob = Name /\ Writer.curr_pos = Len(disk[Path(Name)])
  BY WriterFacts
<1>2. Name \in DOMAIN blobs /\ blobs[Name].state # "EMPTY" /\ blobs[Name].ref_cnt = 2
  BY FillingFacts
<1>3. /\ disk' = [disk EXCEPT ![Path(Name)] = @ \o data]
      /\ streams' = Advanced(Writer, Len(data)) /\ UNCHANGED <<blobs, files, remaining>>
  BY <1>1 DEF WriteBlobStream
<1>4. Name' = Name /\ Path(Name)' = Path(Name)
  BY <1>3 DEF Name, Reading, Path
<1>5. /\ Files' /\ disk'[Path(Name)] = disk[Path(Name)] \o data
      /\ Len(disk'[Path(Name)]) = Len(disk[Path(Name)]) + Len(data)
  <2>1. Files
    BY DEF CallInv
  <2> QED
    BY <1>2, <1>3, <2>1, FilesWrite
<1>6. [Writer EXCEPT !.curr_pos = @ + Len(data)] = Writer'
  BY <1>4, <1>5 DEF Writer
<1>7. streams' = {Writer'}
  BY <1>1, <1>3, <1>6 DEF Advanced
<1>8. Writer'.blob = Name
  BY <1>4 DEF Writer
<1>9. Core' /\ Reading' = Reading
  <2> HIDE DEF Writer
  <2> DEFINE w == Writer'
  <2>1. streams' = {w} /\ w.blob = Name
    BY <1>7, <1>8
  <2> HIDE DEF w
  <2> QED
    BY <1>2, <1>3, <1>5, <2>1, CoreFill
<1> QED
  BY <1>3, <1>4, <1>5, <1>7, <1>9

\* flush_blob_stream
LEMMA CoreFlush ==
    ASSUME CallInv, step \in {"copy", "flush"}, step' # "param", FlushBlobStream(NewStream),
           SameSlots, UNCHANGED <<phase, i, arrays>>
    PROVE  /\ Core' /\ Name' = Name /\ Reading' = Reading /\ DOMAIN blobs' = DOMAIN blobs
           /\ blobs'[Name].len = blobs[Name].len
           /\ blobs'[Name].state = IF Len(disk[Path(Name)]) = blobs[Name].len THEN "COMPLETE"
                                   ELSE blobs[Name].state
           /\ Path(Name)' = Path(Name) /\ UNCHANGED disk
           /\ streams' = {Writer'}
<1>1. /\ streams = {Writer} /\ NewStream = Writer
      /\ Writer.blob = Name /\ Writer.curr_pos = Len(disk[Path(Name)])
  BY WriterFacts
<1>2. Name \in DOMAIN blobs /\ blobs[Name].state # "EMPTY" /\ blobs[Name].ref_cnt = 2
  BY FillingFacts
<1> DEFINE st == IF Len(disk[Path(Name)]) = blobs[Name].len THEN "COMPLETE" ELSE blobs[Name].state
<1>3. blobs' = [blobs EXCEPT ![Name].state = st] /\ UNCHANGED <<streams, disk, files, remaining>>
  BY <1>1 DEF FlushBlobStream, IsFilled
<1>4. blobs[Name] \in BlobType
  BY <1>2 DEF CallInv, Files
<1>5. st \in {"INCOMPLETE", "COMPLETE"}
  BY <1>2, <1>4 DEF BlobType
<1>6. /\ DOMAIN blobs' = DOMAIN blobs
      /\ \A b \in DOMAIN blobs : b # Name => blobs'[b] = blobs[b]
      /\ blobs'[Name] = [blobs[Name] EXCEPT !.state = st]
  BY <1>2, <1>3
<1>7. /\ blobs'[Name] \in BlobType /\ blobs'[Name].file_path = blobs[Name].file_path
      /\ blobs'[Name].len = blobs[Name].len /\ blobs'[Name].state = st
      /\ blobs'[Name].ref_cnt = 2
  <2> HIDE DEF st
  <2> QED
    BY <1>2, <1>4, <1>5, <1>6 DEF BlobType
<1>8. Files'
  <2>1. ASSUME NEW b \in DOMAIN blobs
        PROVE  /\ blobs'[b] \in BlobType
               /\ blobs'[b].file_path = blobs[b].file_path /\ blobs'[b].len = blobs[b].len
               /\ blobs'[b].state = "EMPTY" <=> blobs[b].state = "EMPTY"
               /\ \/ blobs'[b].state # "COMPLETE"
                  \/ blobs[b].state = "COMPLETE"
                  \/ Len(disk[blobs[b].file_path]) = blobs[b].len
    <3>1. CASE b = Name
      BY <1>2, <1>5, <1>7, <3>1 DEF Path
    <3>2. CASE b # Name
      BY <1>6, <3>2 DEF CallInv, Files
    <3> QED
      BY <3>1, <3>2
  <2>2. Files
    BY DEF CallInv
  <2> QED
    BY <1>3, <1>6, <2>1, <2>2, FilesKept
<1>9. Name' = Name /\ Path(Name)' = Path(Name)
  BY <1>7 DEF Name, Reading, Path
<1>10. Writer' = Writer
  BY <1>3, <1>9 DEF Writer
<1>11. Core' /\ Reading' = Reading
  <2> DEFINE w == Writer
  <2>1. streams' = {w} /\ w.blob = Name
    BY <1>1, <1>3
  <2> HIDE DEF w
  <2> QED
    BY <1>6, <1>7, <1>8, <2>1, CoreFill
<1> QED
  BY <1>1, <1>3, <1>6, <1>7, <1>9, <1>10, <1>11

\* A variable is made to point to the new object.
LEMMA PointerSet ==
    ASSUME CallInv, phase \in Filled, i \in DOMAIN TypesOf(Reading), IsPtr(Type),
           slots' = [slots EXCEPT ![Reading][i] = "set"], UNCHANGED <<phase, method_id, served_id>>
    PROVE  /\ \A f : TypesOf(f)' = TypesOf(f)
           /\ \A f \in Frames : \A n : IsSet(f, n)' <=> IsSet(f, n) \/ (f = Reading /\ n = i)
           /\ \A o : ObjType(o)' = ObjType(o) /\ IsName(o)' = IsName(o)
           /\ \A o : o[1] \in Owners /\ o = <<o[1], o[2]>> =>
                       Count(o)' = Count(o) + (IF o = Name THEN 1 ELSE 0)
<1>1. /\ Reading \in Owners /\ Reading \in Frames /\ Full(Reading)
      /\ ~IsSet(Reading, i) /\ i \in DOMAIN slots[Reading] /\ Reading # "returned"
  BY FillFacts DEF Reading
<1>2. \A f : TypesOf(f)' = TypesOf(f)
  BY DEF TypesOf
<1>3. DOMAIN slots = Frames
  BY DEF CallInv, Variables
<1>4. /\ slots'[Reading] = [slots[Reading] EXCEPT ![i] = "set"]
      /\ \A f \in Frames : f # Reading => slots'[f] = slots[f]
  BY <1>1, <1>3
<1>5. ASSUME NEW f \in Frames, NEW n
      PROVE  IsSet(f, n)' <=> IsSet(f, n) \/ (f = Reading /\ n = i)
  <2>1. CASE f # Reading
    BY <1>2, <1>4, <2>1 DEF IsSet
  <2>2. CASE f = Reading /\ n # i
    BY <1>2, <1>4, <2>2 DEF IsSet
  <2>3. CASE f = Reading /\ n = i
    <3>1. DOMAIN slots'[Reading] = DOMAIN slots[Reading] /\ slots'[Reading][i] = "set"
      BY <1>1, <1>4
    <3>2. IsPtr(TypesOf(Reading)[i])
      BY DEF Type
    <3> QED
      BY <1>1, <1>2, <2>3, <3>1, <3>2 DEF IsSet
  <2> QED
    BY <2>1, <2>2, <2>3
<1>6. \A o : ObjType(o)' = ObjType(o) /\ IsName(o)' = IsName(o)
  BY <1>2 DEF ObjType, IsName
<1>7. ASSUME NEW o, o[1] \in Owners, o = <<o[1], o[2]>>
      PROVE  Count(o)' = Count(o) + (IF o = Name THEN 1 ELSE 0)
  <2>1. o[1] \in Frames /\ "returned" \in Frames
    BY <1>7 DEF Owners, Frames
  <2>2. o = Name <=> o[1] = Reading /\ o[2] = i
    BY <1>7 DEF Name
  <2>3. IsSet(o[1], o[2])' <=> IsSet(o[1], o[2]) \/ o = Name
    BY <1>5, <2>1, <2>2
  <2>4. IsSet("returned", o[2])' <=> IsSet("returned", o[2])
    BY <1>1, <1>5, <2>1
  <2>5. o = Name => ~IsSet(o[1], o[2])
    BY <1>1, <2>2
  <2> QED
    BY <2>3, <2>4, <2>5 DEF Count
<1> QED
  BY <1>2, <1>5, <1>6, <1>7

\* delete_blob_stream, when the blob is full and its variable points to it
LEMMA CoreClose ==
    ASSUME CallInv, step \in {"copy", "close"}, step' = "param",
           blobs[Name].state = "COMPLETE", DeleteBlobStream(NewStream, 0),
           slots' = [slots EXCEPT ![Reading][i] = "set"],
           UNCHANGED <<phase, method_id, served_id, arrays>>
    PROVE  /\ Core' /\ streams' = {} /\ DOMAIN blobs' = DOMAIN blobs /\ UNCHANGED disk
           /\ \A b \in DOMAIN blobs : /\ blobs'[b].file_path = blobs[b].file_path
                                      /\ blobs'[b].state = blobs[b].state
<1>1. /\ streams = {Writer} /\ NewStream = Writer /\ Writer.blob = Name
      /\ \A b : OpenStreams(b) = IF b = Name THEN {Writer} ELSE {}
  BY WriterFacts
<1>2. /\ Name \in DOMAIN blobs /\ blobs[Name].ref_cnt = 2 /\ blobs[Name].ref_cnt > 1
      /\ phase \in Filled /\ i \in DOMAIN TypesOf(Reading) /\ Type = "blob"
      /\ IsName(Name) /\ ObjType(Name) = "blob" /\ Count(Name) = 0
      /\ \A b : Filling(b) <=> b = Name
  BY FillingFacts
<1>3. streams' = {} /\ DropRefs(Name, 1)
  <2>1. DropRefs(Writer.blob, 0 + 1) /\ streams' = streams \ {Writer}
    BY <1>1 DEF DeleteBlobStream
  <2> QED
    BY <1>1, <2>1
<1>4. Files
  BY DEF CallInv
<1>5. /\ Files' /\ DOMAIN blobs' = DOMAIN blobs /\ UNCHANGED <<disk, files, remaining>>
      /\ \A a \in DOMAIN blobs : a # Name => blobs'[a] = blobs[a]
      /\ blobs'[Name].state = blobs[Name].state /\ blobs'[Name].ref_cnt = blobs[Name].ref_cnt - 1
      /\ blobs'[Name].file_path = blobs[Name].file_path
  BY <1>2, <1>3, <1>4, FilesDecRef
<1>6. /\ \A f : TypesOf(f)' = TypesOf(f)
      /\ \A f \in Frames : \A n : IsSet(f, n)' <=> IsSet(f, n) \/ (f = Reading /\ n = i)
      /\ \A o : ObjType(o)' = ObjType(o) /\ IsName(o)' = IsName(o)
      /\ \A o : o[1] \in Owners /\ o = <<o[1], o[2]>> =>
                  Count(o)' = Count(o) + (IF o = Name THEN 1 ELSE 0)
  <2>1. IsPtr(Type)
    BY <1>2 DEF IsPtr
  <2> QED
    BY <1>2, <2>1, PointerSet
<1>7. \A b : ~Filling(b)'
  BY DEF Filling
<1>8. \A b \in DOMAIN blobs : blobs'[b].state = "COMPLETE"
  BY <1>2, <1>5 DEF CallInv, Objects
<1>9. Objects'
  <2>1. ASSUME NEW a \in DOMAIN arrays'
        PROVE  /\ IsName(a)' /\ ObjType(a)' \in ArrayTypes
               /\ DOMAIN arrays'[a] = {"value", "ref_cnt"}
               /\ HasType(ObjType(a), arrays[a].value)'
    BY <1>6 DEF CallInv, Objects
  <2>2. ASSUME NEW b \in DOMAIN blobs'
        PROVE  IsName(b)' /\ ObjType(b)' = "blob" /\ blobs'[b].state = "COMPLETE"
    BY <1>5, <1>6, <1>8 DEF CallInv, Objects
  <2> QED
    BY <2>1, <2>2 DEF Objects
<1>10. Cardinality({}) = 0 /\ \A b : OpenStreams(b)' = {}
  BY <1>3, FS_EmptySet DEF OpenStreams
<1>11. ASSUME NEW b \in DOMAIN blobs'
       PROVE  /\ blobs'[b].ref_cnt = Count(b)' + Cardinality(OpenStreams(b)')
                                         + (IF Filling(b)' THEN 1 ELSE 0)
              /\ blobs'[b].ref_cnt > 0
  <2>1. b[1] \in Owners /\ b = <<b[1], b[2]>>
    BY <1>5 DEF CallInv, Objects, IsName
  <2>2. Count(b)' = Count(b) + (IF b = Name THEN 1 ELSE 0)
    BY <1>6, <2>1
  <2>3. CASE b = Name
    BY <1>2, <1>5, <1>7, <1>10, <2>2, <2>3
  <2>4. CASE b # Name
    <3>1. Cardinality(OpenStreams(b)) = 0 /\ ~Filling(b)
      BY <1>1, <1>2, <1>10, <2>4
    <3>2. /\ blobs[b].ref_cnt = Count(b) + Cardinality(OpenStreams(b))
                                         + (IF Filling(b) THEN 1 ELSE 0)
          /\ blobs[b].ref_cnt > 0
      BY <1>5 DEF CallInv, RefsOK
    <3>3. blobs'[b] = blobs[b]
      BY <1>5, <2>4
    <3>4. Count(b) \in Nat /\ Count(b)' = Count(b)
      BY <2>2, <2>4, CountNat
    <3>5. Cardinality(OpenStreams(b)') = 0 /\ ~Filling(b)'
      BY <1>7, <1>10
    <3> QED
      BY <3>1, <3>2, <3>3, <3>4, <3>5
  <2> QED
    BY <2>3, <2>4
<1>12. ASSUME NEW a \in DOMAIN arrays'
       PROVE  arrays'[a].ref_cnt = Count(a)' /\ Count(a)' > 0
  <2>1. a[1] \in Owners /\ a = <<a[1], a[2]>> /\ ObjType(a) \in ArrayTypes
    BY DEF CallInv, Objects, IsName
  <2>2. a # Name
    BY <1>2, <2>1 DEF ArrayTypes
  <2>3. Count(a)' = Count(a) + 0
    BY <1>6, <2>1, <2>2
  <2>4. Count(a) \in Nat
    BY CountNat
  <2>5. arrays[a].ref_cnt = Count(a) /\ Count(a) > 0
    BY DEF CallInv, RefsOK
  <2> QED
    BY <2>3, <2>4, <2>5
<1>13. \A f \in Frames : \A n :
         IsSet(f, n)' => <<Owner(f), n>> \in DOMAIN arrays' \union DOMAIN blobs'
  <2>1. Owner(Reading) = Reading
    BY <1>2, FillFacts
  <2> QED
    BY <1>2, <1>5, <1>6, <2>1 DEF CallInv, RefsOK, Name
<1>14. RefsOK'
  BY <1>11, <1>12, <1>13 DEF RefsOK
<1> QED
  BY <1>2, <1>3, <1>5, <1>9, <1>14 DEF Core

\* what mrpc_blob_unserialize does when it fails
LEMMA CoreDropNew ==
    ASSUME CallInv, step # "close", step' = "param", phase \in Filled, DropNewBlob,
           SameSlots, UNCHANGED arrays
    PROVE  Core' /\ streams' = {}
<1>1. CASE step = "param"
  <2>1. UNCHANGED blobVars
    BY <1>1 DEF DropNewBlob
  <2>2. streams = {}
    <3>1. phase # "returned"
      BY Zenon DEF Filled
    <3> QED
      BY <1>1, <3>1 DEF CallInv, BlobStreams
  <2>3. Core /\ \A o \in DOMAIN arrays \union DOMAIN blobs : IsName(o)
    BY DEF CallInv, Core, Objects
  <2>4. /\ \A f, n : IsSet(f, n)' = IsSet(f, n)
        /\ \A o : IsName(o)' = IsName(o) /\ ObjType(o)' = ObjType(o)
    BY SlotsSame
  <2>5. Core'
    BY <1>1, <2>1, <2>3, <2>4, CoreQuiet DEF blobVars
  <2> QED
    BY <2>1, <2>2, <2>5 DEF blobVars
<1>2. CASE step # "param"
  <2>1. /\ Name \in DOMAIN blobs /\ Count(Name) = 0
        /\ \A b : Filling(b) <=> b = Name
        /\ step = "open" => blobs[Name].ref_cnt = 1 /\ streams = {} /\ \A b : OpenStreams(b) = {}
        /\ step # "open" => blobs[Name].ref_cnt = 2
    BY <1>2, FillingFacts
  <2> DEFINE n == IF step = "open" THEN 1 ELSE 2
  <2>2. n \in Nat /\ blobs[Name].ref_cnt = n
    BY <2>1
  <2>3. streams' = {} /\ DropRefs(Name, n)
    <3>1. CASE step = "open"
      BY <2>1, <3>1 DEF DropNewBlob, BlobDecRef
    <3>2. CASE step # "open"
      <4>1. step \in {"copy", "flush"} /\ DeleteBlobStream(NewStream, 1)
        BY <1>2, <3>2 DEF DropNewBlob
      <4>2. streams = {Writer} /\ NewStream = Writer /\ Writer.blob = Name
        BY <4>1, WriterFacts
      <4>3. DropRefs(Writer.blob, 1 + 1) /\ streams' = streams \ {Writer}
        BY <4>1, <4>2 DEF DeleteBlobStream
      <4>4. 1 + 1 = n
        BY <3>2
      <4> HIDE DEF n
      <4> QED
        BY <4>2, <4>3, <4>4
    <3> QED
      BY <3>1, <3>2
  <2> HIDE DEF n
  <2>4. Files
    BY DEF CallInv
  <2>5. /\ Files' /\ DOMAIN blobs' = DOMAIN blobs \ {Name}
        /\ \A a \in DOMAIN blobs' : blobs'[a] = blobs[a]
    BY <2>1, <2>2, <2>3, <2>4, FilesRemove
  <2>6. /\ \A f : TypesOf(f)' = TypesOf(f)
        /\ \A f, m : IsSet(f, m)' = IsSet(f, m)
        /\ \A o : Count(o)' = Count(o) /\ IsName(o)' = IsName(o) /\ ObjType(o)' = ObjType(o)
    BY SlotsSame
  <2>7. \A b : ~Filling(b)'
    BY DEF Filling
  <2>8. Objects'
    BY <2>1, <2>5, <2>6, <2>7 DEF CallInv, Objects
  <2>9. Cardinality({}) = 0 /\ \A b : OpenStreams(b)' = {}
    BY <2>3, FS_EmptySet DEF OpenStreams
  <2>10. \A b : b # Name => OpenStreams(b) = {}
    <3>1. CASE step = "open"
      BY <2>1, <3>1
    <3>2. CASE step # "open"
      BY <1>2, <3>2, WriterFacts DEF CallInv, Types
    <3> QED
      BY <3>1, <3>2
  <2>11. ASSUME NEW b \in DOMAIN blobs'
         PROVE  /\ blobs'[b].ref_cnt = Count(b)' + Cardinality(OpenStreams(b)')
                                           + (IF Filling(b)' THEN 1 ELSE 0)
                /\ blobs'[b].ref_cnt > 0
    <3>1. b \in DOMAIN blobs /\ b # Name /\ blobs'[b] = blobs[b]
      BY <2>5
    <3>2. /\ blobs[b].ref_cnt = Count(b) + Cardinality(OpenStreams(b))
                                         + (IF Filling(b) THEN 1 ELSE 0)
          /\ blobs[b].ref_cnt > 0
      BY <3>1 DEF CallInv, RefsOK
    <3> QED
      BY <2>1, <2>6, <2>7, <2>9, <2>10, <3>1, <3>2
  <2>12. ASSUME NEW f \in Frames, NEW m, IsSet(f, m)'
         PROVE  <<Owner(f), m>> \in DOMAIN arrays' \union DOMAIN blobs'
    <3>1. IsSet(f, m) /\ <<Owner(f), m>> \in DOMAIN arrays \union DOMAIN blobs
      BY <2>6, <2>12 DEF CallInv, RefsOK
    <3>2. <<Owner(f), m>> # Name
      <4>1. SUFFICES ASSUME Owner(f) = Reading, m = i PROVE FALSE
        BY DEF Name
      <4>2. f = Reading \/ (f = "returned" /\ Reading = "received")
        BY <4>1 DEF Owner
      <4>3. Count(Name) # 0
        BY <3>1, <4>1, <4>2 DEF Count, Name
      <4> QED
        BY <2>1, <4>3
    <3> QED
      BY <2>5, <3>1, <3>2
  <2>13. \A a \in DOMAIN arrays' : arrays'[a].ref_cnt = Count(a)' /\ Count(a)' > 0
    BY <2>6 DEF CallInv, RefsOK
  <2>14. RefsOK'
    BY <2>11, <2>12, <2>13 DEF RefsOK
  <2> QED
    BY <2>3, <2>5, <2>8, <2>14 DEF Core
<1> QED
  BY <1>1, <1>2

\* create_char_array or create_wchar_array for the parameter that is next
LEMMA CoreSetArray ==
    ASSUME CallInv, step = "param", step' = "param", phase \in Filled,
           i \in DOMAIN TypesOf(Reading), Type \in ArrayTypes, NEW v, HasType(Type, v),
           arrays' = With(arrays, Name, [value |-> v, ref_cnt |-> 1]),
           slots' = [slots EXCEPT ![Reading][i] = "set"],
           UNCHANGED <<blobVars, phase, method_id, served_id>>
    PROVE  Core'
<1>1. /\ IsName(Name) /\ ObjType(Name) = Type /\ Count(Name) = 0 /\ Owner(Reading) = Reading
  BY FillFacts
<1>2. /\ \A f : TypesOf(f)' = TypesOf(f)
      /\ \A f \in Frames : \A n : IsSet(f, n)' <=> IsSet(f, n) \/ (f = Reading /\ n = i)
      /\ \A o : ObjType(o)' = ObjType(o) /\ IsName(o)' = IsName(o)
      /\ \A o : o[1] \in Owners /\ o = <<o[1], o[2]>> =>
                  Count(o)' = Count(o) + (IF o = Name THEN 1 ELSE 0)
  <2>1. IsPtr(Type)
    BY DEF IsPtr, ArrayTypes
  <2> QED
    BY <2>1, PointerSet
<1> DEFINE new == [value |-> v, ref_cnt |-> 1]
<1>3. /\ DOMAIN arrays' = DOMAIN arrays \union {Name} /\ arrays'[Name] = new
      /\ \A a \in DOMAIN arrays : a # Name => arrays'[a] = arrays[a]
  BY DEF With
<1>4. Name \notin DOMAIN arrays
  <2>1. \A a \in DOMAIN arrays : Count(a) > 0
    BY DEF CallInv, RefsOK
  <2> QED
    BY <1>1, <2>1
<1>5. new.ref_cnt = 1 /\ new.value = v /\ DOMAIN new = {"value", "ref_cnt"}
  OBVIOUS
<1> HIDE DEF new
<1>6. Files'
  BY DEF CallInv, Files, BlobType, Path, FilesMatchBlobs, blobVars
<1>7. /\ \A b : ~Filling(b) /\ ~Filling(b)'
      /\ \A b : OpenStreams(b)' = OpenStreams(b)
  BY DEF Filling, OpenStreams, blobVars
<1>8. Objects'
  <2>1. ASSUME NEW a \in DOMAIN arrays'
        PROVE  /\ IsName(a)' /\ ObjType(a)' \in ArrayTypes
               /\ DOMAIN arrays'[a] = {"value", "ref_cnt"}
               /\ HasType(ObjType(a)', arrays'[a].value)
    <3>1. CASE a = Name
      BY <1>1, <1>2, <1>3, <1>5, <3>1
    <3>2. CASE a # Name
      BY <1>2, <1>3, <3>2 DEF CallInv, Objects
    <3> QED
      BY <3>1, <3>2
  <2>2. ASSUME NEW b \in DOMAIN blobs'
        PROVE  IsName(b)' /\ ObjType(b)' = "blob" /\ blobs'[b].state = "COMPLETE"
    BY <1>2, <1>7 DEF CallInv, Objects, blobVars
  <2> QED
    BY <2>1, <2>2 DEF Objects
<1>9. ASSUME NEW b \in DOMAIN blobs'
      PROVE  /\ blobs'[b].ref_cnt = Count(b)' + Cardinality(OpenStreams(b)')
                                        + (IF Filling(b)' THEN 1 ELSE 0)
             /\ blobs'[b].ref_cnt > 0
  <2>1. b[1] \in Owners /\ b = <<b[1], b[2]>> /\ b \in DOMAIN blobs /\ ObjType(b) = "blob"
    BY DEF CallInv, Objects, IsName, blobVars
  <2>2. b # Name
    BY <1>1, <2>1 DEF ArrayTypes
  <2>3. Count(b) \in Nat /\ Count(b)' = Count(b)
    BY <1>2, <2>1, <2>2, CountNat
  <2>4. /\ blobs[b].ref_cnt = Count(b) + Cardinality(OpenStreams(b))
                                       + (IF Filling(b) THEN 1 ELSE 0)
        /\ blobs[b].ref_cnt > 0
    BY <2>1 DEF CallInv, RefsOK
  <2>5. blobs'[b] = blobs[b]
    BY DEF blobVars
  <2> QED
    BY <1>7, <2>3, <2>4, <2>5
<1>10. ASSUME NEW a \in DOMAIN arrays'
       PROVE  arrays'[a].ref_cnt = Count(a)' /\ Count(a)' > 0
  <2>1. a[1] \in Owners /\ a = <<a[1], a[2]>>
    BY <1>1, <1>3 DEF CallInv, Objects, IsName
  <2>2. Count(a)' = Count(a) + (IF a = Name THEN 1 ELSE 0)
    BY <1>2, <2>1
  <2>3. CASE a = Name
    BY <1>1, <1>3, <1>5, <2>2, <2>3
  <2>4. CASE a # Name
    <3>1. arrays'[a] = arrays[a] /\ arrays[a].ref_cnt = Count(a) /\ Count(a) > 0
      BY <1>3, <2>4 DEF CallInv, RefsOK
    <3>2. Count(a) \in Nat
      BY CountNat
    <3> QED
      BY <2>2, <2>4, <3>1, <3>2
  <2> QED
    BY <2>3, <2>4
<1>11. \A f \in Frames : \A n :
         IsSet(f, n)' => <<Owner(f), n>> \in DOMAIN arrays' \union DOMAIN blobs'
  BY <1>1, <1>2, <1>3 DEF CallInv, RefsOK, Name, blobVars
<1>12. RefsOK'
  BY <1>9, <1>10, <1>11 DEF RefsOK
<1> QED
  BY <1>6, <1>8, <1>12 DEF Core

\* a parameter that is not a pointer
LEMMA CoreSetInt ==
    ASSUME CallInv, step = "param", step' = "param", phase \in Filled,
           i \in DOMAIN TypesOf(Reading), ~IsPtr(Type), NEW v,
           slots' = [slots EXCEPT ![Reading][i] = v],
           UNCHANGED <<blobVars, arrays, phase, method_id, served_id>>
    PROVE  Core' /\ \A f \in Frames : \A n : IsSet(f, n)' = IsSet(f, n)
<1>1. \A f : TypesOf(f)' = TypesOf(f)
  BY DEF TypesOf
<1>2. DOMAIN slots = Frames /\ Reading \in Frames
  BY FillFacts DEF CallInv, Variables
<1>3. /\ slots'[Reading] = [slots[Reading] EXCEPT ![i] = v]
      /\ \A f \in Frames : f # Reading => slots'[f] = slots[f]
  BY <1>2
<1>4. ASSUME NEW f \in Frames, NEW n
      PROVE  IsSet(f, n)' = IsSet(f, n)
  <2>1. CASE f # Reading
    BY <1>1, <1>3, <2>1 DEF IsSet
  <2>2. CASE f = Reading /\ n # i
    BY <1>1, <1>3, <2>2 DEF IsSet
  <2>3. CASE f = Reading /\ n = i
    BY <1>1, <2>3 DEF IsSet, Type
  <2> QED
    BY <2>1, <2>2, <2>3
<1>5. \A o : ObjType(o)' = ObjType(o) /\ IsName(o)' = IsName(o)
  BY <1>1 DEF ObjType, IsName
<1>6. Core /\ \A o \in DOMAIN arrays \union DOMAIN blobs : IsName(o)
  BY DEF CallInv, Core, Objects
<1>7. Core'
  BY <1>4, <1>5, <1>6, CoreQuiet DEF blobVars
<1> QED
  BY <1>4, <1>7

\* One reference of a blob is dropped, the one of a variable or of a stream.
LEMMA CoreDecRef ==
    ASSUME Core, step = "param", step' = "param", NEW b \in DOMAIN blobs, DropRefs(b, 1),
           UNCHANGED arrays, IsFiniteSet(streams), IsFiniteSet(streams'),
           \A f \in Frames : \A n : IsSet(f, n)' => IsSet(f, n),
           \A o : IsName(o)' = IsName(o) /\ ObjType(o)' = ObjType(o),
           \A a \in DOMAIN arrays : Count(a)' = Count(a),
           \A o \in DOMAIN blobs :
              Count(o)' + Cardinality(OpenStreams(o)')
                = Count(o) + Cardinality(OpenStreams(o)) - (IF o = b THEN 1 ELSE 0)
    PROVE  Core' /\ \A s \in streams' : s.blob \in DOMAIN blobs => s.blob \in DOMAIN blobs'
<1>1. \A o : ~Filling(o) /\ ~Filling(o)'
  BY DEF Filling
<1>2. ASSUME NEW o
      PROVE  /\ IsFiniteSet(OpenStreams(o)) /\ Cardinality(OpenStreams(o)) \in Nat
             /\ IsFiniteSet(OpenStreams(o)') /\ Cardinality(OpenStreams(o)') \in Nat
             /\ Count(o) \in Nat /\ Count(o)' \in Nat
  <2>1. OpenStreams(o) \in SUBSET streams /\ OpenStreams(o)' \in SUBSET streams'
    BY DEF OpenStreams
  <2>2. IsFiniteSet(OpenStreams(o)) /\ IsFiniteSet(OpenStreams(o)')
    BY <2>1, FS_Subset
  <2> QED
    BY <2>2, FS_CardinalityType, CountNat
<1>3. ASSUME NEW o \in DOMAIN blobs
      PROVE  blobs[o].ref_cnt = Count(o) + Cardinality(OpenStreams(o)) /\ blobs[o].ref_cnt > 0
  <2>1. /\ blobs[o].ref_cnt = Count(o) + Cardinality(OpenStreams(o)) + (IF Filling(o) THEN 1 ELSE 0)
        /\ blobs[o].ref_cnt > 0
    BY DEF Core, RefsOK
  <2>2. ~Filling(o)
    BY <1>1
  <2> QED
    BY <1>2, <2>1, <2>2
<1>4. /\ Files' /\ DOMAIN blobs' \in SUBSET DOMAIN blobs
      /\ \A a \in DOMAIN blobs : a # b => a \in DOMAIN blobs' /\ blobs'[a] = blobs[a]
      /\ b \in DOMAIN blobs' =>
           blobs'[b].state = blobs[b].state /\ blobs'[b].ref_cnt = blobs[b].ref_cnt - 1
      /\ b \in DOMAIN blobs' <=> blobs[b].ref_cnt > 1
  <2>1. Files /\ blobs[b].ref_cnt \in Nat
    BY <1>2, <1>3 DEF Core
  <2>2. CASE blobs[b].ref_cnt > 1
    <3>1. /\ Files' /\ DOMAIN blobs' = DOMAIN blobs
          /\ \A a \in DOMAIN blobs : a # b => blobs'[a] = blobs[a]
          /\ blobs'[b].state = blobs[b].state /\ blobs'[b].ref_cnt = blobs[b].ref_cnt - 1
      BY <2>1, <2>2, FilesDecRef
    <3> QED
      BY <2>2, <3>1
  <2>3. CASE blobs[b].ref_cnt = 1
    <3>1. /\ Files' /\ DOMAIN blobs' = DOMAIN blobs \ {b}
          /\ \A a \in DOMAIN blobs' : blobs'[a] = blobs[a]
      BY <2>1, <2>3, FilesRemove
    <3> QED
      BY <2>3, <3>1
  <2> QED
    BY <1>3, <2>1, <2>2, <2>3
<1>5. b \notin DOMAIN blobs' => Count(b)' = 0 /\ Cardinality(OpenStreams(b)') = 0
  BY <1>2, <1>3, <1>4
<1>6. Objects'
  <2>1. \A a \in DOMAIN arrays' :
          /\ IsName(a)' /\ ObjType(a)' \in ArrayTypes
          /\ DOMAIN arrays'[a] = {"value", "ref_cnt"}
          /\ HasType(ObjType(a), arrays[a].value)'
    BY DEF Core, Objects
  <2>2. ASSUME NEW o \in DOMAIN blobs'
        PROVE  IsName(o)' /\ ObjType(o)' = "blob" /\ blobs'[o].state = "COMPLETE"
    <3>1. o \in DOMAIN blobs /\ IsName(o) /\ ObjType(o) = "blob" /\ blobs[o].state = "COMPLETE"
      BY <1>1, <1>4 DEF Core, Objects
    <3> QED
      BY <1>4, <3>1
  <2> QED
    BY <2>1, <2>2 DEF Objects
<1>7. ASSUME NEW o \in DOMAIN blobs'
      PROVE  /\ blobs'[o].ref_cnt = Count(o)' + Cardinality(OpenStreams(o)')
                                        + (IF Filling(o)' THEN 1 ELSE 0)
             /\ blobs'[o].ref_cnt > 0
  <2>1. o \in DOMAIN blobs /\ ~Filling(o)'
    BY <1>1, <1>4
  <2>2. blobs[o].ref_cnt = Count(o) + Cardinality(OpenStreams(o)) /\ blobs[o].ref_cnt > 0
    BY <1>3, <2>1
  <2>3. /\ Count(o) \in Nat /\ Cardinality(OpenStreams(o)) \in Nat
        /\ Count(o)' \in Nat /\ Cardinality(OpenStreams(o)') \in Nat
    BY <1>2
  <2>4. Count(o)' + Cardinality(OpenStreams(o)')
                = Count(o) + Cardinality(OpenStreams(o)) - (IF o = b THEN 1 ELSE 0)
    BY <2>1
  <2>5. CASE o = b
    BY <1>4, <2>1, <2>2, <2>3, <2>4, <2>5
  <2>6. CASE o # b
    BY <1>4, <2>1, <2>2, <2>3, <2>4, <2>6
  <2> QED
    BY <2>5, <2>6
<1>8. \A a \in DOMAIN arrays' : arrays'[a].ref_cnt = Count(a)' /\ Count(a)' > 0
  BY DEF Core, RefsOK
<1>9. ASSUME NEW f \in Frames, NEW n, IsSet(f, n)'
      PROVE  <<Owner(f), n>> \in DOMAIN arrays' \union DOMAIN blobs'
  <2>1. <<Owner(f), n>> \in DOMAIN arrays \union DOMAIN blobs
    BY <1>9 DEF Core, RefsOK
  <2>2. CASE <<Owner(f), n>> = b
    <3>1. Count(b)' # 0
      <4>1. b[1] = Owner(f) /\ b[2] = n
        BY <2>2
      <4>2. f = b[1] \/ (f = "returned" /\ b[1] = "received")
        BY <4>1 DEF Owner
      <4> QED
        BY <1>9, <4>1, <4>2 DEF Count
    <3> QED
      BY <1>5, <2>2, <3>1
  <2>3. CASE <<Owner(f), n>> # b
    BY <1>4, <2>1, <2>3
  <2> QED
    BY <2>2, <2>3
<1>10. RefsOK'
  BY <1>7, <1>8, <1>9 DEF RefsOK
<1>11. ASSUME NEW s \in streams', s.blob \in DOMAIN blobs
       PROVE  s.blob \in DOMAIN blobs'
  <2>1. CASE s.blob = b
    <3>1. s \in OpenStreams(b)'
      BY <2>1 DEF OpenStreams
    <3>2. Cardinality(OpenStreams(b)') # 0
      <4>1. IsFiniteSet(OpenStreams(b)')
        BY <1>2
      <4> QED
        BY <3>1, <4>1, FS_EmptySet
    <3> QED
      BY <1>5, <2>1, <3>2
  <2>2. CASE s.blob # b
    BY <1>4, <1>11, <2>2
  <2> QED
    BY <2>1, <2>2
<1> QED
  BY <1>4, <1>6, <1>10, <1>11 DEF Core

\* A variable that points to an object is set to NULL.
LEMMA PointerDropped ==
    ASSUME DOMAIN slots = Frames, NEW g \in Frames, NEW m, IsSet(g, m),
           slots' = [slots EXCEPT ![g][m] = "NULL"], UNCHANGED <<method_id, served_id>>
    PROVE  /\ \A f : TypesOf(f)' = TypesOf(f)
           /\ \A f \in Frames : \A n : IsSet(f, n)' <=> IsSet(f, n) /\ ~(f = g /\ n = m)
           /\ \A o : ObjType(o)' = ObjType(o) /\ IsName(o)' = IsName(o)
           /\ \A o : o[1] \in Owners /\ o = <<o[1], o[2]>> =>
                       Count(o)' = Count(o) - (IF o = <<Owner(g), m>> THEN 1 ELSE 0)
<1>1. \A f : TypesOf(f)' = TypesOf(f)
  BY DEF TypesOf
<1>2. /\ slots'[g] = [slots[g] EXCEPT ![m] = "NULL"]
      /\ \A f \in Frames : f # g => slots'[f] = slots[f]
  OBVIOUS
<1>3. ASSUME NEW f \in Frames, NEW n
      PROVE  IsSet(f, n)' <=> IsSet(f, n) /\ ~(f = g /\ n = m)
  <2>1. CASE f # g
    BY <1>1, <1>2, <2>1 DEF IsSet
  <2>2. CASE f = g /\ n # m
    BY <1>1, <1>2, <2>2 DEF IsSet
  <2>3. CASE f = g /\ n = m
    <3>1. m \in DOMAIN slots[g]
      BY DEF IsSet
    <3>2. slots'[g][m] = "NULL"
      BY <1>2, <3>1
    <3> QED
      BY <2>3, <3>2 DEF IsSet
  <2> QED
    BY <2>1, <2>2, <2>3
<1>4. \A o : ObjType(o)' = ObjType(o) /\ IsName(o)' = IsName(o)
  BY <1>1 DEF ObjType, IsName
<1>5. ASSUME NEW o, o[1] \in Owners, o = <<o[1], o[2]>>
      PROVE  Count(o)' = Count(o) - (IF o = <<Owner(g), m>> THEN 1 ELSE 0)
  <2>1. o[1] \in Frames /\ "returned" \in Frames /\ o[1] # "returned"
    BY <1>5 DEF Owners, Frames
  <2>2. o = <<Owner(g), m>> <=>
          \/ g = o[1] /\ m = o[2]
          \/ g = "returned" /\ o[1] = "received" /\ m = o[2]
    BY <1>5, <2>1 DEF Owner
  <2>3. IsSet(o[1], o[2])' <=> IsSet(o[1], o[2]) /\ ~(o[1] = g /\ o[2] = m)
    BY <1>3, <2>1
  <2>4. IsSet("returned", o[2])' <=> IsSet("returned", o[2]) /\ ~("returned" = g /\ o[2] = m)
    BY <1>3, <2>1
  <2> QED
    BY <2>1, <2>2, <2>3, <2>4 DEF Count
<1> QED
  BY <1>1, <1>3, <1>4, <1>5

\* mrpc_..._dec_ref for a variable
LEMMA CoreDropParam ==
    ASSUME Core, Variables, step = "param", IsFiniteSet(streams),
           NEW g \in Frames, NEW m, DropParam(g, m)
    PROVE  /\ Core' /\ UNCHANGED streams
           /\ \A s \in streams : s.blob \in DOMAIN blobs => s.blob \in DOMAIN blobs'
<1> DEFINE name == <<Owner(g), m>>
<1>1. /\ IsSet(g, m) /\ slots' = [slots EXCEPT ![g][m] = "NULL"]
      /\ UNCHANGED <<phase, step, i, method_id, served_id>>
  BY DEF DropParam, callVars
<1>2. DOMAIN slots = Frames
  BY DEF Variables
<1>3. /\ \A f : TypesOf(f)' = TypesOf(f)
      /\ \A f \in Frames : \A n : IsSet(f, n)' <=> IsSet(f, n) /\ ~(f = g /\ n = m)
      /\ \A o : ObjType(o)' = ObjType(o) /\ IsName(o)' = IsName(o)
      /\ \A o : o[1] \in Owners /\ o = <<o[1], o[2]>> =>
                  Count(o)' = Count(o) - (IF o = <<Owner(g), m>> THEN 1 ELSE 0)
  BY <1>1, <1>2, PointerDropped
<1>4. name \in DOMAIN arrays \union DOMAIN blobs
  BY <1>1 DEF Core, RefsOK
<1>5. ObjType(name) = TypesOf(g)[m]
  BY DEF ObjType, Owner, TypesOf, Frames
<1>6. /\ \A a \in DOMAIN arrays : a[1] \in Owners /\ a = <<a[1], a[2]>> /\ ObjType(a) \in ArrayTypes
      /\ \A b \in DOMAIN blobs : b[1] \in Owners /\ b = <<b[1], b[2]>> /\ ObjType(b) = "blob"
  BY DEF Core, Objects, IsName
<1>7. "blob" \notin ArrayTypes
  BY DEF ArrayTypes
<1> HIDE DEF name
<1>8. ASSUME NEW o \in DOMAIN arrays \union DOMAIN blobs
      PROVE  /\ Count(o)' = Count(o) - (IF o = name THEN 1 ELSE 0)
             /\ Count(o) \in Nat /\ Count(o)' \in Nat /\ Count(o) \in 0 .. 2
  BY <1>3, <1>6, CountNat DEF name
<1>9. CASE TypesOf(g)[m] = "blob"
  <2>1. DropRefs(name, 1) /\ UNCHANGED <<streams, arrays>>
    BY <1>9 DEF DropParam, BlobDecRef, name
  <2>2. name \in DOMAIN blobs
    BY <1>4, <1>5, <1>6, <1>7, <1>9
  <2>3. \A a \in DOMAIN arrays : Count(a)' = Count(a)
    <3>1. SUFFICES ASSUME NEW a \in DOMAIN arrays PROVE Count(a)' = Count(a)
      OBVIOUS
    <3>2. a # name
      BY <1>6, <1>7, <2>2
    <3> QED
      BY <1>8, <3>2
  <2>4. ASSUME NEW o \in DOMAIN blobs
        PROVE  Count(o)' + Cardinality(OpenStreams(o)')
                 = Count(o) + Cardinality(OpenStreams(o)) - (IF o = name THEN 1 ELSE 0)
    <3>1. OpenStreams(o)' = OpenStreams(o) /\ OpenStreams(o) \in SUBSET streams
      BY <2>1 DEF OpenStreams
    <3>2. Cardinality(OpenStreams(o)) \in Nat
      BY <3>1, FS_Subset, FS_CardinalityType
    <3>3. /\ Count(o)' = Count(o) - (IF o = name THEN 1 ELSE 0)
          /\ Count(o) \in Nat /\ Count(o)' \in Nat
      BY <1>8
    <3> QED
      BY <3>1, <3>2, <3>3
  <2>5. /\ IsFiniteSet(streams') /\ step' = "param"
        /\ \A f \in Frames : \A n : IsSet(f, n)' => IsSet(f, n)
    BY <1>1, <1>3, <2>1
  <2>6. Core' /\ \A s \in streams' : s.blob \in DOMAIN blobs => s.blob \in DOMAIN blobs'
    BY <1>3, <2>1, <2>2, <2>3, <2>4, <2>5, CoreDecRef
  <2> QED
    BY <2>1, <2>6
<1>10. CASE TypesOf(g)[m] # "blob"
  <2>1. /\ arrays' = IF arrays[name].ref_cnt = 1 THEN Without(arrays, name)
                     ELSE [arrays EXCEPT ![name].ref_cnt = arrays[name].ref_cnt - 1]
        /\ UNCHANGED <<blobs, streams, disk, files, remaining>>
    BY <1>10 DEF DropParam, blobVars, name
  <2>2. name \in DOMAIN arrays
    BY <1>4, <1>5, <1>6, <1>10
  <2>3. arrays[name].ref_cnt = Count(name) /\ Count(name) > 0 /\ Count(name) \in 0 .. 2
    BY <1>8, <2>2 DEF Core, RefsOK
  <2>4. /\ DOMAIN arrays' \in SUBSET DOMAIN arrays
        /\ \A a \in DOMAIN arrays : a # name => a \in DOMAIN arrays' /\ arrays'[a] = arrays[a]
        /\ name \in DOMAIN arrays' <=> Count(name) # 1
        /\ name \in DOMAIN arrays' =>
             arrays'[name] = [arrays[name] EXCEPT !.ref_cnt = Count(name) - 1]
    <3>1. CASE Count(name) = 1
      <4>1. arrays' = [a \in DOMAIN arrays \ {name} |-> arrays[a]]
        BY <2>1, <2>3, <3>1 DEF Without, Restrict
      <4> QED
        BY <3>1, <4>1
    <3>2. CASE Count(name) # 1
      <4>1. arrays' = [arrays EXCEPT ![name].ref_cnt = Count(name) - 1]
        BY <2>1, <2>3, <3>2
      <4> QED
        BY <2>2, <3>2, <4>1
    <3> QED
      BY <3>1, <3>2
  <2>5. Files'
    BY <2>1 DEF Core, Files, BlobType, Path, FilesMatchBlobs
  <2>6. \A b : ~Filling(b) /\ ~Filling(b)' /\ OpenStreams(b)' = OpenStreams(b)
    BY <1>1, <2>1 DEF Filling, OpenStreams
  <2>7. Objects'
    <3>1. ASSUME NEW a \in DOMAIN arrays'
          PROVE  /\ IsName(a)' /\ ObjType(a)' \in ArrayTypes
                 /\ DOMAIN arrays'[a] = {"value", "ref_cnt"}
                 /\ HasType(ObjType(a)', arrays'[a].value)
      <4>1. /\ a \in DOMAIN arrays /\ IsName(a) /\ ObjType(a) \in ArrayTypes
            /\ DOMAIN arrays[a] = {"value", "ref_cnt"}
            /\ HasType(ObjType(a), arrays[a].value)
        BY <2>4 DEF Core, Objects
      <4>2. DOMAIN arrays'[a] = DOMAIN arrays[a] /\ arrays'[a].value = arrays[a].value
        BY <2>4, <4>1
      <4>3. IsName(a)' = IsName(a) /\ ObjType(a)' = ObjType(a)
        BY <1>3
      <4> QED
        BY <4>1, <4>2, <4>3
    <3>2. ASSUME NEW b \in DOMAIN blobs'
          PROVE  IsName(b)' /\ ObjType(b)' = "blob" /\ blobs'[b].state = "COMPLETE"
      BY <1>3, <2>1, <2>6 DEF Core, Objects
    <3> QED
      BY <3>1, <3>2 DEF Objects
  <2>8. ASSUME NEW b \in DOMAIN blobs'
        PROVE  /\ blobs'[b].ref_cnt = Count(b)' + Cardinality(OpenStreams(b)')
                                          + (IF Filling(b)' THEN 1 ELSE 0)
               /\ blobs'[b].ref_cnt > 0
    <3>1. b \in DOMAIN blobs /\ blobs'[b] = blobs[b]
      BY <2>1
    <3>2. b # name
      BY <1>6, <1>7, <2>2, <3>1
    <3>3. Count(b) \in Nat /\ Count(b)' = Count(b)
      BY <1>8, <3>1, <3>2
    <3>4. /\ blobs[b].ref_cnt = Count(b) + Cardinality(OpenStreams(b))
                                         + (IF Filling(b) THEN 1 ELSE 0)
          /\ blobs[b].ref_cnt > 0
      BY <3>1 DEF Core, RefsOK
    <3> QED
      BY <2>6, <3>1, <3>3, <3>4
  <2>9. ASSUME NEW a \in DOMAIN arrays'
        PROVE  arrays'[a].ref_cnt = Count(a)' /\ Count(a)' > 0
    <3>1. a \in DOMAIN arrays
      BY <2>4
    <3>2. /\ Count(a)' = Count(a) - (IF a = name THEN 1 ELSE 0) /\ Count(a) \in Nat
      BY <1>8, <3>1
    <3>3. arrays[a].ref_cnt = Count(a) /\ Count(a) > 0
      BY <3>1 DEF Core, RefsOK
    <3>4. CASE a = name
      <4>1. arrays'[a] = [arrays[a] EXCEPT !.ref_cnt = Count(a) - 1]
        BY <2>4, <3>4
      <4>2. "ref_cnt" \in DOMAIN arrays[a]
        BY <3>1 DEF Core, Objects
      <4>3. arrays'[a].ref_cnt = Count(a) - 1
        BY <4>1, <4>2
      <4> QED
        BY <2>3, <2>4, <3>2, <3>4, <4>3
    <3>5. CASE a # name
      BY <2>4, <3>1, <3>2, <3>3, <3>5
    <3> QED
      BY <3>4, <3>5
  <2>10. ASSUME NEW f \in Frames, NEW n, IsSet(f, n)'
         PROVE  <<Owner(f), n>> \in DOMAIN arrays' \union DOMAIN blobs'
    <3>1. <<Owner(f), n>> \in DOMAIN arrays \union DOMAIN blobs
      BY <1>3, <2>10 DEF Core, RefsOK
    <3>2. CASE <<Owner(f), n>> = name
      <4>1. Count(name)' # 0
        <5>1. name[1] = Owner(f) /\ name[2] = n
          BY <3>2
        <5>2. f = name[1] \/ (f = "returned" /\ name[1] = "received")
          BY <5>1 DEF Owner
        <5> QED
          BY <2>10, <5>1, <5>2 DEF Count
      <4>2. Count(name)' = Count(name) - 1
        BY <1>8, <2>2
      <4> QED
        BY <2>3, <2>4, <3>2, <4>1, <4>2
    <3>3. CASE <<Owner(f), n>> # name
      BY <2>1, <2>4, <3>1, <3>3
    <3> QED
      BY <3>2, <3>3
  <2>11. RefsOK'
    BY <2>8, <2>9, <2>10 DEF RefsOK
  <2> QED
    BY <2>1, <2>5, <2>7, <2>11 DEF Core
<1> QED
  BY <1>9, <1>10

\* The out-parameters point to what the variables of the method point to.
LEMMA CoreReturn ==
    ASSUME CallInv, phase = "read_response", step = "param", step' = "param",
           slots' = [slots EXCEPT !["returned"] = slots["received"]],
           arrays' = [a \in DOMAIN arrays |->
              [arrays[a] EXCEPT !.ref_cnt = @ + Cardinality({a} \intersect Taken("received"))]],
           blobs' = [b \in DOMAIN blobs |->
              [blobs[b] EXCEPT !.ref_cnt = @ + Cardinality({b} \intersect Taken("received"))]],
           UNCHANGED <<streams, disk, files, remaining, method_id, served_id>>
    PROVE  Core' /\ streams = {}
<1>1. DOMAIN slots = Frames /\ DOMAIN slots["returned"] = {}
  BY DEF CallInv, Variables, Empty
<1>2. \A f : TypesOf(f)' = TypesOf(f)
  BY DEF TypesOf
<1>3. /\ "returned" \in Frames /\ "received" \in Frames
      /\ slots'["returned"] = slots["received"]
      /\ \A f \in Frames : f # "returned" => slots'[f] = slots[f]
  BY <1>1 DEF Frames
<1>4. /\ \A f \in Frames : \A n : f # "returned" => IsSet(f, n)' = IsSet(f, n)
      /\ \A n : IsSet("returned", n)' <=> IsSet("received", n)
      /\ \A n : ~IsSet("returned", n)
  <2>1. ASSUME NEW f \in Frames, NEW n, f # "returned" PROVE IsSet(f, n)' = IsSet(f, n)
    BY <1>2, <1>3, <2>1 DEF IsSet
  <2>2. TypesOf("returned") = TypesOf("received")
    BY DEF TypesOf
  <2>3. ASSUME NEW n PROVE IsSet("returned", n)' <=> IsSet("received", n)
    BY <1>2, <1>3, <2>2 DEF IsSet
  <2>4. ASSUME NEW n PROVE ~IsSet("returned", n)
    BY <1>1 DEF IsSet
  <2> QED
    BY <2>1, <2>3, <2>4
<1>5. \A o : ObjType(o)' = ObjType(o) /\ IsName(o)' = IsName(o)
  BY <1>2 DEF ObjType, IsName
<1>6. /\ \A a \in DOMAIN arrays : IsName(a) /\ ObjType(a) \in ArrayTypes
      /\ \A b \in DOMAIN blobs : IsName(b) /\ ObjType(b) = "blob"
  BY DEF CallInv, Objects
<1>7. /\ streams = {} /\ Cardinality({}) = 0
      /\ \A b : /\ ~Filling(b) /\ ~Filling(b)'
                /\ OpenStreams(b) = {} /\ OpenStreams(b)' = {}
  <2>1. streams = {}
    BY DEF CallInv, BlobStreams
  <2> QED
    BY <2>1, FS_EmptySet DEF Filling, OpenStreams
<1> DEFINE more(o) == Cardinality({o} \intersect Taken("received"))
<1>8. ASSUME NEW o, IsName(o), IsPtr(ObjType(o))
      PROVE  /\ more(o) = IF o[1] = "received" THEN 1 ELSE 0
             /\ Count(o) > 0 => Count(o)' = Count(o) + more(o)
             /\ Count(o) \in Nat
  <2>1. o[1] \in Owners /\ o = <<o[1], o[2]>> /\ o[2] \in DOMAIN TypesOf(o[1])
    BY <1>8 DEF IsName
  <2>2. o \in Taken("received") <=> o[1] = "received"
    <3>1. o \in Taken("received") => o[1] = "received"
      BY DEF Taken
    <3>2. o[1] = "received" => o \in Taken("received")
      BY <1>8, <2>1 DEF Taken, ObjType
    <3> QED
      BY <3>1, <3>2
  <2>3. more(o) = IF o[1] = "received" THEN 1 ELSE 0
    <3>1. CASE o[1] = "received"
      <4>1. {o} \intersect Taken("received") = {o}
        BY <2>2, <3>1
      <4> QED
        BY <3>1, <4>1, FS_Singleton
    <3>2. CASE o[1] # "received"
      <4>1. {o} \intersect Taken("received") = {}
        BY <2>2, <3>2
      <4> QED
        BY <1>7, <3>2, <4>1
    <3> QED
      BY <3>1, <3>2
  <2> HIDE DEF more
  <2>4. o[1] \in Frames /\ o[1] # "returned"
    BY <2>1 DEF Owners, Frames
  <2>5. /\ IsSet(o[1], o[2])' = IsSet(o[1], o[2])
        /\ IsSet("returned", o[2])' <=> IsSet("received", o[2])
        /\ ~IsSet("returned", o[2])
    BY <1>4, <2>4
  <2>6. Count(o) > 0 => Count(o)' = Count(o) + more(o)
    BY <2>3, <2>5 DEF Count
  <2> QED
    BY <2>3, <2>6, CountNat
<1> HIDE DEF more
<1>9. ASSUME NEW a \in DOMAIN arrays
      PROVE  /\ arrays[a].ref_cnt = Count(a) /\ Count(a) > 0
             /\ Count(a)' = Count(a) + more(a) /\ more(a) \in Nat /\ Count(a) \in Nat
  <2>1. IsName(a) /\ IsPtr(ObjType(a))
    BY <1>6 DEF ArrayTypes, IsPtr
  <2>2. arrays[a].ref_cnt = Count(a) /\ Count(a) > 0
    BY DEF CallInv, RefsOK
  <2> QED
    BY <1>8, <2>1, <2>2
<1>10. ASSUME NEW b \in DOMAIN blobs
       PROVE  /\ blobs[b].ref_cnt = Count(b) /\ Count(b) > 0
              /\ Count(b)' = Count(b) + more(b) /\ more(b) \in Nat /\ Count(b) \in Nat
  <2>1. IsName(b) /\ IsPtr(ObjType(b))
    BY <1>6 DEF IsPtr
  <2>2. /\ blobs[b].ref_cnt = Count(b) + Cardinality(OpenStreams(b)) + (IF Filling(b) THEN 1 ELSE 0)
        /\ blobs[b].ref_cnt > 0
    BY DEF CallInv, RefsOK
  <2>3. Count(b) \in Nat
    BY CountNat
  <2>4. blobs[b].ref_cnt = Count(b) /\ Count(b) > 0
    BY <1>7, <2>2, <2>3
  <2> QED
    BY <1>8, <2>1, <2>4
<1>11. /\ DOMAIN arrays' = DOMAIN arrays
       /\ \A a \in DOMAIN arrays :
            /\ DOMAIN arrays'[a] = {"value", "ref_cnt"} /\ arrays'[a].value = arrays[a].value
            /\ arrays'[a].ref_cnt = Count(a) + more(a)
  <2>1. arrays' = [a \in DOMAIN arrays |-> [arrays[a] EXCEPT !.ref_cnt = arrays[a].ref_cnt + more(a)]]
    BY DEF more
  <2>2. ASSUME NEW a \in DOMAIN arrays
        PROVE  /\ DOMAIN arrays'[a] = {"value", "ref_cnt"} /\ arrays'[a].value = arrays[a].value
               /\ arrays'[a].ref_cnt = Count(a) + more(a)
    <3>1. arrays'[a] = [arrays[a] EXCEPT !.ref_cnt = Count(a) + more(a)]
      BY <1>9, <2>1
    <3>2. DOMAIN arrays[a] = {"value", "ref_cnt"}
      BY DEF CallInv, Objects
    <3> QED
      BY <3>1, <3>2
  <2> QED
    BY <2>1, <2>2
<1>12. /\ DOMAIN blobs' = DOMAIN blobs
       /\ \A b \in DOMAIN blobs : blobs'[b] = [blobs[b] EXCEPT !.ref_cnt = Count(b) + more(b)]
  <2>1. blobs' = [b \in DOMAIN blobs |-> [blobs[b] EXCEPT !.ref_cnt = blobs[b].ref_cnt + more(b)]]
    BY DEF more
  <2> QED
    BY <1>10, <2>1
<1>13. ASSUME NEW b \in DOMAIN blobs
       PROVE  /\ blobs'[b] \in BlobType /\ blobs'[b].state = blobs[b].state
              /\ blobs'[b].file_path = blobs[b].file_path /\ blobs'[b].len = blobs[b].len
              /\ blobs'[b].ref_cnt = Count(b) + more(b)
  <2>1. blobs[b] \in BlobType
    BY DEF CallInv, Files
  <2>2. Count(b) + more(b) \in Nat
    BY <1>10
  <2> QED
    BY <1>12, <2>1, <2>2 DEF BlobType
<1>14. Files'
  <2>1. Files
    BY DEF CallInv
  <2> QED
    BY <1>12, <1>13, <2>1, FilesKept
<1>15. Objects'
  <2>1. ASSUME NEW a \in DOMAIN arrays'
        PROVE  /\ IsName(a)' /\ ObjType(a)' \in ArrayTypes
               /\ DOMAIN arrays'[a] = {"value", "ref_cnt"}
               /\ HasType(ObjType(a)', arrays'[a].value)
    BY <1>5, <1>11 DEF CallInv, Objects
  <2>2. ASSUME NEW b \in DOMAIN blobs'
        PROVE  IsName(b)' /\ ObjType(b)' = "blob" /\ blobs'[b].state = "COMPLETE"
    BY <1>5, <1>7, <1>12, <1>13 DEF CallInv, Objects
  <2> QED
    BY <2>1, <2>2 DEF Objects
<1>16. ASSUME NEW b \in DOMAIN blobs'
       PROVE  /\ blobs'[b].ref_cnt = Count(b)' + Cardinality(OpenStreams(b)')
                                         + (IF Filling(b)' THEN 1 ELSE 0)
              /\ blobs'[b].ref_cnt > 0
  <2>1. b \in DOMAIN blobs /\ ~Filling(b)' /\ Cardinality(OpenStreams(b)') = 0
    BY <1>7, <1>12
  <2>2. /\ Count(b)' = Count(b) + more(b) /\ Count(b) > 0 /\ more(b) \in Nat /\ Count(b) \in Nat
        /\ blobs'[b].ref_cnt = Count(b) + more(b)
    BY <1>10, <1>13, <2>1
  <2> QED
    BY <2>1, <2>2
<1>17. ASSUME NEW a \in DOMAIN arrays'
       PROVE  arrays'[a].ref_cnt = Count(a)' /\ Count(a)' > 0
  <2>1. /\ Count(a)' = Count(a) + more(a) /\ Count(a) > 0 /\ more(a) \in Nat /\ Count(a) \in Nat
        /\ arrays'[a].ref_cnt = Count(a) + more(a)
    BY <1>9, <1>11
  <2> QED
    BY <2>1
<1>18. ASSUME NEW f \in Frames, NEW n, IsSet(f, n)'
       PROVE  <<Owner(f), n>> \in DOMAIN arrays' \union DOMAIN blobs'
  <2>1. CASE f = "returned"
    <3>1. IsSet("received", n) /\ Owner("returned") = "received" /\ Owner("received") = "received"
      BY <1>4, <1>18, <2>1 DEF Owner
    <3>2. <<Owner("received"), n>> \in DOMAIN arrays \union DOMAIN blobs
      BY <1>3, <3>1 DEF CallInv, RefsOK
    <3> QED
      BY <1>11, <1>12, <2>1, <3>1, <3>2
  <2>2. CASE f # "returned"
    <3>1. <<Owner(f), n>> \in DOMAIN arrays \union DOMAIN blobs
      BY <1>4, <1>18, <2>2 DEF CallInv, RefsOK
    <3> QED
      BY <1>11, <1>12, <3>1
  <2> QED
    BY <2>1, <2>2
<1>19. RefsOK'
  BY <1>16, <1>17, <1>18 DEF RefsOK
<1> QED
  BY <1>7, <1>14, <1>15, <1>19 DEF Core

\* A blob has as many references more as there are streams more.
LEMMA CoreStreams ==
    ASSUME Core, step = "param", step' = "param", SameSlots, UNCHANGED arrays, Files',
           IsFiniteSet(streams), DOMAIN blobs' = DOMAIN blobs,
           NEW k, \A o \in DOMAIN blobs :
             /\ k[o] \in Nat /\ blobs'[o].state = blobs[o].state
             /\ blobs'[o].ref_cnt = blobs[o].ref_cnt + k[o]
             /\ Cardinality(OpenStreams(o)') = Cardinality(OpenStreams(o)) + k[o]
    PROVE  Core'
<1>1. \A o : ~Filling(o) /\ ~Filling(o)'
  BY DEF Filling
<1>2. Objects'
  BY <1>1, SlotsSame DEF Core, Objects
<1>3. ASSUME NEW o \in DOMAIN blobs'
      PROVE  /\ blobs'[o].ref_cnt = Count(o)' + Cardinality(OpenStreams(o)')
                                        + (IF Filling(o)' THEN 1 ELSE 0)
             /\ blobs'[o].ref_cnt > 0
  <2>1. /\ blobs[o].ref_cnt = Count(o) + Cardinality(OpenStreams(o)) + (IF Filling(o) THEN 1 ELSE 0)
        /\ blobs[o].ref_cnt > 0
    BY DEF Core, RefsOK
  <2>2. Count(o)' = Count(o) /\ Count(o) \in Nat /\ ~Filling(o) /\ ~Filling(o)'
    BY <1>1, SlotsSame, CountNat
  <2>3. Cardinality(OpenStreams(o)) \in Nat
    <3>1. OpenStreams(o) \in SUBSET streams
      BY DEF OpenStreams
    <3> QED
      BY <3>1, FS_Subset, FS_CardinalityType
  <2>4. /\ k[o] \in Nat /\ blobs'[o].ref_cnt = blobs[o].ref_cnt + k[o]
        /\ Cardinality(OpenStreams(o)') = Cardinality(OpenStreams(o)) + k[o]
    OBVIOUS
  <2> QED
    BY <2>1, <2>2, <2>3, <2>4
<1>4. \A a \in DOMAIN arrays' : arrays'[a].ref_cnt = Count(a)' /\ Count(a)' > 0
  BY SlotsSame DEF Core, RefsOK
<1>5. \A f \in Frames : \A n :
         IsSet(f, n)' => <<Owner(f), n>> \in DOMAIN arrays' \union DOMAIN blobs'
  BY SlotsSame DEF Core, RefsOK
<1>6. RefsOK'
  BY <1>3, <1>4, <1>5 DEF RefsOK
<1> QED
  BY <1>2, <1>6 DEF Core

\* mrpc_blob_move
LEMMA CoreMove ==
    ASSUME Core, step = "param", step' = "param", SameSlots, UNCHANGED arrays,
           IsFiniteSet(streams), NEW b \in DOMAIN blobs, MoveBlob(b)
    PROVE  Core' /\ DOMAIN blobs' = DOMAIN blobs /\ UNCHANGED streams
<1>1. /\ Files' /\ DOMAIN blobs' = DOMAIN blobs
      /\ \A a \in DOMAIN blobs : blobs'[a].ref_cnt = blobs[a].ref_cnt
                                 /\ blobs'[a].state = blobs[a].state
  BY FilesMove DEF Core
<1>2. UNCHANGED streams
  BY DEF MoveBlob
<1> DEFINE k == [o \in DOMAIN blobs |-> 0]
<1>3. ASSUME NEW o \in DOMAIN blobs
      PROVE  /\ k[o] \in Nat /\ blobs'[o].state = blobs[o].state
             /\ blobs'[o].ref_cnt = blobs[o].ref_cnt + k[o]
             /\ Cardinality(OpenStreams(o)') = Cardinality(OpenStreams(o)) + k[o]
  <2>1. blobs[o].ref_cnt \in Nat
    BY DEF Core, Files, BlobType
  <2>2. OpenStreams(o)' = OpenStreams(o) /\ OpenStreams(o) \in SUBSET streams
    BY <1>2 DEF OpenStreams
  <2>3. Cardinality(OpenStreams(o)) \in Nat
    BY <2>2, FS_Subset, FS_CardinalityType
  <2> QED
    BY <1>1, <2>1, <2>2, <2>3
<1> HIDE DEF k
<1>4. Core'
  BY <1>1, <1>3, CoreStreams
<1> QED
  BY <1>1, <1>2, <1>4

\* mrpc_blob_open_stream for reading
LEMMA CoreOpenRead ==
    ASSUME Core, step = "param", step' = "param", SameSlots, UNCHANGED arrays,
           IsFiniteSet(streams), NEW b \in DOMAIN blobs, NEW r, \A s \in streams : s.who # r,
           OpenBlobToRead(b, r)
    PROVE  /\ Core' /\ DOMAIN blobs' = DOMAIN blobs
           /\ streams' = streams \union
                {[blob |-> b, who |-> r, mode |-> "READ", curr_pos |-> 0]}
<1> DEFINE new == [blob |-> b, who |-> r, mode |-> "READ", curr_pos |-> 0]
<1>1. /\ blobs' = [blobs EXCEPT ![b].ref_cnt = blobs[b].ref_cnt + 1]
      /\ streams' = streams \union {new} /\ UNCHANGED <<disk, files, remaining>>
  BY DEF OpenBlobToRead
<1>2. new.blob = b /\ new.who = r
  OBVIOUS
<1> HIDE DEF new
<1>3. new \notin streams
  BY <1>2
<1>4. /\ DOMAIN blobs' = DOMAIN blobs
      /\ \A o \in DOMAIN blobs : o # b => blobs'[o] = blobs[o]
      /\ blobs'[b] = [blobs[b] EXCEPT !.ref_cnt = blobs[b].ref_cnt + 1]
  BY <1>1
<1>5. \A o \in DOMAIN blobs : blobs[o] \in BlobType
  BY DEF Core, Files
<1>6. /\ blobs'[b] \in BlobType /\ blobs'[b].state = blobs[b].state
      /\ blobs'[b].ref_cnt = blobs[b].ref_cnt + 1
      /\ blobs'[b].file_path = blobs[b].file_path /\ blobs'[b].len = blobs[b].len
  <2>1. blobs[b] \in BlobType /\ blobs[b].ref_cnt + 1 \in Nat
    BY <1>5 DEF BlobType
  <2> QED
    BY <1>4, <2>1 DEF BlobType
<1>7. Files'
  <2>1. Files
    BY DEF Core
  <2> QED
    BY <1>1, <1>4, <1>5, <1>6, <2>1, FilesKept
<1> DEFINE k == [o \in DOMAIN blobs |-> IF o = b THEN 1 ELSE 0]
<1>8. ASSUME NEW o \in DOMAIN blobs
      PROVE  /\ k[o] \in Nat /\ blobs'[o].state = blobs[o].state
             /\ blobs'[o].ref_cnt = blobs[o].ref_cnt + k[o]
             /\ Cardinality(OpenStreams(o)') = Cardinality(OpenStreams(o)) + k[o]
  <2>1. blobs[o].ref_cnt \in Nat
    BY <1>5 DEF BlobType
  <2>2. OpenStreams(o) \in SUBSET streams /\ new \notin OpenStreams(o)
    BY <1>3 DEF OpenStreams
  <2>3. IsFiniteSet(OpenStreams(o)) /\ Cardinality(OpenStreams(o)) \in Nat
    BY <2>2, FS_Subset, FS_CardinalityType
  <2>4. CASE o = b
    <3>1. OpenStreams(o)' = OpenStreams(o) \union {new}
      BY <1>1, <1>2, <2>4 DEF OpenStreams
    <3>2. Cardinality(OpenStreams(o) \union {new}) = Cardinality(OpenStreams(o)) + 1
      BY <2>2, <2>3, FS_AddElement
    <3> QED
      BY <1>6, <2>1, <2>3, <2>4, <3>1, <3>2
  <2>5. CASE o # b
    <3>1. OpenStreams(o)' = OpenStreams(o)
      BY <1>1, <1>2, <2>5 DEF OpenStreams
    <3>2. k[o] = 0 /\ blobs'[o] = blobs[o]
      BY <1>4, <2>5
    <3> QED
      BY <2>1, <2>3, <3>1, <3>2
  <2> QED
    BY <2>4, <2>5
<1> HIDE DEF k
<1>9. Core'
  BY <1>4, <1>7, <1>8, CoreStreams
<1> QED
  BY <1>1, <1>4, <1>9 DEF new

\* read_from_blob_stream
LEMMA CoreRead ==
    ASSUME Core, step = "param", step' = "param", SameSlots, UNCHANGED <<arrays, blobs, disk, files, remaining>>,
           IsFiniteSet(streams), \A s, t \in streams : s.who = t.who => s = t,
           NEW s \in streams, NEW t, streams' = (streams \ {s}) \union {t},
           t.blob = s.blob, t.who = s.who
    PROVE  Core'
<1>1. Files'
  BY DEF Core, Files, BlobType, Path, FilesMatchBlobs
<1> DEFINE k == [o \in DOMAIN blobs |-> 0]
<1>2. ASSUME NEW o \in DOMAIN blobs
      PROVE  /\ k[o] \in Nat /\ blobs'[o].state = blobs[o].state
             /\ blobs'[o].ref_cnt = blobs[o].ref_cnt + k[o]
             /\ Cardinality(OpenStreams(o)') = Cardinality(OpenStreams(o)) + k[o]
  <2>1. blobs[o].ref_cnt \in Nat
    BY DEF Core, Files, BlobType
  <2>2. OpenStreams(o) \in SUBSET streams
    BY DEF OpenStreams
  <2>3. IsFiniteSet(OpenStreams(o)) /\ Cardinality(OpenStreams(o)) \in Nat
    BY <2>2, FS_Subset, FS_CardinalityType
  <2>4. Cardinality(OpenStreams(o)') = Cardinality(OpenStreams(o))
    <3>1. CASE t \in streams
      <4>1. t = s
        BY <3>1
      <4>2. streams' = streams
        BY <4>1
      <4> QED
        BY <4>2 DEF OpenStreams
    <3>2. CASE t \notin streams /\ s.blob = o
      <4> DEFINE R == OpenStreams(o) \ {s}
      <4>1. OpenStreams(o)' = R \union {t} /\ t \notin R /\ s \in OpenStreams(o)
        BY <3>2 DEF OpenStreams
      <4>2. IsFiniteSet(R) /\ Cardinality(R) = Cardinality(OpenStreams(o)) - 1
        BY <2>3, <4>1, FS_RemoveElement
      <4> HIDE DEF R
      <4>3. Cardinality(R \union {t}) = Cardinality(R) + 1
        BY <4>1, <4>2, FS_AddElement
      <4> QED
        BY <2>3, <4>1, <4>2, <4>3
    <3>3. CASE s.blob # o
      <4>1. OpenStreams(o)' = OpenStreams(o)
        BY <3>3 DEF OpenStreams
      <4> QED
        BY <4>1
    <3> QED
      BY <3>1, <3>2, <3>3
  <2> QED
    BY <2>1, <2>3, <2>4
<1> HIDE DEF k
<1> QED
  BY <1>1, <1>2, CoreStreams

\* delete_blob_stream
LEMMA CoreCloseRead ==
    ASSUME Core, step = "param", step' = "param", SameSlots, UNCHANGED arrays,
           IsFiniteSet(streams), NEW s \in streams, s.blob \in DOMAIN blobs,
           DeleteBlobStream(s, 0)
    PROVE  /\ Core' /\ streams' = streams \ {s}
           /\ \A t \in streams' : t.blob \in DOMAIN blobs => t.blob \in DOMAIN blobs'
<1>1. streams' = streams \ {s} /\ DropRefs(s.blob, 1)
  <2>1. streams' = streams \ {s} /\ DropRefs(s.blob, 0 + 1)
    BY DEF DeleteBlobStream
  <2> QED
    BY <2>1
<1>2. IsFiniteSet(streams')
  BY <1>1, FS_RemoveElement
<1>3. ASSUME NEW o \in DOMAIN blobs
      PROVE  Count(o)' + Cardinality(OpenStreams(o)')
               = Count(o) + Cardinality(OpenStreams(o)) - (IF o = s.blob THEN 1 ELSE 0)
  <2>1. Count(o)' = Count(o) /\ Count(o) \in Nat
    BY SlotsSame, CountNat
  <2>2. OpenStreams(o) \in SUBSET streams
    BY DEF OpenStreams
  <2>3. IsFiniteSet(OpenStreams(o)) /\ Cardinality(OpenStreams(o)) \in Nat
    BY <2>2, FS_Subset, FS_CardinalityType
  <2>4. CASE o = s.blob
    <3>1. OpenStreams(o)' = OpenStreams(o) \ {s} /\ s \in OpenStreams(o)
      BY <1>1, <2>4 DEF OpenStreams
    <3>2. Cardinality(OpenStreams(o) \ {s}) = Cardinality(OpenStreams(o)) - 1
      BY <2>3, <3>1, FS_RemoveElement
    <3> QED
      BY <2>1, <2>3, <2>4, <3>1, <3>2
  <2>5. CASE o # s.blob
    <3>1. OpenStreams(o)' = OpenStreams(o)
      BY <1>1, <2>5 DEF OpenStreams
    <3> QED
      BY <2>1, <2>3, <2>5, <3>1
  <2> QED
    BY <2>4, <2>5
<1>4. /\ \A f \in Frames : \A n : IsSet(f, n)' => IsSet(f, n)
      /\ \A o : IsName(o)' = IsName(o) /\ ObjType(o)' = ObjType(o)
      /\ \A a \in DOMAIN arrays : Count(a)' = Count(a)
  BY SlotsSame
<1> DEFINE b == s.blob
<1>5. b \in DOMAIN blobs /\ DropRefs(b, 1)
  BY <1>1
<1>6. ASSUME NEW o \in DOMAIN blobs
      PROVE  Count(o)' + Cardinality(OpenStreams(o)')
               = Count(o) + Cardinality(OpenStreams(o)) - (IF o = b THEN 1 ELSE 0)
  BY <1>3
<1> HIDE DEF b
<1>7. Core' /\ \A t \in streams' : t.blob \in DOMAIN blobs => t.blob \in DOMAIN blobs'
  BY <1>2, <1>4, <1>5, <1>6, CoreDecRef
<1> QED
  BY <1>1, <1>7

(***************************************************************************)
(* The arguments of the application                                        *)
(***************************************************************************)

LEMMA MaxFacts ==
    ASSUME NEW N \in Nat, NEW S \in SUBSET (0 .. N), S # {}
    PROVE  Max(S) \in S /\ \A x \in S : x <= Max(S)
<1> DEFINE R == {N - x : x \in S}
<1>1. R \in SUBSET Nat /\ R # {}
  <2>1. \A x \in S : N - x \in Nat
    OBVIOUS
  <2> QED
    BY <2>1
<1>2. PICK r \in R : \A q \in R : r <= q
  BY <1>1, LeastElement
<1>3. PICK m \in S : r = N - m
  OBVIOUS
<1>4. ASSUME NEW x \in S PROVE m >= x
  BY <1>2, <1>3
<1>5. Max(S) \in S /\ \A x \in S : Max(S) >= x
  BY <1>4 DEF Max
<1> QED
  BY <1>5

LEMMA ArgumentTypes ==
    ASSUME NEW id \in 0 .. Len(Methods) - 1, NEW v \in Arguments[id + 1],
           NEW n \in DOMAIN Methods[id + 1].request
    PROVE  HasType(Methods[id + 1].request[n], v[n])
<1>1. id + 1 \in DOMAIN Methods
  BY RpcCallAssumption
<1> QED
  BY <1>1, ValuesAssumption

\* nothing exists before the call
LEMMA IdleFacts ==
    ASSUME CallInv, phase = "idle"
    PROVE  /\ DOMAIN arrays = {} /\ DOMAIN blobs = {} /\ streams = {} /\ remaining = {}
           /\ step = "param" /\ \A f \in Frames : \A n : ~IsSet(f, n)
<1>1. step = "param"
  BY DEF CallInv, NewBlob, Filled
<1>2. streams = {}
  BY <1>1 DEF CallInv, BlobStreams
<1>3. remaining = {} /\ \A f \in Frames : DOMAIN slots[f] = {}
  BY DEF CallInv, Variables, Empty
<1>4. \A f \in Frames : \A n : ~IsSet(f, n)
  BY <1>3 DEF IsSet
<1>5. ASSUME NEW o, o[1] \in Owners PROVE Count(o) = 0
  <2>1. o[1] \in Frames /\ "returned" \in Frames
    BY <1>5 DEF Owners, Frames
  <2>2. ~IsSet(o[1], o[2]) /\ ~IsSet("returned", o[2])
    BY <1>4, <2>1
  <2> QED
    BY <2>2 DEF Count
<1>6. ASSUME NEW a \in DOMAIN arrays PROVE FALSE
  <2>1. a[1] \in Owners /\ Count(a) > 0
    BY DEF CallInv, Objects, IsName, RefsOK
  <2> QED
    BY <1>5, <2>1
<1>7. ASSUME NEW b \in DOMAIN blobs PROVE FALSE
  <2>1. b[1] \in Owners
    BY DEF CallInv, Objects, IsName
  <2>2. Count(b) = 0 /\ ~Filling(b) /\ OpenStreams(b) = {}
    BY <1>1, <1>2, <1>5, <2>1 DEF Filling, OpenStreams
  <2>3. /\ blobs[b].ref_cnt = Count(b) + Cardinality(OpenStreams(b)) + (IF Filling(b) THEN 1 ELSE 0)
        /\ blobs[b].ref_cnt > 0
    BY DEF CallInv, RefsOK
  <2>4. Cardinality(OpenStreams(b)) = 0
    BY <2>2, FS_EmptySet
  <2> QED
    BY <2>2, <2>3, <2>4
<1> QED
  BY <1>1, <1>2, <1>3, <1>4, <1>6, <1>7

\* the arguments of a call and what they point to
ParamsOf(id, ts) ==
    {n \in DOMAIN Methods[id + 1].request : Methods[id + 1].request[n] \in ts}
ArgSlots(id, v) == [n \in DOMAIN Methods[id + 1].request |->
    IF IsPtr(Methods[id + 1].request[n]) THEN "set" ELSE v[n]]
ArgArrays(id, v) == [a \in {"args"} \X ParamsOf(id, {"char_array", "wchar_array"}) |->
    [value |-> v[a[2]], ref_cnt |-> 1]]
ArgBlobs(id, v) == [b \in {"args"} \X ParamsOf(id, {"blob"}) |->
    [file_path |-> b[2], len |-> Len(v[b[2]]), state |-> "COMPLETE", ref_cnt |-> 1]]
ArgFiles(id, v) == [n \in ParamsOf(id, {"blob"}) |-> v[n]]

LEMMA CoreCall ==
    ASSUME CallInv, phase = "idle", NEW id \in 0 .. Len(Methods) - 1,
           NEW v \in Arguments[id + 1], NEW types, types = Methods[id + 1].request,
           method_id' = id, UNCHANGED <<served_id, step, streams, remaining>>,
           slots' = [slots EXCEPT !["args"] = ArgSlots(id, v)],
           arrays' = ArgArrays(id, v), blobs' = ArgBlobs(id, v),
           files' = Max({0} \union ParamsOf(id, {"blob"})), disk' = ArgFiles(id, v)
    PROVE  /\ Core' /\ DOMAIN slots'["args"] = DOMAIN types /\ TypesOf("args")' = types
           /\ \A n \in DOMAIN types : /\ IsPtr(types[n]) => IsSet("args", n)'
                                      /\ ~IsPtr(types[n]) => slots'["args"][n] = v[n]
<1> DEFINE As == {n \in DOMAIN types : types[n] \in {"char_array", "wchar_array"}}
           Bs == {n \in DOMAIN types : types[n] \in {"blob"}}
<1>args. /\ slots' = [slots EXCEPT !["args"] =
             [n \in DOMAIN types |-> IF IsPtr(types[n]) THEN "set" ELSE v[n]]]
       /\ arrays' = [a \in {"args"} \X As |-> [value |-> v[a[2]], ref_cnt |-> 1]]
       /\ blobs' = [b \in {"args"} \X Bs |->
             [file_path |-> b[2], len |-> Len(v[b[2]]), state |-> "COMPLETE", ref_cnt |-> 1]]
       /\ files' = Max({0} \union Bs) /\ disk' = [n \in Bs |-> v[n]]
  BY DEF ArgSlots, ArgArrays, ArgBlobs, ArgFiles, ParamsOf
<1>params. /\ As = {n \in DOMAIN types : types[n] \in {"char_array", "wchar_array"}}
       /\ Bs = {n \in DOMAIN types : types[n] \in {"blob"}}
  OBVIOUS
<1> HIDE DEF As, Bs
<1>1. types \in Seq(ParamTypes) /\ DOMAIN types = 1 .. Len(types) /\ Len(types) \in Nat
  BY MethodTypes
<1>2. /\ streams' = {} /\ remaining' = {} /\ step' = "param"
      /\ \A f \in Frames : \A n : ~IsSet(f, n)
  BY IdleFacts
<1>3. "args" \in Frames /\ DOMAIN slots = Frames /\ \A f \in Frames : DOMAIN slots[f] = {}
  BY DEF Frames, CallInv, Variables, Empty
<1>4. TypesOf("args")' = types
  BY DEF TypesOf
<1>5. /\ DOMAIN slots'["args"] = DOMAIN types
      /\ \A n \in DOMAIN types : slots'["args"][n] = IF IsPtr(types[n]) THEN "set" ELSE v[n]
      /\ \A f \in Frames : f # "args" => slots'[f] = slots[f]
  BY <1>3, <1>args
<1>6. ASSUME NEW n
      PROVE  IsSet("args", n)' <=> n \in DOMAIN types /\ IsPtr(types[n])
  BY <1>4, <1>5 DEF IsSet
<1>7. ASSUME NEW f \in Frames, NEW n, f # "args"
      PROVE  ~IsSet(f, n)'
  BY <1>3, <1>5, <1>7 DEF IsSet
<1>8. ASSUME NEW n \in DOMAIN types, IsPtr(types[n])
      PROVE  Count(<<"args", n>>)' = 1
  <2>1. "args" # "received" /\ <<"args", n>>[1] = "args" /\ <<"args", n>>[2] = n
    OBVIOUS
  <2> QED
    BY <1>6, <1>8, <2>1 DEF Count
<1>9. ASSUME NEW n \in DOMAIN types
      PROVE  IsName(<<"args", n>>)' /\ ObjType(<<"args", n>>)' = types[n]
  BY <1>4 DEF IsName, ObjType, Owners
<1>10. ASSUME NEW a \in DOMAIN arrays'
       PROVE  \E n \in DOMAIN types : /\ a = <<"args", n>> /\ types[n] \in ArrayTypes
                                      /\ arrays'[a] = [value |-> v[n], ref_cnt |-> 1]
  BY <1>args, <1>params DEF ArrayTypes
<1>11. ASSUME NEW b \in DOMAIN blobs'
       PROVE  \E n \in Bs : /\ b = <<"args", n>>
                            /\ blobs'[b] = [file_path |-> n, len |-> Len(v[n]),
                                            state |-> "COMPLETE", ref_cnt |-> 1]
  BY <1>args
<1>12. Bs \in SUBSET (1 .. Len(types)) /\ \A n \in Bs : types[n] = "blob" /\ n \in DOMAIN types
  BY <1>1, <1>params
<1>13. files' \in Nat /\ \A n \in Bs : n \in 1 .. files'
  <2> DEFINE S == {0} \union Bs
  <2>1. S \in SUBSET (0 .. Len(types)) /\ S # {}
    BY <1>1, <1>12
  <2>2. Max(S) \in S /\ \A x \in S : x <= Max(S)
    BY <1>1, <2>1, MaxFacts
  <2>3. files' = Max(S) /\ Bs \subseteq S
    BY <1>args
  <2> HIDE DEF S
  <2>4. Max(S) \in 0 .. Len(types)
    BY <2>1, <2>2
  <2>5. \A n \in Bs : n \in 1 .. Len(types) /\ n <= Max(S)
    BY <1>12, <2>2, <2>3
  <2>6. Max(S) \in Nat
    BY <1>1, <2>4
  <2>7. \A n \in Bs : n \in 1 .. Max(S)
    BY <1>1, <2>5, <2>6
  <2> QED
    BY <2>3, <2>6, <2>7
<1>14. ASSUME NEW n \in Bs
       PROVE  v[n] \in Seq(Bytes) /\ Len(v[n]) \in 0 .. 2^(WordBits - 1) - 1
  <2>1. HasType("blob", v[n])
    <3>1. n \in DOMAIN types /\ types[n] = "blob"
      BY <1>12
    <3>2. HasType(types[n], v[n])
      BY <3>1, ArgumentTypes
    <3> QED
      BY <3>1, <3>2
  <2>2. v[n] \in Seq(Bytes) /\ Len(v[n]) < 2^(WordBits - 1)
    BY <2>1 DEF HasType
  <2>3. Len(v[n]) \in Nat
    BY <2>2
  <2> QED
    BY <2>2, <2>3, Limits
<1>15. DOMAIN disk' = Bs /\ \A n \in Bs : disk'[n] = v[n]
  BY <1>args
<1>16. \A n \in Bs : <<"args", n>> \in DOMAIN blobs'
  BY <1>args
<1>17. Objects'
  <2>1. ASSUME NEW a \in DOMAIN arrays'
        PROVE  /\ IsName(a)' /\ ObjType(a)' \in ArrayTypes
               /\ DOMAIN arrays'[a] = {"value", "ref_cnt"}
               /\ HasType(ObjType(a)', arrays'[a].value)
    <3>1. PICK n \in DOMAIN types : /\ a = <<"args", n>> /\ types[n] \in ArrayTypes
                                    /\ arrays'[a] = [value |-> v[n], ref_cnt |-> 1]
      BY <1>10
    <3>2. HasType(types[n], v[n])
      BY ArgumentTypes
    <3>3. arrays'[a].value = v[n] /\ DOMAIN arrays'[a] = {"value", "ref_cnt"}
      BY <3>1
    <3>4. IsName(a)' /\ ObjType(a)' = types[n]
      BY <1>9, <3>1
    <3> QED
      BY <3>1, <3>2, <3>3, <3>4
  <2>2. ASSUME NEW b \in DOMAIN blobs'
        PROVE  IsName(b)' /\ ObjType(b)' = "blob" /\ blobs'[b].state = "COMPLETE"
    <3>1. PICK n \in Bs : /\ b = <<"args", n>>
                          /\ blobs'[b] = [file_path |-> n, len |-> Len(v[n]),
                                          state |-> "COMPLETE", ref_cnt |-> 1]
      BY <1>11
    <3>2. IsName(b)' /\ ObjType(b)' = types[n] /\ types[n] = "blob"
      BY <1>9, <1>12, <3>1
    <3> QED
      BY <3>1, <3>2
  <2> QED
    BY <2>1, <2>2 DEF Objects
<1>18. Files'
  <2>1. ASSUME NEW b \in DOMAIN blobs'
        PROVE  /\ blobs'[b] \in BlobType' /\ blobs'[b].file_path \notin remaining'
               /\ blobs'[b].file_path \in Bs /\ b = <<"args", blobs'[b].file_path>>
               /\ blobs'[b].state = "COMPLETE"
               /\ blobs'[b].len = Len(v[blobs'[b].file_path])
    <3>1. PICK n \in Bs : /\ b = <<"args", n>>
                          /\ blobs'[b] = [file_path |-> n, len |-> Len(v[n]),
                                          state |-> "COMPLETE", ref_cnt |-> 1]
      BY <1>11
    <3>2. n \in 1 .. files' /\ Len(v[n]) \in 0 .. 2^(WordBits - 1) - 1
      BY <1>13, <1>14
    <3>3. blobs'[b] \in BlobType'
      BY <3>1, <3>2 DEF BlobType
    <3> QED
      BY <1>2, <3>1, <3>3
  <2>2. ASSUME NEW n \in Bs
        PROVE  blobs'[<<"args", n>>].file_path = n
    BY <1>args
  <2>3. FilesMatchBlobs'
    <3>1. ASSUME NEW p
          PROVE  p \in DOMAIN disk' <=>
             \/ p \in remaining'
             \/ \E b \in DOMAIN blobs' : blobs'[b].state # "EMPTY" /\ blobs'[b].file_path = p
      <4>1. p \in DOMAIN disk' =>
              \E b \in DOMAIN blobs' : blobs'[b].state # "EMPTY" /\ blobs'[b].file_path = p
        <5>1. SUFFICES ASSUME p \in Bs
              PROVE \E b \in DOMAIN blobs' : blobs'[b].state # "EMPTY" /\ blobs'[b].file_path = p
          BY <1>15
        <5>2. <<"args", p>> \in DOMAIN blobs' /\ blobs'[<<"args", p>>].file_path = p
          BY <1>16, <2>2, <5>1
        <5>3. blobs'[<<"args", p>>].state = "COMPLETE"
          BY <2>1, <5>2
        <5> QED
          BY <5>2, <5>3
      <4>2. ASSUME NEW b \in DOMAIN blobs', blobs'[b].file_path = p
            PROVE  p \in DOMAIN disk'
        BY <1>15, <2>1, <4>2
      <4> QED
        BY <1>2, <4>1, <4>2
    <3>2. \A a, b \in DOMAIN blobs' : blobs'[a].file_path = blobs'[b].file_path => a = b
      <4>1. \A b \in DOMAIN blobs' : b = <<"args", blobs'[b].file_path>>
        BY <2>1
      <4> QED
        BY <4>1
    <3>3. ASSUME NEW b \in DOMAIN blobs', blobs'[b].state = "COMPLETE"
          PROVE  Len(disk'[blobs'[b].file_path]) = blobs'[b].len
      BY <1>15, <2>1
    <3> QED
      BY <3>1, <3>2, <3>3, MatchFormNext
  <2>4. DOMAIN disk' \subseteq 1 .. files' /\ \A p \in DOMAIN disk' : disk'[p] \in Seq(Bytes)
    BY <1>13, <1>14, <1>15
  <2>5. \A b \in DOMAIN blobs' : blobs'[b] \in BlobType' /\ Path(b)' \notin remaining'
    BY <2>1 DEF Path
  <2> QED
    BY <1>13, <2>3, <2>4, <2>5 DEF Files
<1>19. RefsOK'
  <2>1. ASSUME NEW b \in DOMAIN blobs'
        PROVE  /\ blobs'[b].ref_cnt = Count(b)' + Cardinality(OpenStreams(b)')
                                          + (IF Filling(b)' THEN 1 ELSE 0)
               /\ blobs'[b].ref_cnt > 0
    <3>1. PICK n \in Bs : /\ b = <<"args", n>>
                          /\ blobs'[b] = [file_path |-> n, len |-> Len(v[n]),
                                          state |-> "COMPLETE", ref_cnt |-> 1]
      BY <1>11
    <3>2. IsPtr(types[n]) /\ n \in DOMAIN types
      BY <1>12 DEF IsPtr
    <3>3. Count(b)' = 1
      BY <1>8, <3>1, <3>2
    <3>4. ~Filling(b)' /\ OpenStreams(b)' = {}
      BY <1>2 DEF Filling, OpenStreams
    <3>5. Cardinality(OpenStreams(b)') = 0
      BY <3>4, FS_EmptySet
    <3>6. blobs'[b].ref_cnt = 1
      BY <3>1
    <3> QED
      BY <3>3, <3>4, <3>5, <3>6
  <2>2. ASSUME NEW a \in DOMAIN arrays'
        PROVE  arrays'[a].ref_cnt = Count(a)' /\ Count(a)' > 0
    <3>1. PICK n \in DOMAIN types : /\ a = <<"args", n>> /\ types[n] \in ArrayTypes
                                    /\ arrays'[a] = [value |-> v[n], ref_cnt |-> 1]
      BY <1>10
    <3>2. IsPtr(types[n])
      BY <3>1 DEF IsPtr, ArrayTypes
    <3>3. Count(a)' = 1
      BY <1>8, <3>1, <3>2
    <3>4. arrays'[a].ref_cnt = 1
      BY <3>1
    <3> QED
      BY <3>3, <3>4
  <2>3. ASSUME NEW f \in Frames, NEW n, IsSet(f, n)'
        PROVE  <<Owner(f), n>> \in DOMAIN arrays' \union DOMAIN blobs'
    <3>1. f = "args" /\ n \in DOMAIN types /\ IsPtr(types[n]) /\ Owner(f) = "args"
      BY <1>6, <1>7, <2>3 DEF Owner
    <3>2. n \in As \/ n \in Bs
      BY <1>params, <3>1 DEF IsPtr
    <3>3. DOMAIN arrays' = {"args"} \X As /\ DOMAIN blobs' = {"args"} \X Bs
      BY <1>args
    <3> QED
      BY <3>1, <3>2, <3>3
  <2> QED
    BY <2>1, <2>2, <2>3 DEF RefsOK
<1> QED
  BY <1>4, <1>5, <1>6, <1>17, <1>18, <1>19 DEF Core

(***************************************************************************)
(* The steps between the functions, which leave the objects alone          *)
(***************************************************************************)

\* no blob is being filled and no stream is open
LEMMA NoStreams ==
    ASSUME step' = "param", streams' = {}
    PROVE  BlobStreams' /\ NewBlob'
<1>1. IsFiniteSet({})
  BY FS_EmptySet
<1>2. IsFiniteSet(streams')
  BY <1>1
<1> QED
  BY <1>2 DEF BlobStreams, NewBlob

LEMMA ParamFacts ==
    ASSUME CallInv, step = "param", phase # "returned"
    PROVE  streams = {}
BY DEF CallInv, BlobStreams

LEMMA CoreSame ==
    ASSUME CallInv, step = "param", step' = "param", SameSlots, UNCHANGED <<blobVars, arrays>>
    PROVE  Core'
<1>1. Core /\ \A o \in DOMAIN arrays \union DOMAIN blobs : IsName(o)
  BY DEF CallInv, Core, Objects
<1>2. /\ \A f \in Frames : \A n : IsSet(f, n)' = IsSet(f, n)
      /\ \A o \in DOMAIN arrays \union DOMAIN blobs : IsName(o)' /\ ObjType(o)' = ObjType(o)
  BY <1>1, SlotsSame
<1> QED
  BY <1>1, <1>2, CoreQuiet DEF blobVars

LEMMA FramesSame ==
    ASSUME SameSlots
    PROVE  /\ \A f : Full(f)' = Full(f)
           /\ \A fs : Empty(fs)' = Empty(fs)
           /\ Variables =>
                /\ DOMAIN slots' = Frames
                /\ \A f \in Frames : DOMAIN slots'[f] = {} \/ Full(f)'
                /\ \A f \in Frames : \A n \in DOMAIN slots'[f] :
                     ~IsPtr(TypesOf(f)'[n]) => HasType(TypesOf(f)'[n], slots'[f][n])
<1>1. \A f : TypesOf(f)' = TypesOf(f)
  BY SlotsSame
<1>2. slots' = slots
  BY DEF SameSlots
<1>3. \A f : Full(f)' = Full(f)
  BY <1>1, <1>2 DEF Full
<1>4. \A fs : Empty(fs)' = Empty(fs)
  BY <1>2 DEF Empty
<1>5. Variables =>
        /\ DOMAIN slots' = Frames
        /\ \A f \in Frames : DOMAIN slots'[f] = {} \/ Full(f)'
        /\ \A f \in Frames : \A n \in DOMAIN slots'[f] :
             ~IsPtr(TypesOf(f)'[n]) => HasType(TypesOf(f)'[n], slots'[f][n])
  BY <1>1, <1>2, <1>3 DEF Variables
<1> QED
  BY <1>3, <1>4, <1>5

\* from one function to the next, or one parameter further
Onwards(p, q) ==
    \/ p = "idle" /\ q = "read_method_id"
    \/ p = "create_stream" /\ q \in {"write_request", "end_method"}
    \/ p = "write_request" /\ q \in {"write_request", "read_method_id", "end_method"}
    \/ p = "read_method_id" /\ q = "read_method_id"
    \/ p = "read_request" /\ q \in {"read_request", "service", "end_handler"}
    \/ p = "service" /\ q = "write_response"
    \/ p = "write_response" /\ q \in {"write_response", "end_handler"}
    \/ p = "read_response" /\ q \in {"read_response", "end_method"}

LEMMA OnwardsVariables ==
    ASSUME Variables, SameSlots, Onwards(phase, phase')
    PROVE  Variables'
<1>1. /\ \A f : Full(f)' = Full(f)
      /\ \A fs : Empty(fs)' = Empty(fs)
      /\ DOMAIN slots' = Frames
      /\ \A f \in Frames : DOMAIN slots'[f] = {} \/ Full(f)'
      /\ \A f \in Frames : \A n \in DOMAIN slots'[f] :
           ~IsPtr(TypesOf(f)'[n]) => HasType(TypesOf(f)'[n], slots'[f][n])
  BY FramesSame
<1>2. phase' # "idle"
  BY DEF Onwards
<1>3. phase' \in {"create_stream", "write_request", "read_method_id"} => Empty(Frames \ {"args"})
  <2>1. Empty(Frames) => Empty(Frames \ {"args"})
    BY DEF Empty
  <2> QED
    BY <2>1 DEF Onwards, Variables
<1>4. phase' \in {"create_stream", "write_request"} => Full("args")
  BY DEF Onwards, Variables
<1>5. phase' \in {"read_request", "service", "write_response", "end_handler"} =>
         Empty({"received", "returned"}) /\ Full("request") /\ Full("response")
  BY DEF Onwards, Variables
<1>6. phase' = "read_response" => Empty({"returned"}) /\ Full("received")
  BY DEF Onwards, Variables
<1> QED
  BY <1>1, <1>2, <1>3, <1>4, <1>5, <1>6 DEF Variables

LEMMA OnwardsPointing ==
    ASSUME CallInv, SameSlots, Onwards(phase, phase'), i' \in Nat,
           phase' = phase => i' >= i, phase' = "service" => i' = 1,
           phase = "service" => i > Len(TypesOf("response"))
    PROVE  Pointing'
<1>1. slots' = slots /\ \A f : TypesOf(f)' = TypesOf(f)
  BY SlotsSame DEF SameSlots
<1>2. \A f, n : IsSet(f, n)' = IsSet(f, n)
  BY SlotsSame
<1>3. i \in Nat /\ \A f \in Frames : \A n \in DOMAIN slots[f] : n \in Nat \ {0} /\ n <= Len(TypesOf(f))
  <2>1. Types
    BY DEF CallInv
  <2>2. ASSUME NEW f \in Frames, NEW n \in DOMAIN slots[f]
        PROVE  n \in Nat \ {0} /\ n <= Len(TypesOf(f))
    <3>1. n \in DOMAIN TypesOf(f)
      BY DEF CallInv, Variables, Full
    <3>2. DOMAIN TypesOf(f) = 1 .. Len(TypesOf(f)) /\ Len(TypesOf(f)) \in Nat
      BY <2>1, TypesOfType
    <3> QED
      BY <3>1, <3>2
  <2> QED
    BY <2>1, <2>2 DEF Types
<1>4. phase' \in Filled => \A n \in DOMAIN slots[Reading'] : n >= i' => ~IsSet(Reading', n)
  <2>1. CASE phase' = phase /\ phase \in Filled
    <3>1. Reading' = Reading /\ Reading \in Frames
      BY <2>1 DEF Reading, Frames
    <3>2. ASSUME NEW n \in DOMAIN slots[Reading], n >= i'
          PROVE  n >= i
      BY <1>3, <2>1, <3>1, <3>2
    <3> QED
      BY <2>1, <3>1, <3>2 DEF CallInv, Pointing
  <2>2. CASE phase = "read_request" /\ phase' = "service"
    <3>1. Reading' = "response"
      BY <2>2 DEF Reading
    <3> QED
      BY <2>2, <3>1 DEF CallInv, Pointing
  <2>3. CASE phase' \notin Filled
    BY <2>3
  <2> QED
    BY <2>1, <2>2, <2>3 DEF Onwards, Filled
<1>5. phase' = "read_request" => \A n \in DOMAIN slots["response"] : ~IsSet("response", n)
  BY DEF Onwards, CallInv, Pointing
<1>6. phase' \in {"create_stream", "write_request"} =>
         \A n \in DOMAIN slots["args"] : IsPtr(TypesOf("args")[n]) => IsSet("args", n)
  BY DEF Onwards, CallInv, Pointing
<1>7. phase' = "service" =>
         \A n \in DOMAIN slots["response"] :
            n < i' /\ IsPtr(TypesOf("response")[n]) => IsSet("response", n)
  <2>1. "response" \in Frames
    BY DEF Frames
  <2> QED
    BY <1>3, <2>1
<1>8. phase' = "write_response" =>
         \A n \in DOMAIN slots["response"] :
            IsPtr(TypesOf("response")[n]) => IsSet("response", n)
  <2>1. CASE phase = "service"
    <3>1. "response" \in Frames /\ Len(TypesOf("response")) \in Nat
      BY TypesOfType DEF Frames, CallInv
    <3>2. \A n \in DOMAIN slots["response"] : n < i
      BY <1>3, <2>1, <3>1
    <3> QED
      BY <2>1, <3>2 DEF CallInv, Pointing
  <2>2. CASE phase # "service"
    BY <2>2 DEF Onwards, CallInv, Pointing
  <2> QED
    BY <2>1, <2>2
<1> QED
  BY <1>1, <1>2, <1>4, <1>5, <1>6, <1>7, <1>8 DEF Pointing

LEMMA OnwardsStep ==
    ASSUME CallInv, step = "param", step' = "param", SameSlots, UNCHANGED <<blobVars, arrays, answer>>,
           Onwards(phase, phase'), i' \in Nat \ {0}, wire' \in Seq(Bytes),
           phase' = phase => i' >= i, phase' = "service" => i' = 1,
           phase = "service" => i > Len(TypesOf("response"))
    PROVE  CallInv'
<1>1. Core'
  BY CoreSame
<1>2. phase # "returned" /\ phase' \in Phases
  BY DEF Onwards, Phases
<1>3. BlobStreams' /\ NewBlob'
  <2>1. streams' = {}
    BY <1>2, ParamFacts DEF blobVars
  <2> QED
    BY <2>1, NoStreams
<1>4. Types'
  BY <1>2 DEF CallInv, Types, SameSlots
<1>5. Variables'
  BY OnwardsVariables DEF CallInv
<1>6. Pointing'
  BY OnwardsPointing
<1>7. Answering'
  <2>1. phase' \in {"idle", "create_stream", "write_request", "read_method_id",
                    "read_request"} => answer' = <<>>
    BY DEF Onwards, CallInv, Answering
  <2>2. phase' = "service" => answer' \in Seq(Answers) /\ Len(answer') = i' - 1
    <3>1. phase' = "service" => answer' = <<>>
      BY DEF Onwards, CallInv, Answering
    <3> QED
      BY <3>1
  <2> QED
    BY <2>1, <2>2 DEF Answering
<1> QED
  BY <1>1, <1>3, <1>4, <1>5, <1>6, <1>7 DEF CallInv, Core

\* What a variable holds has the type of the variable.
LEMMA ValueTyped ==
    ASSUME CallInv, NEW f \in Frames, NEW n \in DOMAIN slots[f],
           IsPtr(TypesOf(f)[n]) => IsSet(f, n)
    PROVE  /\ HasType(TypesOf(f)[n], ValueOf(f, n))
           /\ TypesOf(f)[n] = "blob" => blobs[<<Owner(f), n>>].state = "COMPLETE"
<1> DEFINE type == TypesOf(f)[n]
           name == <<Owner(f), n>>
<1>1. type \in ParamTypes
  <2>1. n \in DOMAIN TypesOf(f)
    BY DEF CallInv, Variables, Full
  <2> QED
    BY <2>1, TypesOfType DEF CallInv
<1>2. CASE ~IsPtr(type)
  <2>1. type # "blob" /\ type \notin {"char_array", "wchar_array"}
    BY <1>2 DEF IsPtr
  <2>2. ValueOf(f, n) = slots[f][n]
    BY <2>1 DEF ValueOf
  <2> QED
    BY <1>2, <2>1, <2>2 DEF CallInv, Variables
<1>3. CASE IsPtr(type)
  <2>1. name \in DOMAIN arrays \union DOMAIN blobs
    BY <1>3 DEF CallInv, RefsOK
  <2>2. ObjType(name) = type
    BY DEF ObjType, Owner, TypesOf, Frames
  <2>3. Count(name) # 0
    <3>1. name[1] = Owner(f) /\ name[2] = n
      OBVIOUS
    <3>2. f = Owner(f) \/ (f = "returned" /\ Owner(f) = "received")
      BY DEF Owner
    <3> QED
      BY <1>3, <3>1, <3>2 DEF Count
  <2>4. CASE type = "blob"
    <3>1. name \in DOMAIN blobs
      BY <2>1, <2>2, <2>4 DEF CallInv, Objects, ArrayTypes
    <3>2. ~Filling(name)
      <4>1. SUFFICES ASSUME step # "param", name = Name PROVE FALSE
        BY DEF Filling
      <4> QED
        BY <2>3, <4>1, FillingFacts
    <3>3. blobs[name].state = "COMPLETE"
      BY <3>1, <3>2 DEF CallInv, Objects
    <3>4. /\ disk[Path(name)] \in Seq(Bytes) /\ Len(disk[Path(name)]) = blobs[name].len
      BY <3>1, <3>3, OwnFile DEF CallInv
    <3>5. blobs[name].len < 2^(WordBits - 1)
      <4>1. blobs[name].len \in 0 .. 2^(WordBits - 1) - 1
        BY <3>1 DEF CallInv, Files, BlobType
      <4> QED
        BY <4>1, Limits
    <3>6. ValueOf(f, n) = disk[Path(name)]
      BY <2>4 DEF ValueOf
    <3>7. HasType("blob", disk[Path(name)])
      BY <3>4, <3>5 DEF HasType
    <3> QED
      BY <2>4, <3>3, <3>6, <3>7
  <2>5. CASE type # "blob"
    <3>1. type \in {"char_array", "wchar_array"}
      BY <1>3, <2>5 DEF IsPtr
    <3>2. name \in DOMAIN arrays
      BY <2>1, <2>2, <2>5 DEF CallInv, Objects
    <3>3. HasType(type, arrays[name].value)
      BY <2>2, <3>2 DEF CallInv, Objects
    <3>4. ValueOf(f, n) = arrays[name].value
      BY <2>5, <3>1 DEF ValueOf
    <3> QED
      BY <2>5, <3>3, <3>4
  <2> QED
    BY <2>4, <2>5
<1> QED
  BY <1>2, <1>3

LEMMA StepParam ==
    ASSUME CallInv, phase \notin Filled
    PROVE  step = "param"
BY DEF CallInv, NewBlob

LEMMA OneByte ==
    /\ \A b \in Bytes : <<b>> \in Seq(Bytes)
    /\ 0 \in Bytes /\ \A id \in 0 .. Len(Methods) - 1 : id \in Bytes
<1>1. \A b \in Bytes : <<b>> \in Seq(Bytes)
  OBVIOUS
<1>2. Len(Methods) \in Bytes /\ Len(Methods) \in Nat
  BY RpcCallAssumption
<1>3. ContinueFlag \in Nat /\ ContinueFlag >= 1 /\ 2^OctetBits \in Nat /\ 2^OctetBits >= 1
  BY Limits, ExponentRange, Power
<1> QED
  BY <1>1, <1>2, <1>3 DEF Bytes

\* the functions that change neither variables nor objects
LEMMA SomeOnwards ==
    ASSUME CallInv, \/ WriteMethodId \/ WriteRequestFails \/ FlushRequest \/ CallService
                    \/ ServiceReturns \/ WriteEmptyByte \/ HandlerSucceeds \/ WriteResponseFails
                    \/ ReadEmptyByte \/ BytesLost \/ ForeignClient
    PROVE  CallInv'
<1> USE DEF SameSlots, callVars, Onwards
<1>1. i \in Nat \ {0} /\ i + 1 \in Nat \ {0} /\ wire \in Seq(Bytes) /\ 1 \in Nat \ {0}
  BY DEF CallInv, Types
<1>2. CASE WriteMethodId
  <2>1. /\ step = "param" /\ step' = "param" /\ i' = i
    BY <1>2, StepParam DEF WriteMethodId, Filled
  <2>2. wire' \in Seq(Bytes)
    BY <1>2, OneByte DEF WriteMethodId, CallInv, Types
  <2> QED
    BY <1>1, <1>2, <2>1, <2>2, OnwardsStep DEF WriteMethodId
<1>3. CASE WriteRequestFails
  <2>1. step = "param" /\ step' = "param" /\ i' = 1
    BY <1>3, StepParam DEF WriteRequestFails, EndMethod, Filled
  <2> QED
    BY <1>1, <1>3, <2>1, OnwardsStep DEF WriteRequestFails, EndMethod
<1>4. CASE FlushRequest
  <2>1. step = "param" /\ step' = "param" /\ i' = 1
    BY <1>4, StepParam DEF FlushRequest, Filled
  <2> QED
    BY <1>1, <1>4, <2>1, OnwardsStep DEF FlushRequest
<1>5. CASE CallService
  <2>1. step = "param"
    <3>1. phase = "read_request" /\ i > Len(TypesOf("request")) /\ Reading = "request"
      BY <1>5 DEF CallService, Reading
    <3>2. i \notin DOMAIN TypesOf(Reading)
      BY <1>1, <3>1, TypesOfType DEF CallInv, Frames
    <3> QED
      BY <3>2 DEF CallInv, NewBlob
  <2>2. wire' \in Seq(Bytes) /\ i' = 1 /\ step' = "param"
    BY <1>5, <2>1 DEF CallService
  <2> QED
    BY <1>1, <1>5, <2>1, <2>2, OnwardsStep DEF CallService
<1>6. CASE ServiceReturns
  <2>1. step = "param"
    <3>1. phase = "service" /\ i > Len(TypesOf("response")) /\ Reading = "response"
      BY <1>6 DEF ServiceReturns, Reading
    <3>2. i \notin DOMAIN TypesOf(Reading)
      BY <1>1, <3>1, TypesOfType DEF CallInv, Frames
    <3> QED
      BY <3>2 DEF CallInv, NewBlob
  <2>2. i' = 1 /\ step' = "param"
    BY <1>6, <2>1 DEF ServiceReturns
  <2> QED
    BY <1>1, <1>6, <2>1, <2>2, OnwardsStep DEF ServiceReturns
<1>7. CASE WriteEmptyByte
  <2>1. step = "param" /\ step' = "param" /\ i = 1 /\ i' = 2
    BY <1>7, StepParam DEF WriteEmptyByte, Filled
  <2>2. wire' \in Seq(Bytes)
    BY <1>7, OneByte DEF WriteEmptyByte
  <2> QED
    BY <1>1, <1>7, <2>1, <2>2, OnwardsStep DEF WriteEmptyByte
<1>8. CASE HandlerSucceeds
  <2>1. step = "param" /\ step' = "param" /\ i' = 1
    BY <1>8, StepParam DEF HandlerSucceeds, EndHandler, Filled
  <2> QED
    BY <1>1, <1>8, <2>1, OnwardsStep DEF HandlerSucceeds, EndHandler
<1>9. CASE WriteResponseFails
  <2>1. step = "param" /\ step' = "param" /\ i' = 1
    BY <1>9, StepParam DEF WriteResponseFails, EndHandler, Filled
  <2> QED
    BY <1>1, <1>9, <2>1, OnwardsStep DEF WriteResponseFails, EndHandler
<1>10. CASE ReadEmptyByte
  <2>1. step = "param"
    <3>1. phase = "read_response" /\ TypesOf(Reading) = <<>>
      BY <1>10 DEF ReadEmptyByte, Reading
    <3> QED
      BY <3>1 DEF CallInv, NewBlob
  <2>2. step' = "param" /\ i = 1 /\ i' = 2
    BY <1>10, <2>1 DEF ReadEmptyByte
  <2>3. wire' \in Seq(Bytes)
    BY <1>1, <1>10, HeadTailProperties DEF ReadEmptyByte
  <2> QED
    BY <1>1, <1>10, <2>1, <2>2, <2>3, OnwardsStep DEF ReadEmptyByte
<1>11. CASE BytesLost
  <2>1. step = "param" /\ step' = "param" /\ i' = i /\ phase \in {"read_method_id", "read_response"}
    BY <1>11 DEF BytesLost
  <2>2. wire' \in Seq(Bytes)
    <3>1. PICK n \in 0 .. Len(wire) - 1 : wire' = SubSeq(wire, 1, n)
      BY <1>11 DEF BytesLost
    <3> QED
      BY <1>1, <3>1
  <2> QED
    BY <1>1, <1>11, <2>1, <2>2, OnwardsStep DEF BytesLost
<1>12. CASE ForeignClient
  <2>1. step = "param" /\ step' = "param" /\ i' = i
    BY <1>12, StepParam DEF ForeignClient, Filled
  <2>2. wire' \in Seq(Bytes)
    <3>1. PICK n \in 0 .. MessageLength : wire' \in [1 .. n -> Bytes]
      BY <1>12 DEF ForeignClient, Messages
    <3>2. n \in Nat
      BY <3>1, RpcCallAssumption
    <3> QED
      BY <3>1, <3>2
  <2> QED
    BY <1>1, <1>12, <2>1, <2>2, OnwardsStep DEF ForeignClient
<1> QED
  BY <1>2, <1>3, <1>4, <1>5, <1>6, <1>7, <1>8, <1>9, <1>10, <1>11, <1>12

LEMMA WriteParamStep ==
    ASSUME CallInv, WriteParam
    PROVE  CallInv'
<1>1. /\ phase \in {"write_request", "write_response"} /\ i \in DOMAIN TypesOf(Writing)
      /\ wire' = wire \o Serialize(TypesOf(Writing)[i], ValueOf(Writing, i)) /\ i' = i + 1
      /\ SameSlots /\ UNCHANGED <<blobVars, phase, step, arrays, answer>>
  BY DEF WriteParam, SameSlots, callVars
<1>2. step = "param" /\ i \in Nat \ {0} /\ i + 1 \in Nat \ {0} /\ i + 1 >= i /\ wire \in Seq(Bytes)
  BY <1>1, StepParam DEF Filled, CallInv, Types
<1>3. Writing \in Frames /\ i \in DOMAIN slots[Writing]
  BY <1>1 DEF Writing, Frames, CallInv, Variables, Full
<1>4. IsPtr(TypesOf(Writing)[i]) => IsSet(Writing, i)
  BY <1>1, <1>3 DEF Writing, CallInv, Pointing
<1>5. TypesOf(Writing)[i] \in ParamTypes
  BY <1>1, <1>3, TypesOfType DEF CallInv
<1>6. Serialize(TypesOf(Writing)[i], ValueOf(Writing, i)) \in Seq(Bytes)
  BY <1>3, <1>4, <1>5, ValueTyped, SerializeType
<1>7. wire' \in Seq(Bytes)
  BY <1>1, <1>2, <1>6, ConcatProperties
<1>8. Onwards(phase, phase')
  BY <1>1 DEF Onwards
<1> QED
  BY <1>1, <1>2, <1>7, <1>8, OnwardsStep

LEMMA NegativeStep ==
    ASSUME CallInv, ReadNegativeLength
    PROVE  CallInv'
<1>1. /\ phase \in {"read_request", "read_response"} /\ step = "param" /\ i' = i + 1
      /\ Uint32Unserialize(wire).ok /\ wire' = Uint32Unserialize(wire).rest
      /\ SameSlots /\ UNCHANGED <<blobVars, phase, step, arrays, answer>>
  BY DEF ReadNegativeLength, IsReading, SameSlots, callVars
<1>2. i \in Nat \ {0} /\ i + 1 \in Nat \ {0} /\ i + 1 >= i /\ wire \in Seq(Bytes)
  BY DEF CallInv, Types
<1>3. wire' \in Seq(Bytes)
  BY <1>1, <1>2, Uint32UnserializeType DEF Returns
<1>4. Onwards(phase, phase')
  BY <1>1 DEF Onwards
<1> QED
  BY <1>1, <1>2, <1>3, <1>4, OnwardsStep

(***************************************************************************)
(* The steps that fill a parameter                                         *)
(***************************************************************************)

LEMMA SameVariables ==
    ASSUME CallInv, SameSlots, UNCHANGED <<phase, i>>, phase \in Filled
    PROVE  Variables' /\ Pointing'
<1>1. /\ \A f : Full(f)' = Full(f)
      /\ \A fs : Empty(fs)' = Empty(fs)
      /\ DOMAIN slots' = Frames
      /\ \A f \in Frames : DOMAIN slots'[f] = {} \/ Full(f)'
      /\ \A f \in Frames : \A n \in DOMAIN slots'[f] :
           ~IsPtr(TypesOf(f)'[n]) => HasType(TypesOf(f)'[n], slots'[f][n])
  BY FramesSame DEF CallInv
<1>2. phase' # "idle"
  BY DEF Filled
<1>3. Variables'
  BY <1>1, <1>2 DEF CallInv, Variables
<1>4. slots' = slots /\ (\A f : TypesOf(f)' = TypesOf(f)) /\ \A f, n : IsSet(f, n)' = IsSet(f, n)
  BY SlotsSame DEF SameSlots
<1>5. Reading' = Reading
  BY DEF Reading
<1>6. Pointing'
  BY <1>4, <1>5 DEF CallInv, Pointing
<1> QED
  BY <1>3, <1>6

LEMMA SlotSet ==
    ASSUME CallInv, phase \in Filled, i \in DOMAIN TypesOf(Reading), NEW v,
           slots' = [slots EXCEPT ![Reading][i] = v], i' = i + 1,
           UNCHANGED <<phase, method_id, served_id>>,
           IsPtr(Type) => v = "set", ~IsPtr(Type) => HasType(Type, v)
    PROVE  Variables' /\ Pointing'
<1>1. /\ Reading \in Frames /\ Full(Reading) /\ i \in DOMAIN slots[Reading]
      /\ Reading \in {"request", "received", "response"} /\ i \in Nat \ {0}
  BY FillFacts DEF Reading, CallInv, Types
<1>2. DOMAIN slots = Frames
  BY DEF CallInv, Variables
<1>3. \A f : TypesOf(f)' = TypesOf(f)
  BY DEF TypesOf
<1>4. /\ DOMAIN slots' = Frames
      /\ slots'[Reading] = [slots[Reading] EXCEPT ![i] = v]
      /\ \A f \in Frames : f # Reading => slots'[f] = slots[f]
  BY <1>1, <1>2
<1>5. \A f \in Frames : DOMAIN slots'[f] = DOMAIN slots[f]
  BY <1>4
<1>6. \A f \in Frames : Full(f)' = Full(f)
  BY <1>3, <1>5 DEF Full
<1>7. \A fs : fs \subseteq Frames => Empty(fs)' = Empty(fs)
  BY <1>5 DEF Empty
<1>8. ASSUME NEW f \in Frames, NEW n \in DOMAIN slots'[f], ~IsPtr(TypesOf(f)'[n])
      PROVE  HasType(TypesOf(f)'[n], slots'[f][n])
  <2>1. n \in DOMAIN slots[f] /\ ~IsPtr(TypesOf(f)[n])
    BY <1>3, <1>5, <1>8
  <2>2. CASE f = Reading /\ n = i
    <3>1. slots'[f][n] = v /\ TypesOf(f)[n] = Type
      BY <1>1, <1>4, <2>2 DEF Type
    <3> QED
      BY <1>3, <2>1, <3>1
  <2>3. CASE ~(f = Reading /\ n = i)
    <3>1. slots'[f][n] = slots[f][n]
      BY <1>4, <2>1, <2>3
    <3> QED
      BY <1>3, <2>1, <3>1 DEF CallInv, Variables
  <2> QED
    BY <2>2, <2>3
<1>9. Variables'
  <2>1. phase' = phase /\ phase \in Filled
    OBVIOUS
  <2>2. /\ "request" \in Frames /\ "response" \in Frames /\ "received" \in Frames
        /\ {"received", "returned"} \subseteq Frames /\ {"returned"} \subseteq Frames
    BY DEF Frames
  <2>3. phase \in {"read_request", "service"} =>
         Empty({"received", "returned"})' /\ Full("request")' /\ Full("response")'
    BY <1>6, <1>7, <2>2 DEF CallInv, Variables
  <2>4. phase = "read_response" => Empty({"returned"})' /\ Full("received")'
    BY <1>6, <1>7, <2>2 DEF CallInv, Variables
  <2>5. \A f \in Frames : DOMAIN slots'[f] = {} \/ Full(f)'
    BY <1>5, <1>6 DEF CallInv, Variables
  <2> QED
    BY <1>4, <1>8, <2>1, <2>3, <2>4, <2>5 DEF Variables, Filled
<1>10. ASSUME NEW f \in Frames, NEW n, ~(f = Reading /\ n = i)
       PROVE  IsSet(f, n)' = IsSet(f, n)
  <2>1. n \in DOMAIN slots[f] => slots'[f][n] = slots[f][n]
    BY <1>4, <1>10
  <2> QED
    BY <1>3, <1>5, <2>1 DEF IsSet
<1>11. ASSUME NEW f \in Frames, NEW n, f = Reading, n = i, IsPtr(Type)
       PROVE  IsSet(f, n)'
  <2>1. n \in DOMAIN slots'[f] /\ slots'[f][n] = "set" /\ IsPtr(TypesOf(f)'[n])
    BY <1>1, <1>3, <1>4, <1>11 DEF Type
  <2> QED
    BY <2>1 DEF IsSet
<1>12. Reading' = Reading
  BY DEF Reading
<1>13. ASSUME NEW f \in Frames, NEW n \in DOMAIN slots[f] PROVE n \in Nat
  <2>1. n \in DOMAIN TypesOf(f)
    BY DEF CallInv, Variables, Full
  <2>2. DOMAIN TypesOf(f) = 1 .. Len(TypesOf(f)) /\ Len(TypesOf(f)) \in Nat
    BY TypesOfType DEF CallInv
  <2> QED
    BY <2>1, <2>2
<1>14. ASSUME NEW f \in Frames, f = Reading, NEW n \in DOMAIN slots'[f], n >= i'
       PROVE  ~IsSet(f, n)'
  <2>1. n \in DOMAIN slots[f] /\ n \in Nat
    BY <1>5, <1>13
  <2>2. n >= i /\ n # i
    BY <1>1, <1>14, <2>1
  <2>3. IsSet(f, n)' = IsSet(f, n)
    BY <1>10, <1>14, <2>2
  <2> QED
    BY <1>14, <2>1, <2>2, <2>3 DEF CallInv, Pointing
<1>15. phase = "read_request" => \A n \in DOMAIN slots'["response"] : ~IsSet("response", n)'
  <2>1. SUFFICES ASSUME phase = "read_request", NEW n \in DOMAIN slots'["response"]
                 PROVE  ~IsSet("response", n)'
    OBVIOUS
  <2>2. Reading = "request" /\ "response" \in Frames
    BY <2>1 DEF Reading, Frames
  <2>3. IsSet("response", n)' = IsSet("response", n) /\ n \in DOMAIN slots["response"]
    BY <1>5, <1>10, <2>2
  <2> QED
    BY <2>1, <2>3 DEF CallInv, Pointing
<1>16. ASSUME phase = "service", NEW n \in DOMAIN slots'["response"], n < i',
              IsPtr(TypesOf("response")'[n])
       PROVE  IsSet("response", n)'
  <2>1. Reading = "response" /\ "response" \in Frames
    BY <1>16 DEF Reading, Frames
  <2>2. n \in DOMAIN slots["response"] /\ n \in Nat /\ IsPtr(TypesOf("response")[n])
    BY <1>3, <1>5, <1>13, <1>16, <2>1
  <2>3. CASE n = i
    BY <1>11, <2>1, <2>2, <2>3 DEF Type
  <2>4. CASE n # i
    <3>1. n < i
      BY <1>1, <1>16, <2>2, <2>4
    <3>2. IsSet("response", n)
      BY <1>16, <2>2, <3>1 DEF CallInv, Pointing
    <3> QED
      BY <1>10, <2>1, <2>4, <3>2
  <2> QED
    BY <2>3, <2>4
<1>17. phase' \in Filled => \A n \in DOMAIN slots'[Reading'] : n >= i' => ~IsSet(Reading, n)'
  <2>1. PICK f \in Frames : f = Reading /\ f = Reading'
    BY <1>1, <1>12
  <2>2. \A n \in DOMAIN slots'[f] : n >= i' => ~IsSet(f, n)'
    BY <1>14, <2>1
  <2> QED
    BY <2>1, <2>2
<1>18. Pointing'
  BY <1>15, <1>16, <1>17 DEF Pointing, Filled
<1> QED
  BY <1>9, <1>18

\* the parameter is in its variable
LEMMA ParamSet ==
    ASSUME CallInv, step = "param", step' = "param", phase \in Filled,
           i \in DOMAIN TypesOf(Reading), Type # "blob", NEW v, HasType(Type, v),
           IF IsPtr(Type)
           THEN /\ SetSlot("set")
                /\ arrays' = With(arrays, Name, [value |-> v, ref_cnt |-> 1])
           ELSE SetSlot(v) /\ UNCHANGED arrays,
           UNCHANGED <<blobVars, phase, method_id, served_id>>
    PROVE  Core' /\ Variables' /\ Pointing' /\ BlobStreams' /\ NewBlob' /\ i' = i + 1
<1>1. streams' = {}
  BY ParamFacts DEF Filled, blobVars
<1>2. BlobStreams' /\ NewBlob'
  BY <1>1, NoStreams
<1>3. CASE IsPtr(Type)
  <2>1. Type \in ArrayTypes
    BY <1>3 DEF IsPtr, ArrayTypes
  <2>2. /\ slots' = [slots EXCEPT ![Reading][i] = "set"] /\ i' = i + 1
        /\ arrays' = With(arrays, Name, [value |-> v, ref_cnt |-> 1])
    BY <1>3 DEF SetSlot
  <2>3. Core'
    BY <2>1, <2>2, CoreSetArray
  <2>4. Variables' /\ Pointing'
    BY <1>3, <2>2, SlotSet
  <2> QED
    BY <1>2, <2>2, <2>3, <2>4
<1>4. CASE ~IsPtr(Type)
  <2>1. slots' = [slots EXCEPT ![Reading][i] = v] /\ i' = i + 1 /\ UNCHANGED arrays
    BY <1>4 DEF SetSlot
  <2>2. Core'
    BY <1>4, <2>1, CoreSetInt
  <2>3. Variables' /\ Pointing'
    BY <1>4, <2>1, SlotSet
  <2> QED
    BY <1>2, <2>1, <2>2, <2>3
<1> QED
  BY <1>3, <1>4

LEMMA ReadParamStep ==
    ASSUME CallInv, ReadParam
    PROVE  CallInv'
<1> DEFINE r == Unserialize(Type, wire)
<1>1. /\ phase \in {"read_request", "read_response"} /\ i \in DOMAIN TypesOf(Reading)
      /\ step = "param" /\ Type # "blob" /\ r.ok /\ wire' = r.rest
      /\ UNCHANGED <<blobVars, phase, step, method_id, served_id, answer>>
  BY DEF ReadParam, IsReading, callVars
<1>2. phase \in Filled /\ step' = "param"
  BY <1>1 DEF Filled
<1>3. wire \in Seq(Bytes) /\ Type \in ParamTypes \ {"blob"} /\ i \in Nat \ {0}
  <2>1. Reading \in Frames
    BY <1>1, <1>2, FillFacts
  <2> QED
    BY <1>1, <2>1, TypesOfType DEF CallInv, Types, Type
<1>4. HasType(Type, r.value) /\ r.rest \in Seq(Bytes)
  BY <1>1, <1>3, UnserializeType
<1>5. IF IsPtr(Type)
      THEN /\ SetSlot("set")
           /\ arrays' = With(arrays, Name, [value |-> r.value, ref_cnt |-> 1])
      ELSE SetSlot(r.value) /\ UNCHANGED arrays
  BY DEF ReadParam
<1> DEFINE v == r.value
<1>6. HasType(Type, v) /\ IF IsPtr(Type)
      THEN /\ SetSlot("set")
           /\ arrays' = With(arrays, Name, [value |-> v, ref_cnt |-> 1])
      ELSE SetSlot(v) /\ UNCHANGED arrays
  BY <1>4, <1>5
<1> HIDE DEF v, r
<1>7. Core' /\ Variables' /\ Pointing' /\ BlobStreams' /\ NewBlob' /\ i' = i + 1
  BY <1>1, <1>2, <1>6, ParamSet
<1>8. Types'
  BY <1>1, <1>2, <1>3, <1>4, <1>7 DEF CallInv, Types
<1>9. Answering'
  BY <1>1 DEF CallInv, Answering
<1> QED
  BY <1>7, <1>8, <1>9 DEF CallInv, Core

LEMMA ServiceSetsStep ==
    ASSUME CallInv, ServiceSets
    PROVE  CallInv'
<1>1. PICK v \in ValuesOf[Type] :
        /\ answer' = Append(answer, v)
        /\ IF IsPtr(Type)
           THEN /\ SetSlot("set")
                /\ arrays' = With(arrays, Name, [value |-> v, ref_cnt |-> 1])
           ELSE SetSlot(v) /\ UNCHANGED arrays
  BY DEF ServiceSets
<1>2. /\ phase = "service" /\ i \in DOMAIN TypesOf("response")
      /\ step = "param" /\ Type # "blob"
      /\ UNCHANGED <<blobVars, phase, step, wire, method_id, served_id>>
  BY DEF ServiceSets, InService
<1>3. phase \in Filled /\ step' = "param" /\ Reading = "response" /\ i \in DOMAIN TypesOf(Reading)
  BY <1>2 DEF Filled, Reading
<1>4. Type \in ParamTypes /\ HasType(Type, v) /\ i \in Nat \ {0}
  <2>1. Type = Methods[served_id + 1].response[i] /\ i \in DOMAIN Methods[served_id + 1].response
    BY <1>2, <1>3 DEF Type, TypesOf
  <2>2. served_id + 1 \in DOMAIN Methods
    BY RpcCallAssumption DEF CallInv, Types
  <2>3. HasType(Type, v)
    BY <1>1, <2>1, <2>2, ValuesAssumption
  <2>4. "response" \in Frames
    BY DEF Frames
  <2> QED
    BY <1>3, <2>3, <2>4, TypesOfType DEF CallInv, Types, Type
<1>5. Core' /\ Variables' /\ Pointing' /\ BlobStreams' /\ NewBlob' /\ i' = i + 1
  BY <1>1, <1>2, <1>3, <1>4, ParamSet
<1>6. Types'
  BY <1>2, <1>3, <1>4, <1>5 DEF CallInv, Types
<1>7. answer \in Seq(Answers) /\ Len(answer) = i - 1 /\ v \in Answers
  BY <1>1, <1>2, <1>4 DEF CallInv, Answering, Answers
<1>8. answer' \in Seq(Answers) /\ Len(answer') = i
  BY <1>1, <1>4, <1>7
<1>9. Answering'
  BY <1>2, <1>3, <1>4, <1>5, <1>8 DEF Answering
<1> QED
  BY <1>5, <1>6, <1>9 DEF CallInv, Core

\* The blob of a parameter has been created.
LEMMA BlobCreated ==
    ASSUME CallInv, step = "param", step' = "open", phase \in Filled,
           i \in DOMAIN TypesOf(Reading), Type = "blob",
           NEW len \in 0 .. 2^(WordBits - 1) - 1, CreateBlob(Name, len),
           SameSlots, UNCHANGED <<phase, i, arrays>>
    PROVE  /\ Core' /\ Variables' /\ Pointing' /\ BlobStreams' /\ NewBlob'
           /\ Name' = Name /\ blobs'[Name].len = len
<1>1. /\ Core' /\ Name' = Name /\ Reading' = Reading /\ Name \in DOMAIN blobs'
      /\ blobs'[Name].state = "EMPTY" /\ blobs'[Name].len = len /\ streams' = {}
  BY CoreCreate
<1>2. Variables' /\ Pointing'
  BY SameVariables
<1>3. phase' # "returned" /\ phase' \in Filled
  BY DEF Filled
<1>4. BlobStreams'
  BY <1>1, <1>3 DEF BlobStreams
<1>5. Type' = Type /\ i' \in DOMAIN TypesOf(Reading)'
  BY <1>1, SlotsSame DEF Type, SameSlots, TypesOf
<1>6. NewBlob'
  BY <1>1, <1>3, <1>5 DEF NewBlob
<1> QED
  BY <1>1, <1>2, <1>4, <1>6

LEMMA ReadLengthStep ==
    ASSUME CallInv, ReadLength
    PROVE  CallInv'
<1> DEFINE r == Uint32Unserialize(wire)
<1>1. /\ phase \in {"read_request", "read_response"} /\ i \in DOMAIN TypesOf(Reading)
      /\ step = "param" /\ step' = "open" /\ Type = "blob" /\ r.ok /\ ~IsNegative(r.value)
      /\ wire' = r.rest /\ CreateBlob(Name, r.value)
      /\ SameSlots /\ UNCHANGED <<phase, i, arrays, answer>>
  BY DEF ReadLength, IsReading, SameSlots, callVars
<1>2. wire \in Seq(Bytes)
  BY DEF CallInv, Types
<1>3. r.value \in 0 .. 2^WordBits - 1 /\ r.rest \in Seq(Bytes)
  BY <1>1, <1>2, Uint32UnserializeType DEF Returns
<1>4. r.value \in 0 .. 2^(WordBits - 1) - 1
  BY <1>1, <1>3, Limits DEF IsNegative
<1>5. phase \in Filled
  BY <1>1 DEF Filled
<1> DEFINE len == r.value
<1>6. len \in 0 .. 2^(WordBits - 1) - 1 /\ CreateBlob(Name, len)
  BY <1>1, <1>4
<1> HIDE DEF len, r
<1>7. Core' /\ Variables' /\ Pointing' /\ BlobStreams' /\ NewBlob'
  BY <1>1, <1>5, <1>6, BlobCreated
<1>8. Types'
  BY <1>1, <1>3 DEF CallInv, Types, SameSlots
<1>9. Answering'
  BY <1>1 DEF CallInv, Answering
<1> QED
  BY <1>7, <1>8, <1>9 DEF CallInv, Core

LEMMA ServiceCreatesStep ==
    ASSUME CallInv, ServiceCreates
    PROVE  CallInv'
<1>1. PICK v \in ValuesOf[Type] : CreateBlob(Name, Len(v)) /\ answer' = Append(answer, v)
  BY DEF ServiceCreates
<1>2. /\ phase = "service" /\ i \in DOMAIN TypesOf("response")
      /\ step = "param" /\ step' = "open" /\ Type = "blob"
      /\ SameSlots /\ UNCHANGED <<phase, i, wire, arrays>>
  BY DEF ServiceCreates, InService, SameSlots
<1>3. phase \in Filled /\ Reading = "response" /\ i \in DOMAIN TypesOf(Reading)
  BY <1>2 DEF Filled, Reading
<1>4. HasType("blob", v) /\ i \in Nat \ {0}
  <2>1. Type = Methods[served_id + 1].response[i] /\ i \in DOMAIN Methods[served_id + 1].response
    BY <1>2, <1>3 DEF Type, TypesOf
  <2>2. served_id + 1 \in DOMAIN Methods
    BY RpcCallAssumption DEF CallInv, Types
  <2> QED
    BY <1>1, <1>2, <2>1, <2>2, ValuesAssumption DEF CallInv, Types
<1>5. v \in Seq(Bytes) /\ Len(v) \in 0 .. 2^(WordBits - 1) - 1
  <2>1. v \in Seq(Bytes) /\ Len(v) < 2^(WordBits - 1)
    BY <1>4 DEF HasType
  <2>2. Len(v) \in Nat
    BY <2>1
  <2> QED
    BY <2>1, <2>2, Limits
<1> DEFINE len == Len(v)
<1>6. len \in 0 .. 2^(WordBits - 1) - 1 /\ CreateBlob(Name, len)
  BY <1>1, <1>5
<1> HIDE DEF len
<1>7. /\ Core' /\ Variables' /\ Pointing' /\ BlobStreams' /\ NewBlob'
      /\ Name' = Name /\ blobs'[Name].len = len
  BY <1>2, <1>3, <1>6, BlobCreated
<1>8. Types'
  BY <1>2 DEF CallInv, Types, SameSlots
<1>9. answer \in Seq(Answers) /\ Len(answer) = i - 1 /\ v \in Answers
  BY <1>1, <1>2 DEF CallInv, Answering, Answers, ParamTypes
<1>10. answer' \in Seq(Answers) /\ Len(answer') = i /\ answer'[i] = v
  BY <1>1, <1>4, <1>9
<1>11. Answering'
  BY <1>2, <1>5, <1>7, <1>10 DEF Answering, len
<1> QED
  BY <1>7, <1>8, <1>11 DEF CallInv, Core

\* the stream of the new blob stays open
LEMMA StillFilling ==
    ASSUME CallInv, step # "param", step' \in {"copy", "flush", "close"},
           SameSlots, UNCHANGED <<phase, i>>,
           streams' = {Writer'}
    PROVE  /\ Variables' /\ Pointing' /\ BlobStreams'
           /\ Name' = Name /\ Reading' = Reading /\ Type' = "blob"
           /\ phase' \in Filled /\ i' \in DOMAIN TypesOf(Reading)'
<1>1. phase \in Filled /\ i \in DOMAIN TypesOf(Reading) /\ Type = "blob"
  BY FillingFacts
<1>2. Variables' /\ Pointing'
  BY <1>1, SameVariables
<1>3. Name' = Name /\ Reading' = Reading
  BY DEF Name, Reading
<1>4. Type' = "blob" /\ i' \in DOMAIN TypesOf(Reading)'
  BY <1>1, <1>3 DEF Type, SameSlots, TypesOf
<1>5. phase' # "returned"
  BY <1>1 DEF Filled
<1>6. BlobStreams'
  BY <1>5 DEF BlobStreams, Writer
<1> QED
  BY <1>1, <1>2, <1>3, <1>4, <1>6

\* mrpc_blob_open_stream
LEMMA OpenStep ==
    ASSUME CallInv, step = "open", step' = "copy", OpenBlobToWrite(Name),
           SameSlots, UNCHANGED <<phase, i, wire, arrays, answer>>
    PROVE  CallInv'
<1>1. /\ Core' /\ Name' = Name /\ DOMAIN blobs' = DOMAIN blobs
      /\ blobs'[Name].state = "INCOMPLETE" /\ blobs'[Name].len = blobs[Name].len
      /\ disk'[Path(Name)'] = <<>> /\ streams' = {Writer'}
  BY CoreOpen
<1>2. /\ Variables' /\ Pointing' /\ BlobStreams' /\ Type' = "blob"
      /\ phase' \in Filled /\ i' \in DOMAIN TypesOf(Reading)'
  BY <1>1, StillFilling
<1>3. Name \in DOMAIN blobs
  BY FillingFacts
<1>4. NewBlob'
  BY <1>1, <1>2, <1>3 DEF NewBlob
<1>5. Types'
  BY DEF CallInv, Types, SameSlots
<1>6. Answering'
  BY <1>1 DEF CallInv, Answering
<1> QED
  BY <1>1, <1>2, <1>4, <1>5, <1>6 DEF CallInv, Core

LEMMA OpenNewBlobStep ==
    ASSUME CallInv, OpenNewBlob
    PROVE  CallInv'
<1>1. /\ step = "open" /\ step' = "copy" /\ OpenBlobToWrite(Name)
      /\ SameSlots /\ UNCHANGED <<phase, i, wire, arrays, answer>>
  BY DEF OpenNewBlob, IsReading, SameSlots, callVars
<1> QED
  BY <1>1, OpenStep

LEMMA CopyNewBlobStep ==
    ASSUME CallInv, CopyNewBlob
    PROVE  CallInv'
<1> DEFINE r == TakeBytes(wire, blobs[Name].len)
<1>1. /\ phase \in {"read_request", "read_response"} /\ step = "copy" /\ step' = "flush"
      /\ r.ok /\ wire' = r.rest /\ WriteBlobStream(NewStream, r.value)
      /\ SameSlots /\ UNCHANGED <<phase, i, arrays, answer>>
  BY DEF CopyNewBlob, IsReading, SameSlots, callVars
<1>2. Name \in DOMAIN blobs /\ blobs[Name].len \in 0 .. 2^(WordBits - 1) - 1
  BY <1>1, FillingFacts
<1>3. wire \in Seq(Bytes) /\ blobs[Name].len \in Nat
  BY <1>2 DEF CallInv, Types
<1>4. r.value \in Seq(Bytes) /\ Len(r.value) = blobs[Name].len /\ r.rest \in Seq(Bytes)
  BY <1>1, <1>3, TakeBytesType DEF Returns
<1>5. blobs[Name].state = "INCOMPLETE" /\ disk[Path(Name)] = <<>>
  BY <1>1 DEF CallInv, NewBlob
<1> DEFINE data == r.value
<1>6. data \in Seq(Bytes) /\ WriteBlobStream(NewStream, data) /\ Len(data) = blobs[Name].len
  BY <1>1, <1>4
<1> HIDE DEF data, r
<1>7. /\ Core' /\ Name' = Name /\ UNCHANGED blobs
      /\ Len(disk'[Path(Name)']) = Len(disk[Path(Name)]) + Len(data)
      /\ streams' = {Writer'}
  BY <1>1, <1>5, <1>6, CoreWrite
<1>8. /\ Variables' /\ Pointing' /\ BlobStreams' /\ Type' = "blob"
      /\ phase' \in Filled /\ i' \in DOMAIN TypesOf(Reading)'
  BY <1>1, <1>7, StillFilling
<1>9. Len(disk'[Path(Name)']) = blobs[Name].len
  BY <1>3, <1>5, <1>6, <1>7
<1>10. NewBlob'
  BY <1>1, <1>2, <1>5, <1>7, <1>8, <1>9 DEF NewBlob
<1>11. Types'
  BY <1>1, <1>4 DEF CallInv, Types, SameSlots
<1>12. Answering'
  BY <1>1 DEF CallInv, Answering
<1> QED
  BY <1>7, <1>8, <1>10, <1>11, <1>12 DEF CallInv, Core

LEMMA FlushNewBlobStep ==
    ASSUME CallInv, FlushNewBlob
    PROVE  CallInv'
<1>1. /\ phase \in {"read_request", "read_response"} /\ step = "flush" /\ step' = "close"
      /\ FlushBlobStream(NewStream)
      /\ SameSlots /\ UNCHANGED <<phase, i, wire, arrays, answer>>
  BY DEF FlushNewBlob, IsReading, SameSlots, callVars
<1>2. Name \in DOMAIN blobs
  BY <1>1, FillingFacts
<1>3. Len(disk[Path(Name)]) = blobs[Name].len
  BY <1>1 DEF CallInv, NewBlob
<1>4. /\ Core' /\ Name' = Name /\ DOMAIN blobs' = DOMAIN blobs
      /\ blobs'[Name].state = "COMPLETE" /\ streams' = {Writer'}
  BY <1>1, <1>3, CoreFlush
<1>5. /\ Variables' /\ Pointing' /\ BlobStreams' /\ Type' = "blob"
      /\ phase' \in Filled /\ i' \in DOMAIN TypesOf(Reading)'
  BY <1>1, <1>4, StillFilling
<1>6. NewBlob'
  BY <1>1, <1>2, <1>4, <1>5 DEF NewBlob
<1>7. Types'
  BY <1>1 DEF CallInv, Types, SameSlots
<1>8. Answering'
  BY <1>1 DEF CallInv, Answering
<1> QED
  BY <1>4, <1>5, <1>6, <1>7, <1>8 DEF CallInv, Core

\* delete_blob_stream for the blob that is full
LEMMA CloseStep ==
    ASSUME CallInv, step \in {"copy", "close"}, step' = "param",
           blobs[Name].state = "COMPLETE", DeleteBlobStream(NewStream, 0),
           SetSlot("set"), UNCHANGED <<phase, wire, method_id, served_id, arrays, answer>>
    PROVE  CallInv'
<1>1. slots' = [slots EXCEPT ![Reading][i] = "set"] /\ i' = i + 1
  BY DEF SetSlot
<1>2. phase \in Filled /\ i \in DOMAIN TypesOf(Reading) /\ Type = "blob" /\ IsPtr(Type)
  BY FillingFacts DEF IsPtr
<1>3. Core' /\ streams' = {}
  BY <1>1, CoreClose
<1>4. Variables' /\ Pointing'
  BY <1>1, <1>2, SlotSet
<1>5. BlobStreams' /\ NewBlob'
  BY <1>3, NoStreams
<1>6. Types'
  BY <1>1 DEF CallInv, Types
<1>7. Answering'
  BY <1>1, <1>6 DEF CallInv, Answering, Types
<1> QED
  BY <1>3, <1>4, <1>5, <1>6, <1>7 DEF CallInv, Core

LEMMA CloseNewBlobStep ==
    ASSUME CallInv, CloseNewBlob
    PROVE  CallInv'
<1>1. /\ step = "close" /\ step' = "param" /\ DeleteBlobStream(NewStream, 0)
      /\ SetSlot("set") /\ UNCHANGED <<phase, wire, method_id, served_id, arrays, answer>>
  BY DEF CloseNewBlob, IsReading, callVars
<1>2. blobs[Name].state = "COMPLETE"
  BY <1>1 DEF CallInv, NewBlob
<1> QED
  BY <1>1, <1>2, CloseStep

LEMMA ServiceClosesStep ==
    ASSUME CallInv, ServiceCloses
    PROVE  CallInv'
<1>1. /\ step = "copy" /\ step' = "param" /\ DeleteBlobStream(NewStream, 0)
      /\ blobs[Name].state = "COMPLETE"
      /\ SetSlot("set") /\ UNCHANGED <<phase, wire, method_id, served_id, arrays, answer>>
  BY DEF ServiceCloses, InService, callVars
<1> QED
  BY <1>1, CloseStep

LEMMA ReadFailsStep ==
    ASSUME CallInv, ReadRequestFails \/ ReadResponseFails
    PROVE  CallInv'
<1>1. /\ \/ phase = "read_request" /\ phase' = "end_handler"
         \/ phase = "read_response" /\ phase' = "end_method"
      /\ step # "close" /\ step' = "param" /\ DropNewBlob /\ i' = 1
      /\ SameSlots /\ UNCHANGED <<arrays, answer>>
  BY DEF ReadRequestFails, ReadResponseFails, EndHandler, EndMethod, SameSlots, callVars
<1>2. wire' \in Seq(Bytes)
  <2>1. wire \in Seq(Bytes) /\ <<>> \in Seq(Bytes)
    BY DEF CallInv, Types
  <2>2. wire' = wire \/ wire' = <<>>
    BY DEF ReadRequestFails, ReadResponseFails
  <2> QED
    BY <2>1, <2>2
<1>3. phase \in Filled /\ Onwards(phase, phase') /\ phase' \in Phases
  BY <1>1 DEF Filled, Onwards, Phases
<1>4. Core' /\ streams' = {}
  BY <1>1, <1>3, CoreDropNew
<1>5. Variables' /\ Pointing'
  BY <1>1, <1>3, OnwardsVariables, OnwardsPointing DEF CallInv
<1>6. BlobStreams' /\ NewBlob'
  BY <1>1, <1>4, NoStreams
<1>7. Types'
  BY <1>1, <1>2, <1>3 DEF CallInv, Types, SameSlots
<1>8. Answering'
  BY <1>1 DEF Answering
<1> QED
  BY <1>4, <1>5, <1>6, <1>7, <1>8 DEF CallInv, Core

LEMMA ServiceBeginsAgainStep ==
    ASSUME CallInv, ServiceBeginsAgain
    PROVE  CallInv'
<1>1. /\ phase = "service" /\ step = "copy" /\ step' = "param" /\ DeleteBlobStream(NewStream, 1)
      /\ answer' = Front(answer)
      /\ SameSlots /\ UNCHANGED <<phase, i, wire, arrays>>
  BY DEF ServiceBeginsAgain, InService, SameSlots
<1>2. DropNewBlob /\ phase \in Filled
  BY <1>1 DEF DropNewBlob, Filled
<1>3. Core' /\ streams' = {}
  BY <1>1, <1>2, CoreDropNew
<1>4. Variables' /\ Pointing'
  BY <1>1, <1>2, SameVariables
<1>5. BlobStreams' /\ NewBlob'
  BY <1>1, <1>3, NoStreams
<1>6. Types'
  BY <1>1 DEF CallInv, Types, SameSlots
<1>7. answer \in Seq(Answers) /\ Len(answer) = i /\ i \in Nat \ {0}
  BY <1>1 DEF CallInv, Answering, Types
<1>8. answer' = SubSeq(answer, 1, i - 1)
  BY <1>1, <1>7 DEF Front
<1>9. answer' \in Seq(Answers) /\ Len(answer') = i - 1
  BY <1>7, <1>8
<1>10. Answering'
  BY <1>1, <1>9 DEF Answering
<1> QED
  BY <1>3, <1>4, <1>5, <1>6, <1>10 DEF CallInv, Core

LEMMA ServiceFillsStep ==
    ASSUME CallInv, ServiceFills
    PROVE  CallInv'
<1>1. SameSlots /\ UNCHANGED <<phase, i, wire, arrays, answer>>
  BY DEF ServiceFills, SameSlots, callVars
<1>2. CASE InService("open") /\ OpenBlobToWrite(Name) /\ step' = "copy"
  BY <1>1, <1>2, OpenStep DEF InService
<1>3. CASE InService("copy") /\ UNCHANGED step
  <2>1. phase = "service" /\ step = "copy" /\ step' = "copy"
    BY <1>3 DEF InService
  <2>2. /\ Name \in DOMAIN blobs /\ blobs[Name].state # "EMPTY"
        /\ blobs[Name].len \in 0 .. 2^(WordBits - 1) - 1 /\ blobs[Name].len \in Nat
    BY <2>1, FillingFacts
  <2>3. NewStream = Writer /\ Writer.blob = Name /\ Writer.curr_pos = Len(disk[Path(Name)])
    BY <2>1, WriterFacts
  <2>4. /\ disk[Path(Name)] \in Seq(Bytes) /\ Len(disk[Path(Name)]) \in Nat
        /\ blobs[Name].state = "COMPLETE" => Len(disk[Path(Name)]) = blobs[Name].len
    BY <2>2, OwnFile DEF CallInv
  <2>5. answer[i] \in Seq(Bytes) /\ Len(answer[i]) = blobs[Name].len
    BY <2>1 DEF CallInv, Answering
  <2>6. Types'
    BY <1>1, <2>1 DEF CallInv, Types, SameSlots
  <2>7. ASSUME NEW n \in 1 .. BytesLeftIn(NewStream),
               WriteBlobStream(NewStream,
                   SubSeq(answer[i], NewStream.curr_pos + 1, NewStream.curr_pos + n))
        PROVE  CallInv'
    <3> DEFINE k == Len(disk[Path(Name)])
               data == SubSeq(answer[i], k + 1, k + n)
    <3>1. BytesLeftIn(NewStream) = blobs[Name].len - k /\ WriteBlobStream(NewStream, data)
      BY <2>3, <2>7 DEF BytesLeftIn
    <3>2. k \in Nat /\ n \in Nat /\ n >= 1 /\ k + n <= blobs[Name].len
      BY <2>2, <2>4, <3>1
    <3>3. data \in Seq(Bytes) /\ Len(data) = n
      BY <2>2, <2>5, <3>2
    <3>4. blobs[Name].state # "COMPLETE"
      BY <2>2, <2>4, <3>2
    <3> HIDE DEF data
    <3>5. /\ Core' /\ Name' = Name /\ UNCHANGED blobs
          /\ streams' = {Writer'}
      BY <1>1, <2>1, <3>1, <3>3, <3>4, CoreWrite
    <3>6. /\ Variables' /\ Pointing' /\ BlobStreams' /\ Type' = "blob"
          /\ phase' \in Filled /\ i' \in DOMAIN TypesOf(Reading)'
      BY <1>1, <2>1, <3>5, StillFilling
    <3>7. NewBlob'
      BY <1>1, <2>1, <2>2, <3>5, <3>6 DEF NewBlob, CallInv
    <3>8. Answering'
      BY <1>1, <2>1, <3>5 DEF CallInv, Answering
    <3> QED
      BY <2>6, <3>5, <3>6, <3>7, <3>8 DEF CallInv, Core
  <2>8. ASSUME FlushBlobStream(NewStream)
        PROVE  CallInv'
    <3>1. /\ Core' /\ Name' = Name /\ DOMAIN blobs' = DOMAIN blobs
          /\ blobs'[Name].len = blobs[Name].len
          /\ blobs'[Name].state \in {"COMPLETE", blobs[Name].state}
          /\ streams' = {Writer'}
      BY <1>1, <2>1, <2>8, CoreFlush
    <3>2. /\ Variables' /\ Pointing' /\ BlobStreams' /\ Type' = "blob"
          /\ phase' \in Filled /\ i' \in DOMAIN TypesOf(Reading)'
      BY <1>1, <2>1, <3>1, StillFilling
    <3>3. NewBlob'
      BY <1>1, <2>1, <2>2, <3>1, <3>2 DEF NewBlob, CallInv
    <3>4. Answering'
      BY <1>1, <2>1, <3>1 DEF CallInv, Answering
    <3> QED
      BY <2>6, <3>1, <3>2, <3>3, <3>4 DEF CallInv, Core
  <2> QED
    BY <1>3, <2>1, <2>7, <2>8 DEF ServiceFills, InService
<1> QED
  BY <1>2, <1>3 DEF ServiceFills

(***************************************************************************)
(* The steps that create and drop the variables of a function              *)
(***************************************************************************)

LEMMA FreshFacts ==
    ASSUME NEW types \in Seq(ParamTypes)
    PROVE  /\ DOMAIN Fresh(types) = DOMAIN types
           /\ \A n \in DOMAIN types : /\ IsPtr(types[n]) => Fresh(types)[n] = "NULL"
                                      /\ ~IsPtr(types[n]) => HasType(types[n], Fresh(types)[n])
<1>1. /\ DOMAIN Fresh(types) = DOMAIN types
      /\ \A n \in DOMAIN types : Fresh(types)[n] = IF IsPtr(types[n]) THEN "NULL" ELSE 0
  BY DEF Fresh
<1>2. ASSUME NEW n \in DOMAIN types, ~IsPtr(types[n])
      PROVE  HasType(types[n], 0)
  <2>1. types[n] \in ParamTypes
    BY ElementType
  <2>2. types[n] \in {"uint32", "int32", "uint64", "int64"}
    BY <1>2, <2>1 DEF ParamTypes, IsPtr
  <2>3. /\ 0 \in 0 .. 2^WordBits - 1 /\ 0 \in 0 .. 2^LongBits - 1
        /\ 0 \in -(2^(WordBits - 1)) .. 2^(WordBits - 1) - 1
        /\ 0 \in -(2^(LongBits - 1)) .. 2^(LongBits - 1) - 1
    BY Limits
  <2> QED
    BY <2>2, <2>3 DEF HasType
<1> QED
  BY <1>1, <1>2

\* New variables point to nothing, and neither did the old ones.
LEMMA FramesRenewed ==
    ASSUME CallInv, step = "param", step' = "param", phase # "returned",
           UNCHANGED <<blobVars, arrays>>, NEW fs, fs \subseteq Frames,
           DOMAIN slots' = Frames,
           \A f \in Frames \ fs : slots'[f] = slots[f] /\ TypesOf(f)' = TypesOf(f),
           \A f \in fs : /\ \A n : ~IsSet(f, n)
                         /\ \/ slots'[f] = <<>>
                            \/ slots'[f] = Fresh(TypesOf(f)') /\ TypesOf(f)' \in Seq(ParamTypes),
           "received" \in fs => TypesOf("received")' = TypesOf("received")
    PROVE  /\ Core'
           /\ \A f \in Frames : \A n : IsSet(f, n)' = IsSet(f, n)
           /\ \A f \in Frames : DOMAIN slots'[f] = {} \/ Full(f)'
           /\ \A f \in Frames : \A n \in DOMAIN slots'[f] :
                ~IsPtr(TypesOf(f)'[n]) => HasType(TypesOf(f)'[n], slots'[f][n])
<1>1. ASSUME NEW f \in fs
      PROVE  /\ DOMAIN slots'[f] = {} \/ Full(f)'
             /\ \A n : ~IsSet(f, n)'
             /\ \A n \in DOMAIN slots'[f] :
                  ~IsPtr(TypesOf(f)'[n]) => HasType(TypesOf(f)'[n], slots'[f][n])
  <2>1. CASE slots'[f] = <<>>
    <3>1. DOMAIN slots'[f] = {}
      BY <2>1
    <3> QED
      BY <3>1 DEF IsSet
  <2>2. CASE slots'[f] = Fresh(TypesOf(f)') /\ TypesOf(f)' \in Seq(ParamTypes)
    <3> DEFINE types == TypesOf(f)'
    <3>1. types \in Seq(ParamTypes) /\ slots'[f] = Fresh(types)
      BY <2>2
    <3>2. /\ DOMAIN slots'[f] = DOMAIN types
          /\ \A n \in DOMAIN types : /\ IsPtr(types[n]) => slots'[f][n] = "NULL"
                                     /\ ~IsPtr(types[n]) => HasType(types[n], slots'[f][n])
      <4> HIDE DEF types
      <4> QED
        BY <3>1, FreshFacts
    <3> QED
      BY <3>2 DEF IsSet, Full
  <2> QED
    BY <2>1, <2>2
<1>2. ASSUME NEW f \in Frames \ fs
      PROVE  /\ DOMAIN slots'[f] = {} \/ Full(f)'
             /\ \A n : IsSet(f, n)' = IsSet(f, n)
             /\ \A n \in DOMAIN slots'[f] :
                  ~IsPtr(TypesOf(f)'[n]) => HasType(TypesOf(f)'[n], slots'[f][n])
  <2>1. slots'[f] = slots[f] /\ TypesOf(f)' = TypesOf(f)
    BY <1>2
  <2> QED
    BY <2>1 DEF CallInv, Variables, Full, IsSet
<1>3. ASSUME NEW f \in Frames, NEW n
      PROVE  IsSet(f, n)' = IsSet(f, n)
  <2>1. CASE f \in fs
    <3>1. ~IsSet(f, n) /\ ~IsSet(f, n)'
      BY <1>1, <2>1
    <3> QED
      BY <3>1 DEF IsSet
  <2>2. CASE f \notin fs
    BY <1>2, <2>2
  <2> QED
    BY <2>1, <2>2
<1>4. ASSUME NEW o \in DOMAIN arrays \union DOMAIN blobs
      PROVE  IsName(o)' /\ ObjType(o)' = ObjType(o)
  <2>1. IsName(o) /\ o[1] \in Owners /\ o[1] \in Frames
    BY DEF CallInv, Objects, IsName, Owners, Frames
  <2>2. Count(o) # 0
    <3>1. CASE o \in DOMAIN arrays
      <4>1. Count(o) > 0
        BY <3>1 DEF CallInv, RefsOK
      <4> QED
        BY <4>1
    <3>2. CASE o \in DOMAIN blobs
      <4>1. ~Filling(o) /\ OpenStreams(o) = {}
        BY ParamFacts DEF Filling, OpenStreams
      <4>2. /\ blobs[o].ref_cnt = Count(o) + Cardinality(OpenStreams(o)) + (IF Filling(o) THEN 1 ELSE 0)
            /\ blobs[o].ref_cnt > 0
        BY <3>2 DEF CallInv, RefsOK
      <4>3. Cardinality(OpenStreams(o)) = 0
        BY <4>1, FS_EmptySet
      <4> QED
        BY <4>1, <4>2, <4>3
    <3> QED
      BY <3>1, <3>2
  <2>3. o[1] \notin fs \/ o[1] = "received"
    <3>1. SUFFICES ASSUME o[1] \in fs, o[1] # "received" PROVE FALSE
      OBVIOUS
    <3>2. ~IsSet(o[1], o[2])
      BY <3>1
    <3> QED
      BY <2>2, <3>1, <3>2 DEF Count
  <2>4. TypesOf(o[1])' = TypesOf(o[1])
    BY <2>1, <2>3
  <2> QED
    BY <2>1, <2>4 DEF IsName, ObjType
<1>5. Core
  BY DEF CallInv, Core
<1>6. Core'
  BY <1>3, <1>4, <1>5, CoreQuiet DEF blobVars
<1> QED
  BY <1>1, <1>2, <1>3, <1>6

\* ... and the function that begins has its variables.
LEMMA RenewedStep ==
    ASSUME CallInv, step = "param", step' = "param", phase # "returned", Types',
           UNCHANGED <<blobVars, arrays, answer>>, NEW fs, fs \subseteq Frames,
           DOMAIN slots' = Frames,
           \A f \in Frames \ fs : slots'[f] = slots[f] /\ TypesOf(f)' = TypesOf(f),
           \A f \in fs : /\ \A n : ~IsSet(f, n)
                         /\ \/ slots'[f] = <<>>
                            \/ slots'[f] = Fresh(TypesOf(f)') /\ TypesOf(f)' \in Seq(ParamTypes),
           "received" \in fs => TypesOf("received")' = TypesOf("received"),
           \/ /\ phase = "read_method_id" /\ phase' = "read_request"
              /\ fs = {"request", "response"}
              /\ slots'["request"] = Fresh(TypesOf("request")')
              /\ slots'["response"] = Fresh(TypesOf("response")')
              /\ TypesOf("request")' \in Seq(ParamTypes) /\ TypesOf("response")' \in Seq(ParamTypes)
           \/ /\ phase # "read_response" /\ phase' = "read_response"
              /\ "received" \in fs /\ "returned" \notin fs
              /\ slots'["received"] = Fresh(TypesOf("received")')
              /\ TypesOf("received")' \in Seq(ParamTypes)
              /\ DOMAIN slots["returned"] = {}
           \/ phase' = "returned"
    PROVE  CallInv'
<1>1. /\ Core'
      /\ \A f \in Frames : \A n : IsSet(f, n)' = IsSet(f, n)
      /\ \A f \in Frames : DOMAIN slots'[f] = {} \/ Full(f)'
      /\ \A f \in Frames : \A n \in DOMAIN slots'[f] :
           ~IsPtr(TypesOf(f)'[n]) => HasType(TypesOf(f)'[n], slots'[f][n])
  BY FramesRenewed
<1>2. BlobStreams' /\ NewBlob'
  <2>1. streams' = {}
    BY ParamFacts DEF blobVars
  <2> QED
    BY <2>1, NoStreams
<1>3. phase' \notin {"idle", "create_stream", "write_request", "read_method_id", "service",
                     "write_response", "end_handler"}
  OBVIOUS
<1>4. phase' = "read_request" =>
        /\ phase = "read_method_id" /\ fs = {"request", "response"}
        /\ Full("request")' /\ Full("response")' /\ Empty({"received", "returned"})'
        /\ \A n : ~IsSet("request", n)' /\ ~IsSet("response", n)'
  <2>1. SUFFICES ASSUME phase' = "read_request"
                 PROVE  /\ phase = "read_method_id" /\ fs = {"request", "response"}
                        /\ Full("request")' /\ Full("response")' /\ Empty({"received", "returned"})'
                        /\ \A n : ~IsSet("request", n)' /\ ~IsSet("response", n)'
    OBVIOUS
  <2>2. /\ phase = "read_method_id" /\ fs = {"request", "response"}
        /\ slots'["request"] = Fresh(TypesOf("request")')
        /\ slots'["response"] = Fresh(TypesOf("response")')
        /\ TypesOf("request")' \in Seq(ParamTypes) /\ TypesOf("response")' \in Seq(ParamTypes)
    BY <2>1
  <2>3. Full("request")' /\ Full("response")'
    BY <2>2, FreshFacts DEF Full
  <2>4. DOMAIN slots["received"] = {} /\ DOMAIN slots["returned"] = {}
    BY <2>2 DEF CallInv, Variables, Empty, Frames
  <2>5. slots'["received"] = slots["received"] /\ slots'["returned"] = slots["returned"]
    BY <2>2 DEF Frames
  <2>6. Empty({"received", "returned"})'
    BY <2>4, <2>5 DEF Empty
  <2>7. \A n : ~IsSet("request", n)' /\ ~IsSet("response", n)'
    BY <1>1, <2>2 DEF Frames
  <2> QED
    BY <2>2, <2>3, <2>6, <2>7
<1>5. phase' = "read_response" =>
        Full("received")' /\ Empty({"returned"})' /\ \A n : ~IsSet("received", n)'
  <2>1. SUFFICES ASSUME phase' = "read_response"
                 PROVE  Full("received")' /\ Empty({"returned"})' /\ \A n : ~IsSet("received", n)'
    OBVIOUS
  <2>2. /\ "received" \in fs /\ "returned" \notin fs
        /\ slots'["received"] = Fresh(TypesOf("received")')
        /\ TypesOf("received")' \in Seq(ParamTypes)
        /\ DOMAIN slots["returned"] = {}
    BY <2>1
  <2>3. Full("received")'
    BY <2>2, FreshFacts DEF Full
  <2>4. slots'["returned"] = slots["returned"]
    BY <2>2 DEF Frames
  <2>5. Empty({"returned"})'
    BY <2>2, <2>4 DEF Empty
  <2>6. \A n : ~IsSet("received", n)'
    BY <1>1, <2>2 DEF Frames
  <2> QED
    BY <2>3, <2>5, <2>6
<1>6. Variables'
  BY <1>1, <1>3, <1>4, <1>5 DEF Variables
<1>7. Pointing'
  <2>1. phase' \in Filled => \A n : ~IsSet(Reading, n)'
    <3>1. CASE phase' = "read_request"
      <4>1. Reading' = "request"
        BY <3>1 DEF Reading
      <4> QED
        BY <1>4, <3>1, <4>1 DEF IsSet
    <3>2. CASE phase' = "read_response"
      <4>1. Reading' = "received"
        BY <3>2 DEF Reading
      <4> QED
        BY <1>5, <3>2, <4>1 DEF IsSet
    <3> QED
      BY <1>3, <3>1, <3>2 DEF Filled
  <2> QED
    BY <1>3, <1>4, <2>1 DEF Pointing
<1>8. Answering'
  BY <1>3, <1>4 DEF CallInv, Answering
<1> QED
  BY <1>1, <1>2, <1>6, <1>7, <1>8 DEF CallInv, Core

LEMMA NoMethodYet ==
    ASSUME CallInv, phase = "read_method_id"
    PROVE  /\ step = "param" /\ phase \notin Filled
           /\ \A f \in Frames \ {"args"} : DOMAIN slots[f] = {} /\ \A n : ~IsSet(f, n)
<1>1. phase \notin Filled
  BY DEF Filled
<1>2. \A f \in Frames \ {"args"} : DOMAIN slots[f] = {}
  BY DEF CallInv, Variables, Empty
<1> QED
  BY <1>1, <1>2, StepParam DEF IsSet

LEMMA ReadMethodIdStep ==
    ASSUME CallInv, ReadMethodId
    PROVE  CallInv'
<1> DEFINE id == wire[1]
<1>1. /\ phase = "read_method_id" /\ phase' = "read_request" /\ wire # <<>> /\ id < Len(Methods)
      /\ served_id' = id /\ wire' = Tail(wire) /\ step' = step
      /\ slots' = [slots EXCEPT !["request"] = Fresh(Methods[id + 1].request),
                                !["response"] = Fresh(Methods[id + 1].response)]
      /\ UNCHANGED <<blobVars, arrays, answer, i, method_id>>
  BY DEF ReadMethodId, HasMethod
<1>2. /\ step = "param"
      /\ \A f \in Frames \ {"args"} : DOMAIN slots[f] = {} /\ \A n : ~IsSet(f, n)
  BY <1>1, NoMethodYet
<1>3. wire \in Seq(Bytes) /\ DOMAIN slots = Frames
  BY DEF CallInv, Types, Variables
<1>4. id \in Nat /\ wire' \in Seq(Bytes)
  <2>1. id \in Bytes /\ Tail(wire) \in Seq(Bytes)
    BY <1>1, <1>3
  <2>2. Bytes \subseteq Nat
    BY Limits DEF Bytes
  <2> QED
    BY <1>1, <2>1, <2>2
<1>5. id \in 0 .. Len(Methods) - 1
  <2>1. Len(Methods) \in Nat
    BY RpcCallAssumption
  <2> HIDE DEF id
  <2> QED
    BY <1>1, <1>4, <2>1
<1> HIDE DEF id
<1>6. /\ Methods[id + 1].request \in Seq(ParamTypes)
      /\ Methods[id + 1].response \in Seq(ParamTypes)
  BY <1>5, MethodTypes
<1>7. /\ TypesOf("request")' = Methods[id + 1].request
      /\ TypesOf("response")' = Methods[id + 1].response
      /\ \A f \in Frames \ {"request", "response"} : TypesOf(f)' = TypesOf(f)
  BY <1>1 DEF TypesOf, Frames
<1>8. /\ DOMAIN slots' = Frames
      /\ slots'["request"] = Fresh(TypesOf("request")')
      /\ slots'["response"] = Fresh(TypesOf("response")')
      /\ \A f \in Frames \ {"request", "response"} : slots'[f] = slots[f]
  BY <1>1, <1>3, <1>7 DEF Frames
<1>9. Types'
  BY <1>1, <1>2, <1>4, <1>5 DEF CallInv, Types, Phases
<1> DEFINE fs == {"request", "response"}
<1>10. fs \subseteq Frames /\ phase # "returned" /\ step' = "param"
  BY <1>1, <1>2 DEF Frames
<1>11. \A f \in fs : /\ \A n : ~IsSet(f, n)
                     /\ \/ slots'[f] = <<>>
                        \/ slots'[f] = Fresh(TypesOf(f)') /\ TypesOf(f)' \in Seq(ParamTypes)
  BY <1>2, <1>6, <1>7, <1>8 DEF Frames
<1>12. "received" \notin fs /\ \A f \in Frames \ fs : slots'[f] = slots[f] /\ TypesOf(f)' = TypesOf(f)
  BY <1>7, <1>8
<1>13. fs = {"request", "response"}
  OBVIOUS
<1>14. /\ phase = "read_method_id" /\ phase' = "read_request"
       /\ fs = {"request", "response"}
       /\ slots'["request"] = Fresh(TypesOf("request")')
       /\ slots'["response"] = Fresh(TypesOf("response")')
       /\ TypesOf("request")' \in Seq(ParamTypes) /\ TypesOf("response")' \in Seq(ParamTypes)
  BY <1>1, <1>6, <1>7, <1>8, <1>13
<1>15. UNCHANGED <<blobVars, arrays, answer>> /\ DOMAIN slots' = Frames
  BY <1>1, <1>8
<1> HIDE DEF fs
<1> QED
  BY <1>2, <1>9, <1>10, <1>11, <1>12, <1>14, <1>15, RenewedStep

\* The variables of the client method that begins to read, or none if there
\* is no client method: then the server is done.
LEMMA ReadingBegins ==
    ASSUME CallInv, step = "param", step' = "param", phase \in {"read_method_id", "end_handler"},
           UNCHANGED <<blobVars, arrays, answer, method_id, served_id>>,
           i' \in Nat \ {0}, wire' \in Seq(Bytes),
           NEW fs, fs \subseteq Frames \ {"args", "returned"},
           \A f \in fs : \A n : ~IsSet(f, n),
           DOMAIN slots' = Frames,
           \A f \in Frames \ fs : slots'[f] = slots[f],
           \A f \in fs : slots'[f] = <<>> \/ f = "received",
           "received" \in fs => slots'["received"] = Fresh(TypesOf("received")),
           (phase' = "read_response" /\ "received" \in fs) \/ phase' = "returned"
    PROVE  CallInv'
<1>1. \A f : TypesOf(f)' = TypesOf(f)
  BY DEF TypesOf
<1>2. TypesOf("received") \in Seq(ParamTypes) /\ TypesOf("received")' \in Seq(ParamTypes)
  BY <1>1, TypesOfType DEF CallInv, Types, Frames
<1>3. Types'
  BY DEF CallInv, Types, Phases
<1>4. DOMAIN slots["returned"] = {} /\ phase # "returned" /\ phase # "read_response"
  BY DEF CallInv, Variables, Empty, Frames
<1>5. \A f \in fs : /\ \A n : ~IsSet(f, n)
                    /\ \/ slots'[f] = <<>>
                       \/ slots'[f] = Fresh(TypesOf(f)') /\ TypesOf(f)' \in Seq(ParamTypes)
  BY <1>1, <1>2
<1>6. /\ fs \subseteq Frames /\ "returned" \notin fs
      /\ \A f \in Frames \ fs : slots'[f] = slots[f] /\ TypesOf(f)' = TypesOf(f)
  BY <1>1
<1>7. \/ /\ phase' = "read_response"
         /\ "received" \in fs /\ slots'["received"] = Fresh(TypesOf("received")')
      \/ phase' = "returned"
  BY <1>1
<1> QED
  BY <1>1, <1>2, <1>3, <1>4, <1>5, <1>6, <1>7, RenewedStep

LEMMA MessageType ==
    ASSUME NEW m \in Messages
    PROVE  m \in Seq(Bytes)
<1>1. PICK n \in 0 .. MessageLength : m \in [1 .. n -> Bytes]
  BY DEF Messages
<1>2. n \in Nat
  BY RpcCallAssumption
<1> QED
  BY <1>1, <1>2

LEMMA NoHandlerStep ==
    ASSUME CallInv, ReadMethodIdFails \/ ForeignServer
    PROVE  CallInv'
<1>1. /\ phase = "read_method_id" /\ phase' \in {"read_response", "returned"} /\ step' = step
      /\ slots' = [slots EXCEPT !["received"] = Fresh(TypesOf("received"))]
      /\ UNCHANGED <<blobVars, arrays, answer, method_id, served_id, i>>
      /\ wire' = <<>> \/ wire' \in Messages
  BY DEF ReadMethodIdFails, ForeignServer, callVars
<1>2. wire' \in Seq(Bytes)
  <2>1. <<>> \in Seq(Bytes)
    OBVIOUS
  <2>2. wire' \in Messages => wire' \in Seq(Bytes)
    BY MessageType
  <2> QED
    BY <1>1, <2>1, <2>2
<1>3. /\ step = "param"
      /\ \A f \in Frames \ {"args"} : \A n : ~IsSet(f, n)
  BY <1>1, NoMethodYet
<1>4. DOMAIN slots = Frames /\ i \in Nat \ {0}
  BY DEF CallInv, Types, Variables
<1> DEFINE fs == {"received"}
<1>5. /\ fs \subseteq Frames \ {"args", "returned"} /\ \A f \in fs : \A n : ~IsSet(f, n)
      /\ DOMAIN slots' = Frames
      /\ \A f \in Frames \ fs : slots'[f] = slots[f]
      /\ slots'["received"] = Fresh(TypesOf("received"))
      /\ \A f \in fs : f = "received"
      /\ "received" \in fs
  BY <1>1, <1>3, <1>4 DEF Frames
<1> HIDE DEF fs
<1> QED
  BY <1>1, <1>2, <1>3, <1>4, <1>5, ReadingBegins

LEMMA HandlerEndsStep ==
    ASSUME CallInv, HandlerEnds
    PROVE  CallInv'
<1>1. /\ phase = "end_handler" /\ AllDropped
      /\ UNCHANGED <<blobVars, arrays, answer, method_id, served_id>>
  BY DEF HandlerEnds, BeginReadResponse, callVars
<1>2. step = "param"
  BY <1>1, StepParam DEF Filled
<1>3. Dropped = {"request", "response"}
  BY <1>1 DEF Dropped
<1>4. \A f \in {"request", "response", "received"} : \A n : ~IsSet(f, n)
  <2>1. \A f \in {"request", "response"} : \A n : ~IsSet(f, n)
    BY <1>1, <1>3 DEF AllDropped, IsSet
  <2>2. DOMAIN slots["received"] = {}
    BY <1>1 DEF CallInv, Variables, Empty
  <2> QED
    BY <2>1, <2>2 DEF IsSet
<1>5. DOMAIN slots = Frames /\ i \in Nat \ {0} /\ wire \in Seq(Bytes)
  BY DEF CallInv, Types, Variables
<1>6. ASSUME NEW flushed \in BOOLEAN, BeginReadResponse(flushed)
      PROVE  CallInv'
  <2>1. /\ phase' = "read_response" /\ i' \in Nat \ {0} /\ step' = "param"
        /\ slots' = [slots EXCEPT !["received"] = Fresh(TypesOf("received")),
                                  !["request"] = <<>>, !["response"] = <<>>]
        /\ wire' = wire \/ \E n \in 0 .. Len(wire) : wire' = SubSeq(wire, 1, n)
    BY <1>6 DEF BeginReadResponse
  <2>2. wire' \in Seq(Bytes)
    <3>1. ASSUME NEW n \in 0 .. Len(wire)
          PROVE  SubSeq(wire, 1, n) \in Seq(Bytes)
      BY <1>5
    <3> QED
      BY <1>5, <2>1, <3>1
  <2> DEFINE fs == {"request", "response", "received"}
  <2>3. /\ fs \subseteq Frames \ {"args", "returned"} /\ \A f \in fs : \A n : ~IsSet(f, n)
        /\ DOMAIN slots' = Frames
        /\ \A f \in Frames \ fs : slots'[f] = slots[f]
        /\ slots'["received"] = Fresh(TypesOf("received"))
        /\ \A f \in fs : slots'[f] = <<>> \/ f = "received"
        /\ "received" \in fs
    BY <1>4, <1>5, <2>1 DEF Frames
  <2> HIDE DEF fs
  <2> QED
    BY <1>1, <1>2, <2>1, <2>2, <2>3, ReadingBegins
<1>7. ASSUME phase' = "returned", UNCHANGED <<step, i, wire>>,
             slots' = [slots EXCEPT !["request"] = <<>>, !["response"] = <<>>]
      PROVE  CallInv'
  <2> DEFINE fs == {"request", "response"}
  <2>1. /\ fs \subseteq Frames \ {"args", "returned"} /\ \A f \in fs : \A n : ~IsSet(f, n)
        /\ DOMAIN slots' = Frames
        /\ \A f \in Frames \ fs : slots'[f] = slots[f]
        /\ \A f \in fs : slots'[f] = <<>>
        /\ "received" \notin fs
    BY <1>4, <1>5, <1>7 DEF Frames
  <2> HIDE DEF fs
  <2> QED
    BY <1>1, <1>2, <1>5, <1>7, <2>1, ReadingBegins
<1> QED
  BY <1>6, <1>7 DEF HandlerEnds

LEMMA MethodEndsStep ==
    ASSUME CallInv, MethodEnds
    PROVE  CallInv'
<1>1. /\ phase = "end_method" /\ phase' = "returned" /\ AllDropped
      /\ slots' = [slots EXCEPT !["received"] = <<>>]
      /\ UNCHANGED <<blobVars, arrays, answer, method_id, served_id, step, i, wire>>
  BY DEF MethodEnds, callVars
<1>2. step = "param"
  BY <1>1, StepParam DEF Filled
<1>3. \A n : ~IsSet("received", n)
  <2>1. Dropped = {"received"}
    BY <1>1 DEF Dropped
  <2> QED
    BY <1>1, <2>1 DEF AllDropped, IsSet
<1>4. \A f : TypesOf(f)' = TypesOf(f)
  BY <1>1 DEF TypesOf
<1>5. Types'
  BY <1>1 DEF CallInv, Types, Phases
<1> DEFINE fs == {"received"}
<1>6. /\ fs \subseteq Frames /\ phase # "returned" /\ step' = "param"
      /\ DOMAIN slots' = Frames
      /\ \A f \in Frames \ fs : slots'[f] = slots[f] /\ TypesOf(f)' = TypesOf(f)
      /\ \A f \in fs : (\A n : ~IsSet(f, n)) /\ slots'[f] = <<>>
  BY <1>1, <1>2, <1>3, <1>4 DEF CallInv, Variables, Frames
<1>7. UNCHANGED <<blobVars, arrays, answer>>
  BY <1>1
<1> HIDE DEF fs
<1> QED
  BY <1>1, <1>2, <1>4, <1>5, <1>6, <1>7, RenewedStep

LEMMA FiniteStreams ==
    ASSUME CallInv, step = "param"
    PROVE  IsFiniteSet(streams)
<1>1. IsFiniteSet({})
  BY FS_EmptySet
<1>2. CASE phase = "returned"
  BY <1>2 DEF CallInv, BlobStreams
<1>3. CASE phase # "returned"
  BY <1>1, <1>3, ParamFacts
<1> QED
  BY <1>2, <1>3

LEMMA DropStep ==
    ASSUME CallInv, DropNext \/ ApplicationDrops
    PROVE  CallInv'
<1>0. PICK g \in Frames : \E m : /\ DropParam(g, m)
                                  /\ phase \in {"end_handler", "end_method", "returned"}
  <2>1. CASE DropNext
    <3>1. PICK f \in Dropped : \E n \in DOMAIN slots[f] : DropParam(f, n)
      BY <2>1 DEF DropNext
    <3>2. f \in Frames /\ phase \in {"end_handler", "end_method"}
      BY <3>1 DEF Dropped, Frames
    <3> QED
      BY <3>1, <3>2
  <2>2. CASE ApplicationDrops
    <3>1. PICK f \in {"args", "returned"} : \E n \in DOMAIN slots[f] : DropParam(f, n)
      BY <2>2 DEF ApplicationDrops
    <3>2. f \in Frames /\ phase = "returned"
      BY <2>2, <3>1 DEF ApplicationDrops, Frames
    <3> QED
      BY <3>1, <3>2
  <2> QED
    BY <2>1, <2>2
<1>1. PICK m : DropParam(g, m) /\ phase \in {"end_handler", "end_method", "returned"}
  BY <1>0
<1>2. /\ IsSet(g, m) /\ slots' = [slots EXCEPT ![g][m] = "NULL"]
      /\ UNCHANGED <<phase, step, i, wire, method_id, served_id, answer>>
  BY <1>1 DEF DropParam, callVars
<1>3. step = "param" /\ IsFiniteSet(streams)
  BY <1>1, StepParam, FiniteStreams DEF Filled
<1>4. Core /\ Variables /\ DOMAIN slots = Frames
  BY DEF CallInv, Core, Variables
<1>5. /\ Core' /\ UNCHANGED streams
      /\ \A s \in streams : s.blob \in DOMAIN blobs => s.blob \in DOMAIN blobs'
  BY <1>1, <1>3, <1>4, CoreDropParam
<1>6. \A f : TypesOf(f)' = TypesOf(f)
  BY <1>2 DEF TypesOf
<1>7. /\ DOMAIN slots' = Frames
      /\ \A f \in Frames : DOMAIN slots'[f] = DOMAIN slots[f]
      /\ \A f \in Frames : \A n \in DOMAIN slots[f] : ~IsPtr(TypesOf(f)[n]) => slots'[f][n] = slots[f][n]
  BY <1>2, <1>4 DEF IsSet
<1>8. Variables'
  <2>1. \A f \in Frames : DOMAIN slots'[f] = {} \/ Full(f)'
    BY <1>4, <1>6, <1>7 DEF Variables, Full
  <2>2. \A f \in Frames : \A n \in DOMAIN slots'[f] :
           ~IsPtr(TypesOf(f)'[n]) => HasType(TypesOf(f)'[n], slots'[f][n])
    BY <1>4, <1>6, <1>7 DEF Variables
  <2>3. phase = "end_handler" => Empty({"received", "returned"})' /\ Full("request")' /\ Full("response")'
    BY <1>4, <1>6, <1>7 DEF Variables, Full, Empty, Frames
  <2> QED
    BY <1>1, <1>2, <1>7, <2>1, <2>2, <2>3 DEF Variables
<1>9. Pointing' /\ Answering'
  BY <1>1, <1>2 DEF Pointing, Answering, Filled
<1>10. NewBlob'
  BY <1>2, <1>3 DEF NewBlob
<1>11. BlobStreams'
  <2>1. phase # "returned" => streams' = {}
    BY <1>3, <1>5, ParamFacts
  <2>2. phase = "returned" =>
         /\ IsFiniteSet(streams')
         /\ \A s \in streams' :
              /\ s = [blob |-> s.blob, who |-> s.who, mode |-> "READ", curr_pos |-> s.curr_pos]
              /\ s.blob \in DOMAIN blobs'
         /\ \A s, t \in streams' : s.who = t.who => s = t
    BY <1>3, <1>5 DEF CallInv, BlobStreams
  <2> QED
    BY <1>2, <1>3, <2>1, <2>2 DEF BlobStreams
<1>12. Types'
  BY <1>2 DEF CallInv, Types
<1> QED
  BY <1>5, <1>8, <1>9, <1>10, <1>11, <1>12 DEF CallInv, Core

LEMMA ReturnResponseStep ==
    ASSUME CallInv, ReturnResponse
    PROVE  CallInv'
<1>1. /\ phase = "read_response" /\ phase' = "end_method" /\ AllDone("received")
      /\ slots' = [slots EXCEPT !["returned"] = slots["received"]]
      /\ i' = 1 /\ step' = "param"
      /\ UNCHANGED <<streams, disk, files, remaining, wire, method_id, served_id, answer>>
  BY DEF ReturnResponse, EndMethod, callVars
<1>2. i \notin DOMAIN TypesOf("received")
  <2>1. /\ Len(TypesOf("received")) \in Nat
        /\ DOMAIN TypesOf("received") = 1 .. Len(TypesOf("received"))
    BY TypesOfType DEF CallInv, Types, Frames
  <2> DEFINE S == {1} \union DOMAIN TypesOf("received")
             N == Len(TypesOf("received")) + 1
  <2>2. N \in Nat /\ S \in SUBSET (0 .. N) /\ S # {}
    BY <2>1
  <2>3. i > Max(S)
    BY <1>1 DEF AllDone
  <2>4. i \in Nat
    BY DEF CallInv, Types
  <2>5. DOMAIN TypesOf("received") \subseteq S
    OBVIOUS
  <2> HIDE DEF S, N
  <2>6. Max(S) \in S /\ \A x \in S : x <= Max(S)
    BY <2>2, MaxFacts
  <2>7. Max(S) \in Nat
    <3>1. Max(S) \in 0 .. N
      BY <2>2, <2>6
    <3> QED
      BY <2>2, <3>1
  <2>8. i \notin S
    BY <2>3, <2>4, <2>6, <2>7
  <2> QED
    BY <2>5, <2>8
<1>3. step = "param"
  <2>1. Reading = "received"
    BY <1>1 DEF Reading
  <2> QED
    BY <1>2, <2>1 DEF CallInv, NewBlob
<1>4. Core' /\ streams = {}
  BY <1>1, <1>3, CoreReturn DEF ReturnResponse
<1>5. \A f : TypesOf(f)' = TypesOf(f)
  BY <1>1 DEF TypesOf
<1>6. Variables'
  <2>1. /\ DOMAIN slots' = Frames /\ slots'["returned"] = slots["received"]
        /\ \A f \in Frames \ {"returned"} : slots'[f] = slots[f]
    BY <1>1 DEF CallInv, Variables, Frames
  <2>2. TypesOf("returned") = TypesOf("received")
    BY DEF TypesOf
  <2>3. ASSUME NEW f \in Frames
        PROVE  /\ DOMAIN slots'[f] = {} \/ Full(f)'
               /\ \A n \in DOMAIN slots'[f] :
                    ~IsPtr(TypesOf(f)'[n]) => HasType(TypesOf(f)'[n], slots'[f][n])
    <3>1. PICK h \in Frames : slots'[f] = slots[h] /\ TypesOf(f)' = TypesOf(h)
      BY <1>5, <2>1, <2>2 DEF Frames
    <3> QED
      BY <3>1 DEF CallInv, Variables, Full
  <2> QED
    BY <1>1, <2>1, <2>3 DEF Variables
<1>7. Pointing' /\ Answering'
  BY <1>1 DEF Pointing, Answering, Filled
<1>8. BlobStreams' /\ NewBlob'
  BY <1>1, <1>4, NoStreams
<1>9. Types'
  BY <1>1 DEF CallInv, Types, Phases
<1> QED
  BY <1>4, <1>6, <1>7, <1>8, <1>9 DEF CallInv, Core

LEMMA UsesBlobStep ==
    ASSUME CallInv, ApplicationUsesBlob
    PROVE  CallInv'
<1>1. /\ phase = "returned" /\ SameSlots
      /\ UNCHANGED <<phase, step, i, wire, arrays, answer>>
  BY DEF ApplicationUsesBlob, SameSlots, callVars
<1>2. /\ step = "param" /\ step' = "param" /\ IsFiniteSet(streams) /\ Core
      /\ UNCHANGED arrays
  BY <1>1, StepParam, FiniteStreams DEF Filled, CallInv, Core
<1>3. /\ \A s \in streams :
           /\ s = [blob |-> s.blob, who |-> s.who, mode |-> "READ", curr_pos |-> s.curr_pos]
           /\ s.blob \in DOMAIN blobs
      /\ \A s, t \in streams : s.who = t.who => s = t
  BY <1>1 DEF CallInv, BlobStreams
<1> DEFINE Good ==
      /\ IsFiniteSet(streams')
      /\ \A s \in streams' :
           /\ s = [blob |-> s.blob, who |-> s.who, mode |-> "READ", curr_pos |-> s.curr_pos]
           /\ s.blob \in DOMAIN blobs'
      /\ \A s, t \in streams' : s.who = t.who => s = t
<1>4. ASSUME NEW b \in DOMAIN blobs, MoveBlob(b)
      PROVE  Core' /\ Good
  <2>1. Core' /\ DOMAIN blobs' = DOMAIN blobs /\ UNCHANGED streams
    BY <1>1, <1>2, <1>4, CoreMove
  <2> QED
    BY <1>2, <1>3, <2>1
<1>5. ASSUME NEW b \in DOMAIN blobs, NEW r, \A s \in streams : s.who # r, OpenBlobToRead(b, r)
      PROVE  Core' /\ Good
  <2> DEFINE t == [blob |-> b, who |-> r, mode |-> "READ", curr_pos |-> 0]
  <2>1. /\ Core' /\ DOMAIN blobs' = DOMAIN blobs
        /\ streams' = streams \union {t}
    BY <1>1, <1>2, <1>5, CoreOpenRead
  <2>2. IsFiniteSet(streams')
    BY <1>2, <2>1, FS_AddElement
  <2>3. /\ t = [blob |-> t.blob, who |-> t.who, mode |-> "READ", curr_pos |-> t.curr_pos]
        /\ t.blob = b /\ t.who = r
    OBVIOUS
  <2> HIDE DEF t
  <2>4. \A s \in streams' :
           /\ s = [blob |-> s.blob, who |-> s.who, mode |-> "READ", curr_pos |-> s.curr_pos]
           /\ s.blob \in DOMAIN blobs'
    <3>1. SUFFICES ASSUME NEW s \in streams'
                   PROVE  /\ s = [blob |-> s.blob, who |-> s.who, mode |-> "READ",
                                  curr_pos |-> s.curr_pos]
                          /\ s.blob \in DOMAIN blobs'
      OBVIOUS
    <3>2. CASE s \in streams
      BY <1>3, <2>1, <3>2
    <3>3. CASE s = t
      BY <2>1, <2>3, <3>3
    <3> QED
      BY <2>1, <3>2, <3>3
  <2>5. \A s, u \in streams' : s.who = u.who => s = u
    <3>1. SUFFICES ASSUME NEW s \in streams', NEW u \in streams', s.who = u.who
                   PROVE  s = u
      OBVIOUS
    <3>2. CASE s \in streams /\ u \in streams
      BY <1>3, <3>1, <3>2
    <3>3. CASE s = t /\ u \in streams
      BY <1>5, <2>3, <3>1, <3>3
    <3>4. CASE s \in streams /\ u = t
      BY <1>5, <2>3, <3>1, <3>4
    <3> QED
      BY <2>1, <3>2, <3>3, <3>4
  <2> QED
    BY <2>1, <2>2, <2>4, <2>5
<1>6. ASSUME NEW s \in streams, ReadBlobStream(s, 1)
      PROVE  Core' /\ Good
  <2> DEFINE t == [s EXCEPT !.curr_pos = @ + 1]
             rest == streams \ {s}
  <2>1. /\ streams' = (streams \ {s}) \union {t}
        /\ UNCHANGED <<arrays, blobs, disk, files, remaining>>
    BY <1>1, <1>6 DEF ReadBlobStream, Advanced
  <2>2. s = [blob |-> s.blob, who |-> s.who, mode |-> "READ", curr_pos |-> s.curr_pos]
    BY <1>3
  <2>3. /\ t = [blob |-> t.blob, who |-> t.who, mode |-> "READ", curr_pos |-> t.curr_pos]
        /\ t.blob = s.blob /\ t.who = s.who
    BY <2>2
  <2> HIDE DEF t
  <2>4. Core'
    BY <1>1, <1>2, <1>3, <2>1, <2>3, CoreRead
  <2>5. IsFiniteSet(streams')
    <3>1. IsFiniteSet(rest)
      BY <1>2, FS_Subset
    <3>2. streams' = rest \union {t}
      BY <2>1
    <3> HIDE DEF rest
    <3> QED
      BY <3>1, <3>2, FS_AddElement
  <2>6. \A u \in streams' :
           /\ u = [blob |-> u.blob, who |-> u.who, mode |-> "READ", curr_pos |-> u.curr_pos]
           /\ u.blob \in DOMAIN blobs'
    <3>1. SUFFICES ASSUME NEW u \in streams'
                   PROVE  /\ u = [blob |-> u.blob, who |-> u.who, mode |-> "READ",
                                  curr_pos |-> u.curr_pos]
                          /\ u.blob \in DOMAIN blobs'
      OBVIOUS
    <3>2. CASE u \in streams
      BY <1>3, <2>1, <3>2
    <3>3. CASE u = t
      BY <1>3, <2>1, <2>3, <3>3
    <3> QED
      BY <2>1, <3>2, <3>3
  <2>7. \A u, v \in streams' : u.who = v.who => u = v
    <3>1. SUFFICES ASSUME NEW u \in streams', NEW v \in streams', u.who = v.who
                   PROVE  u = v
      OBVIOUS
    <3>2. \A w \in rest : w \in streams /\ w.who # s.who
      BY <1>3
    <3>3. CASE u \in rest /\ v \in rest
      BY <1>3, <3>1, <3>2, <3>3
    <3>4. CASE u = t /\ v \in rest
      BY <2>3, <3>1, <3>2, <3>4
    <3>5. CASE u \in rest /\ v = t
      BY <2>3, <3>1, <3>2, <3>5
    <3> QED
      BY <2>1, <3>3, <3>4, <3>5
  <2> QED
    BY <2>4, <2>5, <2>6, <2>7
<1>7. ASSUME NEW s \in streams, DeleteBlobStream(s, 0)
      PROVE  Core' /\ Good
  <2>1. /\ Core' /\ streams' = streams \ {s}
        /\ \A t \in streams' : t.blob \in DOMAIN blobs => t.blob \in DOMAIN blobs'
    BY <1>1, <1>2, <1>3, <1>7, CoreCloseRead
  <2>2. IsFiniteSet(streams')
    BY <1>2, <2>1, FS_Subset
  <2> QED
    BY <1>3, <2>1, <2>2
<1>8. Core' /\ Good
  BY <1>4, <1>5, <1>6, <1>7 DEF ApplicationUsesBlob
<1>9. BlobStreams' /\ NewBlob'
  BY <1>1, <1>2, <1>8 DEF BlobStreams, NewBlob
<1>10. Variables'
  <2>1. /\ DOMAIN slots' = Frames
        /\ \A f \in Frames : DOMAIN slots'[f] = {} \/ Full(f)'
        /\ \A f \in Frames : \A n \in DOMAIN slots'[f] :
             ~IsPtr(TypesOf(f)'[n]) => HasType(TypesOf(f)'[n], slots'[f][n])
    BY <1>1, FramesSame DEF CallInv
  <2> QED
    BY <1>1, <2>1 DEF Variables
<1>11. Pointing' /\ Answering'
  BY <1>1 DEF Pointing, Answering, Filled
<1>12. Types'
  BY <1>1 DEF CallInv, Types, SameSlots
<1> QED
  BY <1>8, <1>9, <1>10, <1>11, <1>12 DEF CallInv, Core

LEMMA CallStep ==
    ASSUME CallInv, Call
    PROVE  CallInv'
<1>1. PICK id \in 0 .. Len(Methods) - 1 : \E v \in Arguments[id + 1] :
        /\ method_id' = id /\ slots' = [slots EXCEPT !["args"] = ArgSlots(id, v)]
        /\ arrays' = ArgArrays(id, v) /\ blobs' = ArgBlobs(id, v)
        /\ files' = Max({0} \union ParamsOf(id, {"blob"})) /\ disk' = ArgFiles(id, v)
  BY DEF Call, ArgSlots, ArgArrays, ArgBlobs, ArgFiles, ParamsOf
<1>2. PICK v \in Arguments[id + 1] :
        /\ method_id' = id /\ slots' = [slots EXCEPT !["args"] = ArgSlots(id, v)]
        /\ arrays' = ArgArrays(id, v) /\ blobs' = ArgBlobs(id, v)
        /\ files' = Max({0} \union ParamsOf(id, {"blob"})) /\ disk' = ArgFiles(id, v)
  BY <1>1
<1> DEFINE types == Methods[id + 1].request
<1>3. /\ phase = "idle" /\ phase' = "create_stream"
      /\ UNCHANGED <<served_id, step, streams, remaining, i, wire, answer>>
  BY DEF Call
<1>4. /\ streams = {} /\ step = "param"
  BY <1>3, IdleFacts
<1>5. types = Methods[id + 1].request /\ \A n \in DOMAIN types : HasType(types[n], v[n])
  BY ArgumentTypes
<1>14. UNCHANGED <<served_id, step, streams, remaining>>
  BY <1>3
<1> HIDE DEF types
<1>6. /\ Core' /\ DOMAIN slots'["args"] = DOMAIN types /\ TypesOf("args")' = types
      /\ \A n \in DOMAIN types : /\ IsPtr(types[n]) => IsSet("args", n)'
                                 /\ ~IsPtr(types[n]) => slots'["args"][n] = v[n]
  BY <1>2, <1>3, <1>5, <1>14, CoreCall
<1>7. /\ DOMAIN slots' = Frames
      /\ \A f \in Frames \ {"args"} : DOMAIN slots'[f] = {}
  BY <1>2, <1>3 DEF CallInv, Variables, Empty, Frames
<1>8. Full("args")'
  BY <1>6 DEF Full
<1>9. Variables'
  <2>1. \A f \in Frames : DOMAIN slots'[f] = {} \/ Full(f)'
    BY <1>7, <1>8
  <2>2. \A f \in Frames : \A n \in DOMAIN slots'[f] :
           ~IsPtr(TypesOf(f)'[n]) => HasType(TypesOf(f)'[n], slots'[f][n])
    BY <1>5, <1>6, <1>7
  <2>3. Empty(Frames \ {"args"})'
    BY <1>7 DEF Empty
  <2> QED
    BY <1>3, <1>7, <1>8, <2>1, <2>2, <2>3 DEF Variables
<1>10. Pointing'
  BY <1>3, <1>6 DEF Pointing, Filled
<1>11. BlobStreams' /\ NewBlob'
  BY <1>3, <1>4, NoStreams
<1>12. Types'
  BY <1>2, <1>3 DEF CallInv, Types, Phases
<1>13. Answering'
  BY <1>3 DEF CallInv, Answering
<1> QED
  BY <1>6, <1>9, <1>10, <1>11, <1>12, <1>13 DEF CallInv, Core

(***************************************************************************)
(* The theorems                                                            *)
(***************************************************************************)

LEMMA CallInit ==
    ASSUME Init
    PROVE  CallInv
<1>1. /\ phase = "idle" /\ step = "param" /\ method_id = 0 /\ served_id = 0 /\ i = 1
      /\ wire = <<>> /\ slots = [f \in Frames |-> <<>>] /\ DOMAIN arrays = {}
      /\ DOMAIN blobs = {} /\ streams = {} /\ DOMAIN disk = {} /\ files = 0 /\ remaining = {}
      /\ answer = <<>>
  BY DEF Init, BlobInit
<1>2. \A f \in Frames : DOMAIN slots[f] = {}
  BY <1>1
<1>3. \A f \in Frames : \A n : ~IsSet(f, n)
  BY <1>2 DEF IsSet
<1>4. Types
  <2>1. Len(Methods) \in Nat /\ Len(Methods) # 0
    BY RpcCallAssumption
  <2>2. 0 \in 0 .. Len(Methods) - 1
    BY <2>1
  <2> QED
    BY <1>1, <2>2 DEF Types, Phases
<1>5. Variables
  <2>1. DOMAIN slots = Frames /\ Empty(Frames)
    BY <1>1, <1>2 DEF Empty
  <2> QED
    BY <1>1, <1>2, <2>1 DEF Variables
<1>6. Pointing /\ Answering /\ NewBlob /\ BlobStreams
  BY <1>1 DEF Pointing, Answering, NewBlob, BlobStreams, Filled
<1>7. Objects /\ RefsOK
  BY <1>1, <1>3 DEF Objects, RefsOK
<1>8. Files
  BY <1>1 DEF Files, FilesMatchBlobs
<1> QED
  BY <1>4, <1>5, <1>6, <1>7, <1>8 DEF CallInv

LEMMA CallStutters ==
    ASSUME CallInv, UNCHANGED vars
    PROVE  CallInv'
<1>1. UNCHANGED <<blobs, streams, disk, files, remaining, phase, step, i, wire, slots, arrays,
                  method_id, served_id, answer>>
  BY DEF vars, blobVars, callVars
<1>2. \A f : TypesOf(f)' = TypesOf(f)
  BY <1>1 DEF TypesOf
<1>3. Reading' = Reading /\ Name' = Name
  BY <1>1 DEF Reading, Name
<1>4. Type' = Type
  BY <1>1, <1>2, <1>3 DEF Type
<1>5. \A f, n : IsSet(f, n)' = IsSet(f, n)
  BY <1>1, <1>2 DEF IsSet
<1>6. /\ \A f : Full(f)' = Full(f) /\ \A fs : Empty(fs)' = Empty(fs)
      /\ \A o : /\ IsName(o)' = IsName(o) /\ ObjType(o)' = ObjType(o) /\ Count(o)' = Count(o)
                /\ OpenStreams(o)' = OpenStreams(o) /\ Filling(o)' = Filling(o) /\ Path(o)' = Path(o)
  BY <1>1, <1>2, <1>3, <1>5 DEF Full, Empty, IsName, ObjType, Count, OpenStreams, Filling, Path
<1>7. Types' /\ Answering' /\ NewBlob' /\ BlobStreams'
  BY <1>1, <1>2, <1>3, <1>4, <1>6 DEF CallInv, Types, Answering, NewBlob, BlobStreams
<1>8. Variables'
  BY <1>1, <1>2, <1>6 DEF CallInv, Variables
<1>9. Pointing'
  BY <1>1, <1>2, <1>3, <1>5 DEF CallInv, Pointing
<1>10. Objects' /\ RefsOK'
  BY <1>1, <1>5, <1>6 DEF CallInv, Objects, RefsOK
<1>11. Files'
  BY <1>1, <1>6 DEF CallInv, Files, BlobType, FilesMatchBlobs
<1> QED
  BY <1>7, <1>8, <1>9, <1>10, <1>11 DEF CallInv

LEMMA CallNext ==
    ASSUME CallInv, [Next]_vars
    PROVE  CallInv'
<1>1. CASE UNCHANGED vars
  BY <1>1, CallStutters
<1>2. CASE \/ WriteMethodId \/ WriteRequestFails \/ FlushRequest \/ CallService
           \/ ServiceReturns \/ WriteEmptyByte \/ HandlerSucceeds \/ WriteResponseFails
           \/ ReadEmptyByte \/ BytesLost \/ ForeignClient
  BY <1>2, SomeOnwards
<1>3. CASE WriteParam \/ ReadNegativeLength
  BY <1>3, WriteParamStep, NegativeStep
<1>4. CASE ReadParam \/ ServiceSets
  BY <1>4, ReadParamStep, ServiceSetsStep
<1>5. CASE ReadLength \/ ServiceCreates
  BY <1>5, ReadLengthStep, ServiceCreatesStep
<1>6. CASE OpenNewBlob \/ CopyNewBlob \/ FlushNewBlob \/ ServiceFills
  BY <1>6, OpenNewBlobStep, CopyNewBlobStep, FlushNewBlobStep, ServiceFillsStep
<1>7. CASE CloseNewBlob \/ ServiceCloses
  BY <1>7, CloseNewBlobStep, ServiceClosesStep
<1>8. CASE ReadRequestFails \/ ReadResponseFails \/ ServiceBeginsAgain
  BY <1>8, ReadFailsStep, ServiceBeginsAgainStep
<1>9. CASE ReadMethodId \/ ReadMethodIdFails \/ ForeignServer
  BY <1>9, ReadMethodIdStep, NoHandlerStep
<1>10. CASE HandlerEnds \/ MethodEnds
  BY <1>10, HandlerEndsStep, MethodEndsStep
<1>11. CASE DropNext \/ ApplicationDrops
  BY <1>11, DropStep
<1>12. CASE ReturnResponse \/ ApplicationUsesBlob \/ Call
  BY <1>12, ReturnResponseStep, UsesBlobStep, CallStep
<1> QED
  BY <1>1, <1>2, <1>3, <1>4, <1>5, <1>6, <1>7, <1>8, <1>9, <1>10, <1>11, <1>12
  DEF Next, Terminated

LEMMA CallInvariant == Spec => []CallInv
<1>1. Init => CallInv
  BY CallInit
<1>2. CallInv /\ [Next]_vars => CallInv'
  BY CallNext
<1> QED
  BY <1>1, <1>2, PTL DEF Spec

\* Every array and every blob has exactly as many references as variables,
\* streams and functions hold, in whatever order the generated functions, the
\* service and the application fail, drop and close, and whatever the peer
\* sends: nothing is freed too early, and nothing is left at the end.
THEOREM RefsCorrect == Spec => []RefsExact
<1>1. CallInv => RefsExact
  <2>1. CallInv => \A o \in DOMAIN arrays \union DOMAIN blobs : o[1] \in Owners
    BY DEF CallInv, Objects, IsName
  <2> QED
    BY <2>1, RefsForm DEF CallInv
<1> QED
  BY <1>1, CallInvariant, PTL

\* No failure of the functions that fill, drop, move or read a blob leaves a
\* file behind or takes one away, and a blob that is complete has all its bytes.
THEOREM FilesCorrect == Spec => []FilesMatchBlobs
<1>1. CallInv => FilesMatchBlobs
  BY DEF CallInv, Files
<1> QED
  BY <1>1, CallInvariant, PTL

\* For every sequence of bytes that a peer sends, the unserialize functions
\* leave only values of the declared types in the variables, and only blobs
\* that are complete.
THEOREM RangesCorrect == Spec => []ReceivedInRange
<1>1. CallInv => ReceivedInRange
  <2>1. SUFFICES ASSUME CallInv, NEW f \in {"request", "received"}, NEW n \in DOMAIN slots[f],
                        IsPtr(TypesOf(f)[n]) => IsSet(f, n)
                 PROVE  /\ HasType(TypesOf(f)[n], ValueOf(f, n))
                        /\ TypesOf(f)[n] = "blob" => blobs[<<f, n>>].state = "COMPLETE"
    BY DEF ReceivedInRange
  <2>2. f \in Frames /\ Owner(f) = f
    BY DEF Frames, Owner
  <2> QED
    BY <2>1, <2>2, ValueTyped
<1> QED
  BY <1>1, CallInvariant, PTL
=============================================================================
