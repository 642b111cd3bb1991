------------------------------- MODULE MrpcInt -------------------------------
(***************************************************************************)
(* mrpc_int.c, mrpc_char_array.c and mrpc_wchar_array.c: how integers and  *)
(* character arrays become bytes and how they are read back.  An integer   *)
(* is cut into octets of OctetBits bits, the lowest first; the next bit of *)
(* a byte says that more octets follow.                                    *)
(*                                                                         *)
(* An unserialize function returns [ok, value, rest]: rest is what it      *)
(* leaves in the stream.  The get_hash functions are left out.             *)
(***************************************************************************)
EXTENDS Integers, SequencesExt

CONSTANTS
    OctetBits,               \* BITS_PER_OCTET: 7
    LongBits,                \* 64
    WordBits,                \* 32
    MaxArrayLength,          \* MAX_CHAR_ARRAY_LENGTH and MAX_WCHAR_ARRAY_LENGTH
    CharLimit                \* 0x10000

ASSUME MrpcIntAssumption ==
    /\ OctetBits \in Nat \ {0}
    /\ WordBits \in Nat \ {0} /\ LongBits \in Nat /\ LongBits >= WordBits
    /\ MaxArrayLength \in 0 .. 2^(WordBits - 1) - 1
    /\ CharLimit \in 1 .. 2^WordBits

\* what the proofs use of the powers of 2
ASSUME PowersOfTwo ==
    \A k \in 0 .. LongBits * OctetBits : 2^k \in Nat \ {0} /\ 2^(k + 1) = 2 * 2^k

ContinueFlag == 2^OctetBits            \* CONTINUE_NUMBER_FLAG
Bytes == 0 .. 2 * ContinueFlag - 1

Failed == [ok |-> FALSE, value |-> <<>>, rest |-> <<>>]
Read(v, r) == [ok |-> TRUE, value |-> v, rest |-> r]

\* value of the bits that octet i, counted from 0, stands for
Shifted(octet, i) == octet * 2^(i * OctetBits)

\* the octets of mrpc_uint64_serialize: one, and more while data is not 0
OctetsCnt(data) == Min({n \in 1 .. LongBits : data < Shifted(1, n)})

Octet(data, i) == (data \div Shifted(1, i)) % ContinueFlag

\* mutant: no flag on the octet before the last one
FlagTooFew(data) ==
    LET n == OctetsCnt(data)
    IN  [i \in 1 .. n |->
            Octet(data, i - 1) + (IF i + 1 < n THEN ContinueFlag ELSE 0)]

\* mrpc_uint64_serialize
Uint64Serialize(data) ==
    LET n == OctetsCnt(data)
    IN  [i \in 1 .. n |->
            Octet(data, i - 1) + (IF i < n THEN ContinueFlag ELSE 0)]

\* mrpc_uint64_unserialize: at most as many octets as start below bit 64;
\* bits of the last one that lie above are lost
Uint64Unserialize(s) ==
    LET ends == {n \in 1 .. Len(s) : s[n] < ContinueFlag}
        n    == Min(ends)
        sum[i \in 0 .. n] ==
            IF i = 0 THEN 0 ELSE sum[i - 1] + Shifted(s[i] % ContinueFlag, i - 1)
    IN  IF ends = {} \/ (n - 1) * OctetBits >= LongBits THEN Failed
        ELSE Read(sum[n] % 2^LongBits, SubSeq(s, n + 1, Len(s)))

\* mrpc_uint32_serialize, mrpc_uint32_unserialize
Uint32Serialize(data) == Uint64Serialize(data)

\* mutant: the range is not checked
Uint32Unchecked(s) == Uint64Unserialize(s)

Uint32Unserialize(s) ==
    LET r == Uint64Unserialize(s)
    IN  IF r.ok /\ r.value >= 2^WordBits THEN Failed ELSE r

\* (data << 1) ^ (data >> 63), and back
ZigZag(data) == IF data >= 0 THEN 2 * data ELSE -2 * data - 1
UnZigZag(u_data) ==
    IF u_data % 2 = 0 THEN u_data \div 2 ELSE -(u_data \div 2) - 1

Signed(r) == IF r.ok THEN [r EXCEPT !.value = UnZigZag(@)] ELSE r

\* mrpc_int64_serialize, mrpc_int64_unserialize
Int64Serialize(data) == Uint64Serialize(ZigZag(data))
Int64Unserialize(s) == Signed(Uint64Unserialize(s))

\* mrpc_int32_serialize, mrpc_int32_unserialize
Int32Serialize(data) == Uint32Serialize(ZigZag(data))
Int32Unserialize(s) == Signed(Uint32Unserialize(s))

-----------------------------------------------------------------------------
\* n bytes of a stream: ff_stream_read
TakeBytes(s, n) ==
    IF n > Len(s) THEN Failed
    ELSE Read(SubSeq(s, 1, n), SubSeq(s, n + 1, Len(s)))

\* mrpc_char_array_serialize, mrpc_char_array_unserialize
CharArraySerialize(value) == Uint32Serialize(Len(value)) \o value

CharArrayUnserialize(s) ==
    LET u_len == Uint32Unserialize(s)
    IN  IF ~u_len.ok \/ u_len.value > MaxArrayLength THEN Failed
        ELSE TakeBytes(u_len.rest, u_len.value)

\* mrpc_wchar_array_serialize: each character is an integer
WcharArraySerialize(value) ==
    Uint32Serialize(Len(value))
        \o FlattenSeq([i \in DOMAIN value |-> Uint32Serialize(value[i])])

\* the loop of mrpc_wchar_array_unserialize: one character more
ReadChar(r) ==
    LET ch == Uint32Unserialize(r.rest)
    IN  IF ~r.ok \/ ~ch.ok \/ ch.value >= CharLimit THEN Failed
        ELSE Read(Append(r.value, ch.value), ch.rest)

WcharArrayUnserialize(s) ==
    LET u_len == Uint32Unserialize(s)
        upto[i \in 0 .. MaxArrayLength] ==
            IF i = 0 THEN Read(<<>>, u_len.rest) ELSE ReadChar(upto[i - 1])
    IN  IF ~u_len.ok \/ u_len.value > MaxArrayLength THEN Failed
        ELSE upto[u_len.value]
=============================================================================
