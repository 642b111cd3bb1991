------------------------- MODULE PacketStreamProofs -------------------------
(***************************************************************************)
(* Proofs about PacketStream: the packet streams implement a stream of     *)
(* bytes, and a message that has been read leaves no packet behind, for    *)
(* messages, packets, reads and writes of any size.  Both rest on how the  *)
(* bytes that have been written and not read are spread over the packets.  *)
(***************************************************************************)
EXTENDS PacketStream, SequenceTheorems, CommonFacts, TLAPS

(***************************************************************************)
(* Bytes that follow each other                                            *)
(***************************************************************************)

LEMMA BytesFromType ==
    ASSUME NEW a \in Nat, NEW n \in Nat
    PROVE  BytesFrom(a, n) \in Seq(Nat) /\ Len(BytesFrom(a, n)) = n
BY DEF BytesFrom

LEMMA NoBytes ==
    ASSUME NEW a \in Nat PROVE BytesFrom(a, 0) = <<>>
BY DEF BytesFrom

LEMMA MoreBytes ==
    ASSUME NEW a \in Nat, NEW n \in Nat, NEW m \in Nat
    PROVE  BytesFrom(a, n) \o BytesFrom(a + n, m) = BytesFrom(a, n + m)
<1> DEFINE s == BytesFrom(a, n)
           t == BytesFrom(a + n, m)
           r == BytesFrom(a, n + m)
<1>0. a + n \in Nat /\ n + m \in Nat
  OBVIOUS
<1>1. s \in Seq(Nat) /\ Len(s) = n /\ t \in Seq(Nat) /\ Len(t) = m
  BY <1>0, BytesFromType, Zenon
<1>2. r \in Seq(Nat) /\ Len(r) = n + m
  BY <1>0, BytesFromType, Zenon
<1>3. s \o t \in Seq(Nat) /\ Len(s \o t) = n + m
  BY <1>1, ConcatProperties
<1>4. ASSUME NEW i \in 1 .. n + m PROVE (s \o t)[i] = r[i]
  <2>1. (s \o t)[i] = IF i <= n THEN s[i] ELSE t[i - n]
    BY <1>1, ConcatProperties
  <2>2. CASE i <= n
    BY <2>1, <2>2 DEF BytesFrom
  <2>3. CASE i > n
    BY <2>1, <2>3 DEF BytesFrom
  <2>4. i <= n \/ i > n
    OBVIOUS
  <2> HIDE DEF s, t, r
  <2>5. QED
    BY <2>2, <2>3, <2>4
<1> HIDE DEF s, t, r
<1>5. QED
  BY <1>2, <1>3, <1>4, SeqEqual DEF s, t, r

\* the first k bytes, and the rest
LEMMA FirstBytes ==
    ASSUME NEW a \in Nat, NEW n \in Nat, NEW k \in 0 .. n
    PROVE  /\ SubSeq(BytesFrom(a, n), 1, k) = BytesFrom(a, k)
           /\ SubSeq(BytesFrom(a, n), k + 1, n) = BytesFrom(a + k, n - k)
BY DEF BytesFrom

-----------------------------------------------------------------------------
(***************************************************************************)
(* Packets that follow each other                                          *)
(***************************************************************************)
PacketTypes == {"NULL", "START", "MIDDLE", "END", "SINGLE"}
Buffers == {d \in Seq(Nat) : Len(d) <= MaxPacketSize}
Packets == [type : PacketTypes, data : Buffers]

\* packet i has the bytes from off[i] on
Links(q, off) ==
    \A i \in 1 .. Len(q) :
        /\ q[i].data = BytesFrom(off[i], Len(q[i].data))
        /\ off[i + 1] = off[i] + Len(q[i].data)

\* The packets of q have the bytes after number a, up to number b.
Chained(q, a, b) ==
    \E off \in [1 .. Len(q) + 1 -> Nat] :
        off[1] = a /\ off[Len(q) + 1] = b /\ Links(q, off)

LEMMA PacketFields ==
    ASSUME NEW p \in Packets
    PROVE  /\ p.type \in PacketTypes /\ p.data \in Seq(Nat) /\ Len(p.data) \in Nat
           /\ Len(p.data) <= MaxPacketSize
BY DEF Packets, Buffers

LEMMA ChainEmpty ==
    ASSUME NEW a \in Nat
    PROVE  Chained(<<>>, a, a) /\ \A b : Chained(<<>>, a, b) => b = a
<1>1. Chained(<<>>, a, a)
  <2> DEFINE off == [i \in 1 .. 1 |-> a]
  <2>1. off \in [1 .. 0 + 1 -> Nat] /\ off[1] = a /\ off[0 + 1] = a
    OBVIOUS
  <2>2. Len(<<>>) = 0 /\ Links(<<>>, off)
    BY DEF Links
  <2>3. QED
    BY <2>1, <2>2 DEF Chained
<1>2. ASSUME NEW b, Chained(<<>>, a, b) PROVE b = a
  BY <1>2 DEF Chained
<1>3. QED
  BY <1>1, <1>2

LEMMA ChainType ==
    ASSUME NEW q \in Seq(Packets), NEW a, NEW b, Chained(q, a, b)
    PROVE  a \in Nat /\ b \in Nat
<1>1. Len(q) \in Nat
  OBVIOUS
<1>2. QED
  BY <1>1 DEF Chained

LEMMA ChainAppend ==
    ASSUME NEW q \in Seq(Packets), NEW a, NEW b, Chained(q, a, b),
           NEW p \in Packets, p.data = BytesFrom(b, Len(p.data))
    PROVE  Chained(Append(q, p), a, b + Len(p.data))
<1> DEFINE n == Len(q)
           r == Append(q, p)
<1>1. n \in Nat /\ Len(p.data) \in Nat /\ b \in Nat
  BY PacketFields, ChainType
<1>2. Len(r) = n + 1 /\ r[n + 1] = p /\ \A i \in 1 .. n : r[i] = q[i]
  OBVIOUS
<1>3. PICK off \in [1 .. n + 1 -> Nat] : off[1] = a /\ off[n + 1] = b /\ Links(q, off)
  BY DEF Chained
<1> DEFINE off2 == [i \in 1 .. (n + 1) + 1 |-> IF i <= n + 1 THEN off[i] ELSE b + Len(p.data)]
<1>4. off2 \in [1 .. Len(r) + 1 -> Nat]
  BY <1>1, <1>2
<1>5. off2[1] = a /\ off2[Len(r) + 1] = b + Len(p.data)
  BY <1>1, <1>2, <1>3
<1>6. ASSUME NEW i \in 1 .. Len(r)
      PROVE  r[i].data = BytesFrom(off2[i], Len(r[i].data)) /\ off2[i + 1] = off2[i] + Len(r[i].data)
  <2>1. CASE i <= n
    <3>1. r[i] = q[i] /\ off2[i] = off[i] /\ off2[i + 1] = off[i + 1]
      BY <1>1, <1>2, <2>1
    <3>2. q[i].data = BytesFrom(off[i], Len(q[i].data)) /\ off[i + 1] = off[i] + Len(q[i].data)
      BY <1>2, <1>3, <2>1 DEF Links
    <3>3. QED
      BY <3>1, <3>2
  <2>2. CASE i = n + 1
    <3>1. r[i] = p /\ off2[i] = b /\ off2[i + 1] = b + Len(p.data)
      BY <1>1, <1>2, <1>3, <2>2
    <3>2. QED
      BY <3>1
  <2>3. QED
    BY <1>1, <1>2, <2>1, <2>2
<1> HIDE DEF r, off2
<1>7. Links(r, off2)
  BY <1>6 DEF Links
<1>8. QED
  BY <1>4, <1>5, <1>7 DEF Chained, r

LEMMA ChainHead ==
    ASSUME NEW q \in Seq(Packets), q # <<>>, NEW a, NEW b, Chained(q, a, b)
    PROVE  /\ Head(q) \in Packets /\ Tail(q) \in Seq(Packets)
           /\ Head(q).data = BytesFrom(a, Len(Head(q).data))
           /\ Chained(Tail(q), a + Len(Head(q).data), b)
<1> DEFINE n == Len(q)
           p == Head(q)
           r == Tail(q)
<1>1. n \in Nat \ {0} /\ p \in Packets /\ p = q[1] /\ Len(p.data) \in Nat /\ a \in Nat
  BY PacketFields, ChainType
<1>2. r \in Seq(Packets) /\ Len(r) = n - 1 /\ \A i \in 1 .. n - 1 : r[i] = q[i + 1]
  OBVIOUS
<1>3. PICK off \in [1 .. n + 1 -> Nat] : off[1] = a /\ off[n + 1] = b /\ Links(q, off)
  BY DEF Chained
<1>4. p.data = BytesFrom(a, Len(p.data)) /\ off[2] = a + Len(p.data)
  <2>1. 1 \in 1 .. n /\ 1 + 1 = 2
    BY <1>1
  <2>2. q[1].data = BytesFrom(off[1], Len(q[1].data)) /\ off[1 + 1] = off[1] + Len(q[1].data)
    BY <1>3, <2>1 DEF Links
  <2>3. QED
    BY <1>1, <1>3, <2>1, <2>2
<1> DEFINE off2 == [i \in 1 .. (n - 1) + 1 |-> off[i + 1]]
<1>5. off2 \in [1 .. Len(r) + 1 -> Nat]
  BY <1>1, <1>2
<1>6. off2[1] = a + Len(p.data) /\ off2[Len(r) + 1] = b
  BY <1>1, <1>2, <1>3, <1>4
<1>7. ASSUME NEW i \in 1 .. Len(r)
      PROVE  r[i].data = BytesFrom(off2[i], Len(r[i].data)) /\ off2[i + 1] = off2[i] + Len(r[i].data)
  <2>1. r[i] = q[i + 1] /\ off2[i] = off[i + 1] /\ off2[i + 1] = off[(i + 1) + 1] /\ i + 1 \in 1 .. n
    BY <1>1, <1>2
  <2>2. /\ q[i + 1].data = BytesFrom(off[i + 1], Len(q[i + 1].data))
        /\ off[(i + 1) + 1] = off[i + 1] + Len(q[i + 1].data)
    BY <1>3, <2>1 DEF Links
  <2>3. QED
    BY <2>1, <2>2
<1> HIDE DEF r, off2
<1>8. Links(r, off2)
  BY <1>7 DEF Links
<1>9. Chained(r, a + Len(p.data), b)
  BY <1>5, <1>6, <1>8 DEF Chained
<1>10. QED
  BY <1>1, <1>2, <1>4, <1>9 DEF r

LEMMA ChainOrder ==
    ASSUME NEW q \in Seq(Packets), NEW a, NEW off \in [1 .. Len(q) + 1 -> Nat], off[1] = a, Links(q, off)
    PROVE  \A i \in 0 .. Len(q) : a <= off[i + 1]
<1> DEFINE n == Len(q)
           T == {i \in Nat : a <= off[i + 1]}
<1>1. n \in Nat /\ a \in Nat
  OBVIOUS
<1>2. 0 \in T
  BY <1>1
<1>3. ASSUME NEW i \in 0 .. n - 1, i \in T PROVE i + 1 \in T
  <2>1. i + 1 \in 1 .. n /\ (i + 1) + 1 \in 1 .. n + 1 /\ i + 1 \in 1 .. n + 1 /\ i + 1 \in Nat
    BY <1>1
  <2>2. off[(i + 1) + 1] = off[i + 1] + Len(q[i + 1].data)
    BY <2>1 DEF Links
  <2>3. Len(q[i + 1].data) \in Nat
    BY <2>1, PacketFields
  <2>4. a <= off[(i + 1) + 1]
    BY <1>1, <1>3, <2>1, <2>2, <2>3
  <2>5. QED
    BY <2>1, <2>4
<1> HIDE DEF T
<1>4. 0 .. n \subseteq T
  BY <1>1, <1>2, <1>3, Iterating
<1>5. QED
  BY <1>4 DEF T

LEMMA ChainBounds ==
    ASSUME NEW q \in Seq(Packets), NEW a, NEW b, Chained(q, a, b)
    PROVE  a <= b
<1>1. Len(q) \in 0 .. Len(q)
  OBVIOUS
<1>2. PICK off \in [1 .. Len(q) + 1 -> Nat] : off[1] = a /\ off[Len(q) + 1] = b /\ Links(q, off)
  BY DEF Chained
<1>3. QED
  BY <1>1, <1>2, ChainOrder

\* If the first packet is not empty, there are bytes.
LEMMA ChainHasBytes ==
    ASSUME NEW q \in Seq(Packets), q # <<>>, NEW a, NEW b, Chained(q, a, b), q[1].data # <<>>
    PROVE  a < b
<1>1. a \in Nat /\ b \in Nat
  BY ChainType
<1>2. Head(q) = q[1] /\ Len(Head(q).data) \in Nat /\ Head(q).data \in Seq(Nat)
  BY ChainHead, PacketFields
<1>3. Len(Head(q).data) # 0
  BY <1>2
<1>4. Chained(Tail(q), a + Len(Head(q).data), b) /\ Tail(q) \in Seq(Packets)
  BY ChainHead
<1>5. a + Len(Head(q).data) <= b
  BY <1>4, ChainBounds
<1>6. QED
  BY <1>1, <1>2, <1>3, <1>5

\* The bytes of the packets, put together.
LEMMA ChainFlatten ==
    ASSUME NEW q \in Seq(Packets), NEW a, NEW b, Chained(q, a, b)
    PROVE  FlattenSeq([i \in 1 .. Len(q) |-> q[i].data]) = BytesFrom(a, b - a)
<1> DEFINE n == Len(q)
           seqs == [i \in 1 .. n |-> q[i].data]
<1>1. n \in Nat /\ a \in Nat /\ b \in Nat
  BY ChainType
<1>2. \A i \in 1 .. n : q[i].data \in Seq(Nat) /\ Len(q[i].data) \in Nat
  BY PacketFields
<1>3. seqs \in Seq(Seq(Nat)) /\ Len(seqs) = n /\ \A i \in 1 .. n : seqs[i] = q[i].data
  BY <1>1, <1>2
<1>4. PICK off \in [1 .. n + 1 -> Nat] : off[1] = a /\ off[n + 1] = b /\ Links(q, off)
  BY DEF Chained
<1>5. ASSUME NEW i \in 1 .. n
      PROVE  /\ i \in 1 .. n + 1 /\ i + 1 \in 1 .. n + 1
             /\ off[i] \in Nat /\ off[i + 1] \in Nat /\ a <= off[i] /\ a <= off[i + 1]
             /\ off[i + 1] = off[i] + Len(seqs[i])
             /\ seqs[i] = BytesFrom(off[i], Len(seqs[i])) /\ Len(seqs[i]) \in Nat
  <2>1. i \in 1 .. n + 1 /\ i + 1 \in 1 .. n + 1 /\ i \in 0 .. n /\ i - 1 \in 0 .. n /\ (i - 1) + 1 = i
    BY <1>1
  <2>2. off[i + 1] = off[i] + Len(seqs[i]) /\ seqs[i] = BytesFrom(off[i], Len(seqs[i]))
    BY <1>3, <1>4 DEF Links
  <2>3. a <= off[i + 1] /\ a <= off[(i - 1) + 1]
    BY <1>4, <2>1, ChainOrder
  <2>4. QED
    BY <1>2, <1>3, <2>1, <2>2, <2>3
<1>6. CASE n = 0
  <2>1. seqs = <<>> /\ b = a
    BY <1>3, <1>4, <1>6
  <2>2. FlattenSeq(seqs) = <<>>
    BY <2>1, <1>3, <1>6 DEF FlattenSeq
  <2>3. b - a = 0
    BY <1>1, <2>1
  <2>4. QED
    BY <1>1, <2>2, <2>3, NoBytes
<1>7. CASE n # 0
  <2> DEFINE G(g) == [i \in 1 .. Len(seqs) |-> IF i = 1 THEN seqs[i] ELSE g[i - 1] \o seqs[i]]
             u == CHOOSE g : g = G(g)
             f == [i \in 1 .. n |-> BytesFrom(a, off[i + 1] - a)]
  <2> HIDE DEF seqs
  <2>1. ASSUME NEW i \in 1 .. n, i # 1 PROVE f[i] = f[i - 1] \o seqs[i]
    <3> DEFINE m == off[i] - a
               k == Len(seqs[i])
    <3>1. i - 1 \in 1 .. n /\ (i - 1) + 1 = i
      BY <1>1, <2>1
    <3>2. f[i - 1] = BytesFrom(a, m)
      BY <3>1
    <3>3. m \in Nat /\ k \in Nat /\ off[i] = a + m /\ off[i + 1] - a = m + k
      BY <1>1, <1>5, <2>1
    <3>4. seqs[i] = BytesFrom(a + m, k)
      BY <1>5, <2>1, <3>3
    <3>5. f[i] = BytesFrom(a, m + k)
      BY <2>1, <3>3
    <3> HIDE DEF m, k, f
    <3>6. BytesFrom(a, m) \o BytesFrom(a + m, k) = BytesFrom(a, m + k)
      BY <1>1, <3>3, MoreBytes
    <3>7. QED
      BY <3>2, <3>4, <3>5, <3>6
  <2>2. 1 \in 1 .. n /\ f[1] = seqs[1]
    <3>1. 1 \in 1 .. n /\ 1 + 1 = 2
      BY <1>1, <1>7
    <3>2. off[1 + 1] - a = Len(seqs[1]) /\ seqs[1] = BytesFrom(a, Len(seqs[1]))
      BY <1>1, <1>4, <1>5, <3>1
    <3>3. QED
      BY <3>1, <3>2
  <2>3. f = G(f)
    <3>1. ASSUME NEW i \in 1 .. n PROVE f[i] = IF i = 1 THEN seqs[i] ELSE f[i - 1] \o seqs[i]
      <4> HIDE DEF f
      <4>1. QED
        BY <2>1, <2>2
    <3>2. Len(seqs) = n
      BY <1>3
    <3>3. QED
      BY <3>1, <3>2
  <2> HIDE DEF G
  <2>4. u = G(u)
    BY <2>3
  <2> HIDE DEF u, f
  <2>5. u[n] = f[n]
    <3> DEFINE T == {j \in Nat : u[j + 1] = f[j + 1]}
    <3>1. ASSUME NEW i \in 1 .. n PROVE u[i] = IF i = 1 THEN seqs[i] ELSE u[i - 1] \o seqs[i]
      BY <2>4, <1>3 DEF G
    <3>2. 0 \in T
      BY <2>2, <3>1
    <3>3. ASSUME NEW j \in 0 .. (n - 1) - 1, j \in T PROVE j + 1 \in T
      <4>1. (j + 1) + 1 \in 1 .. n /\ (j + 1) + 1 # 1 /\ ((j + 1) + 1) - 1 = j + 1 /\ j + 1 \in Nat
        BY <1>1
      <4>2. u[(j + 1) + 1] = u[j + 1] \o seqs[(j + 1) + 1]
        BY <3>1, <4>1
      <4>3. f[(j + 1) + 1] = f[j + 1] \o seqs[(j + 1) + 1]
        BY <2>1, <4>1
      <4>4. u[j + 1] = f[j + 1]
        BY <3>3
      <4>5. QED
        BY <4>1, <4>2, <4>3, <4>4
    <3> HIDE DEF T
    <3>4. n - 1 \in Nat /\ (n - 1) + 1 = n
      BY <1>1, <1>7
    <3>5. 0 .. n - 1 \subseteq T
      BY <3>2, <3>3, <3>4, Iterating
    <3>6. n - 1 \in T
      BY <3>4, <3>5
    <3>7. QED
      BY <3>4, <3>6 DEF T
  <2>6. FlattenSeq(seqs) = u[n]
    BY <1>3, <1>7 DEF FlattenSeq, u, G
  <2>7. f[n] = BytesFrom(a, b - a)
    BY <1>1, <1>4, <1>7 DEF f
  <2>8. QED
    BY <2>5, <2>6, <2>7 DEF seqs
<1>8. QED
  BY <1>6, <1>7

-----------------------------------------------------------------------------
(***************************************************************************)
(* The inductive invariant                                                 *)
(***************************************************************************)
Types ==
    /\ current_write_packet \in Packets /\ current_read_packet \in Packets
    /\ writer_queue \in Seq(Packets) /\ reader_queue \in Seq(Packets)
    /\ to_write \in 0 .. MaxLen /\ written \in Nat /\ written + to_write <= MaxBytes
    /\ pc \in {"idle", "prefetch", "next"}
    /\ left \in 0 .. MaxLen
    /\ result \in {"none", "reading", "success", "failure"}
    /\ received \in Seq(Nat)
    /\ disconnected \in BOOLEAN

\* The bytes up to number mid have reached the reading stream.
PushedUpTo(mid) ==
    /\ Chained(reader_queue, Len(received) + Len(current_read_packet.data), mid)
    /\ Chained(writer_queue, mid, written - Len(current_write_packet.data))

\* From the bytes that have been read to the last one that has been written,
\* all are there, each once and in order.
Carried ==
    /\ received = BytesFrom(0, Len(received))
    /\ current_read_packet.data = BytesFrom(Len(received), Len(current_read_packet.data))
    /\ Len(current_write_packet.data) <= written
    /\ current_write_packet.data = BytesFrom(written - Len(current_write_packet.data),
                                             Len(current_write_packet.data))
    /\ \E mid \in Nat : PushedUpTo(mid)

\* the packets of the reader queue that belong to the message: the last one
\* may be that of a disconnect
Message == IF disconnected /\ reader_queue # <<>> THEN Len(reader_queue) - 1
           ELSE Len(reader_queue)

\* the types that packet j of the message may have, from the reading stream on
First == {"START", "SINGLE"}
Later == {"MIDDLE", "END"}

WriterState ==
    /\ current_write_packet.type \in {"NULL", "START"} =>
         /\ writer_queue = <<>> /\ Message = 0 /\ current_read_packet = NULL
         /\ written = Len(current_write_packet.data)
    /\ current_write_packet.type \in Later =>
         writer_queue # <<>> \/ Message # 0 \/ current_read_packet # NULL
    /\ current_write_packet.type = "NULL" => current_write_packet = NULL /\ to_write = 0
    /\ current_write_packet.type = "MIDDLE" => to_write > 0 \/ current_write_packet.data # <<>>
    /\ current_write_packet.type # "SINGLE"
    /\ Flushed => current_write_packet = Packet("END") /\ to_write = 0

ReaderState ==
    /\ current_read_packet.type = "NULL" => current_read_packet = NULL
    /\ IsFinal(current_read_packet.type) =>
         \/ disconnected /\ reader_queue = <<>>
         \/ Flushed /\ Message = 0 /\ writer_queue = <<>>
    /\ result = "reading" <=> pc # "idle"
    /\ pc = "prefetch" => current_read_packet = NULL
    /\ pc = "next" =>
         /\ current_read_packet # NULL /\ ~IsFinal(current_read_packet.type)
         /\ current_read_packet.data = <<>> /\ left > 0

\* A packet of the message is the first one or a later one, only the last of
\* all is final, and none is empty unless the message is.
GoodPacket(p, isFirst, isLast) ==
    /\ p.type \in IF isFirst THEN First ELSE Later
    /\ IsFinal(p.type) => Flushed /\ isLast
    /\ p.data # <<>> \/ (Flushed /\ written = 0)

ReaderQueue ==
    /\ \A j \in 1 .. Message :
         GoodPacket(reader_queue[j], j = 1 /\ current_read_packet = NULL,
                    j = Message /\ writer_queue = <<>>)
    /\ disconnected /\ reader_queue # <<>> => reader_queue[Len(reader_queue)] = Packet("END")

WriterQueue ==
    \A j \in 1 .. Len(writer_queue) :
        GoodPacket(writer_queue[j], j = 1 /\ Message = 0 /\ current_read_packet = NULL,
                   j = Len(writer_queue))

PSInv ==
    Types /\ Carried /\ WriterState /\ ReaderState /\ ReaderQueue /\ WriterQueue

-----------------------------------------------------------------------------
LEMMA EmptyPacket ==
    ASSUME NEW t \in PacketTypes
    PROVE  /\ Packet(t) \in Packets /\ Packet(t).type = t /\ Packet(t).data = <<>>
           /\ Len(Packet(t).data) = 0
<1>1. <<>> \in Buffers /\ Len(<<>>) = 0
  BY PacketStreamAssumption DEF Buffers
<1>2. QED
  BY <1>1 DEF Packet, Packets

LEMMA NullPacket ==
    /\ NULL \in Packets /\ NULL.type = "NULL" /\ NULL.data = <<>> /\ Len(NULL.data) = 0
    /\ NULL = Packet("NULL")
<1>1. NULL = Packet("NULL")
  BY DEF NULL, Packet
<1>2. QED
  BY <1>1, EmptyPacket DEF PacketTypes

LEMMA NoBytesPacket ==
    ASSUME NEW p \in Packets
    PROVE  p.data = <<>> <=> Len(p.data) = 0
BY PacketFields

LEMMA PSInit == Init => PSInv
<1> SUFFICES ASSUME Init PROVE PSInv
  OBVIOUS
<1>1. /\ current_write_packet = NULL /\ current_read_packet = NULL /\ to_write = 0 /\ written = 0
      /\ writer_queue = <<>> /\ reader_queue = <<>> /\ pc = "idle" /\ left = 0 /\ result = "none"
      /\ received = <<>> /\ disconnected = FALSE
  BY DEF Init
<1>2. Len(<<>>) = 0 /\ <<>> \in Seq(Packets) /\ <<>> \in Seq(Nat)
  OBVIOUS
<1>3. MaxBytes \in Nat /\ MaxLen \in Nat
  BY PacketStreamAssumption
<1>4. Types
  <2>1. current_write_packet \in Packets /\ current_read_packet \in Packets
    BY <1>1, NullPacket
  <2>2. to_write \in 0 .. MaxLen /\ written \in Nat /\ written + to_write <= MaxBytes /\ left \in 0 .. MaxLen
    BY <1>1, <1>3
  <2>3. QED
    BY <1>1, <1>2, <2>1, <2>2 DEF Types
<1>5. Carried
  <2>1. BytesFrom(0, 0) = <<>>
    BY NoBytes
  <2>2. Chained(<<>>, 0, 0)
    BY ChainEmpty
  <2>3. 0 + 0 = 0 /\ 0 - 0 = 0 /\ 0 <= 0
    OBVIOUS
  <2>4. PushedUpTo(0)
    BY <1>1, <1>2, <2>2, <2>3, NullPacket DEF PushedUpTo
  <2>5. QED
    BY <1>1, <1>2, <2>1, <2>3, <2>4, NullPacket DEF Carried
<1>6. Message = 0
  BY <1>1, <1>2 DEF Message
<1>7. WriterState
  BY <1>1, <1>2, <1>6, NullPacket DEF WriterState, Later, Flushed
<1>8. ReaderState
  BY <1>1, NullPacket DEF ReaderState, IsFinal
<1>9. ReaderQueue /\ WriterQueue
  BY <1>1, <1>2, <1>6 DEF ReaderQueue, WriterQueue
<1>10. QED
  BY <1>4, <1>5, <1>7, <1>8, <1>9 DEF PSInv

-----------------------------------------------------------------------------
(***************************************************************************)
(* The writing stream                                                      *)
(***************************************************************************)
LEMMA StartWriteStep ==
    ASSUME PSInv, StartWrite, NEW mid \in Nat, PushedUpTo(mid)
    PROVE  PSInv' /\ PushedUpTo(mid)' /\ Flushed' = Flushed
<1> DEFINE p == current_write_packet
<1>1. /\ UNCHANGED <<written, current_read_packet, pc, left, result, received, writer_queue,
                     reader_queue, disconnected>>
      /\ p' = IF p = NULL THEN Packet("START") ELSE p
      /\ ~Flushed
  BY DEF StartWrite, readVars
<1>2. to_write' \in 0 .. MaxLen /\ written + to_write' <= MaxBytes
  <2>1. written \in Nat /\ MaxBytes \in Nat /\ MaxLen \in Nat /\ to_write \in Nat
    BY PacketStreamAssumption DEF PSInv, Types
  <2>2. PICK len \in 0 .. Least(MaxLen, MaxBytes - written) : to_write' = len
    BY DEF StartWrite
  <2>3. Least(MaxLen, MaxBytes - written) <= MaxLen /\ Least(MaxLen, MaxBytes - written) <= MaxBytes - written
        /\ Least(MaxLen, MaxBytes - written) \in Int
    BY <2>1 DEF Least
  <2>4. QED
    BY <2>1, <2>2, <2>3
<1>3. /\ p \in Packets /\ p' \in Packets /\ p'.data = p.data /\ p' # NULL
      /\ p'.type = (IF p = NULL THEN "START" ELSE p.type)
  <2>1. p \in Packets
    BY DEF PSInv, Types
  <2>2. CASE p = NULL
    <3>1. p' = Packet("START")
      BY <1>1, <2>2
    <3>2. p' \in Packets /\ p'.type = "START" /\ p'.data = <<>>
      BY <3>1, EmptyPacket DEF PacketTypes
    <3>3. QED
      BY <2>1, <2>2, <3>2, NullPacket
  <2>3. CASE p # NULL
    BY <1>1, <2>1, <2>3
  <2>4. QED
    BY <2>2, <2>3
<1>4. (p = NULL <=> p.type = "NULL") /\ p.type \in PacketTypes
  BY <1>3, NullPacket, PacketFields DEF PSInv, WriterState
<1>5. Message' = Message /\ ~Flushed'
  BY <1>1, <1>3 DEF Message, Flushed
<1> HIDE DEF p
<1>6. Types'
  BY <1>1, <1>2, <1>3 DEF PSInv, Types, p
<1>7. PushedUpTo(mid)' /\ Carried'
  <2>1. PushedUpTo(mid)'
    BY <1>1, <1>3 DEF PushedUpTo, p
  <2>2. QED
    BY <1>1, <1>3, <2>1 DEF PSInv, Carried, p
<1>8. WriterState'
  <2>1. p'.type \in {"NULL", "START"} => p.type \in {"NULL", "START"}
    BY <1>3, <1>4
  <2>2. p'.type \in Later => p.type = p'.type
    BY <1>3, <1>4 DEF Later
  <2>3. p'.type # "NULL" /\ p'.type # "SINGLE"
    BY <1>3, <1>4 DEF PSInv, WriterState, p
  <2>4. p'.type = "MIDDLE" => p'.data # <<>>
    BY <1>3, <1>4 DEF PSInv, WriterState, StartWrite, p
  <2>5. QED
    BY <1>1, <1>3, <1>5, <2>1, <2>2, <2>3, <2>4 DEF PSInv, WriterState, p
<1>9. ReaderState'
  BY <1>1, <1>5 DEF PSInv, ReaderState
<1>10. ReaderQueue' /\ WriterQueue'
  BY <1>1, <1>5 DEF PSInv, ReaderQueue, WriterQueue, GoodPacket
<1>11. Flushed' = Flushed
  BY <1>1, <1>5 DEF Flushed
<1>12. QED
  BY <1>6, <1>7, <1>8, <1>9, <1>10, <1>11 DEF PSInv

\* Once there is a packet to write to, and before the flush, it is the first
\* one or one in the middle.
LEMMA OpenWriter ==
    ASSUME PSInv, ~Flushed, current_write_packet # NULL
    PROVE  /\ current_write_packet.type = "START" \/ current_write_packet.type = "MIDDLE"
           /\ current_write_packet.type = "START" =>
                /\ writer_queue = <<>> /\ Message = 0 /\ current_read_packet = NULL
                /\ written = Len(current_write_packet.data)
           /\ current_write_packet.type = "MIDDLE" =>
                /\ writer_queue # <<>> \/ Message # 0 \/ current_read_packet # NULL
                /\ to_write > 0 \/ current_write_packet.data # <<>>
<1>1. WriterState /\ current_write_packet.type \in PacketTypes
  BY PacketFields DEF PSInv, Types
<1>2. current_write_packet.type # "NULL" /\ current_write_packet.type # "SINGLE" /\ current_write_packet.type # "END"
  BY <1>1 DEF WriterState, Flushed
<1>3. current_write_packet.type = "START" \/ current_write_packet.type = "MIDDLE"
  BY <1>1, <1>2 DEF PacketTypes
<1>4. QED
  BY <1>1, <1>3 DEF WriterState, Later

\* Before the flush no packet on its way is final or empty.
LEMMA OpenQueues ==
    ASSUME PSInv, ~Flushed
    PROVE  /\ \A j \in 1 .. Message :
                /\ reader_queue[j].type \in IF j = 1 /\ current_read_packet = NULL THEN First ELSE Later
                /\ ~IsFinal(reader_queue[j].type) /\ reader_queue[j].data # <<>>
           /\ \A j \in 1 .. Len(writer_queue) :
                /\ writer_queue[j].type \in
                     IF j = 1 /\ Message = 0 /\ current_read_packet = NULL THEN First ELSE Later
                /\ ~IsFinal(writer_queue[j].type) /\ writer_queue[j].data # <<>>
BY DEF PSInv, ReaderQueue, WriterQueue, GoodPacket

\* A packet of the right type joins the writer queue.
LEMMA Queued ==
    ASSUME PSInv, ~Flushed, current_write_packet # NULL, NEW q \in Packets,
           writer_queue' = Append(writer_queue, q),
           UNCHANGED <<current_read_packet, reader_queue, disconnected>>,
           q.type \in IF current_write_packet.type = "START" THEN First ELSE Later,
           IsFinal(q.type) => Flushed',
           q.data # <<>> \/ (Flushed' /\ written' = 0)
    PROVE  /\ ReaderQueue' /\ WriterQueue' /\ Message' = Message
           /\ writer_queue' # <<>> /\ writer_queue' \in Seq(Packets)
<1> DEFINE n == Len(writer_queue)
<1>1. writer_queue \in Seq(Packets) /\ n \in Nat
  BY DEF PSInv, Types
<1>2. /\ writer_queue' # <<>> /\ writer_queue' \in Seq(Packets) /\ Len(writer_queue') = n + 1
      /\ writer_queue'[n + 1] = q /\ \A j \in 1 .. n : writer_queue'[j] = writer_queue[j]
  BY <1>1
<1>3. Message' = Message
  BY DEF Message
<1>4. ReaderQueue'
  <2>1. \A j \in 1 .. Message' :
          GoodPacket(reader_queue[j], j = 1 /\ current_read_packet = NULL,
                     j = Message /\ writer_queue = <<>>)'
    BY <1>3, OpenQueues DEF GoodPacket
  <2>2. QED
    BY <2>1 DEF PSInv, ReaderQueue
<1>5. WriterQueue'
  <2>1. ASSUME NEW j \in 1 .. n
        PROVE  GoodPacket(writer_queue[j], j = 1 /\ Message = 0 /\ current_read_packet = NULL,
                          j = Len(writer_queue))'
    BY <1>2, <1>3, OpenQueues DEF GoodPacket
  <2>2. (n + 1 = 1 /\ Message' = 0 /\ current_read_packet' = NULL) <=> current_write_packet.type = "START"
    <3>1. n + 1 = 1 <=> writer_queue = <<>>
      BY <1>1
    <3>2. QED
      BY <1>3, <3>1, OpenWriter
  <2>3. ASSUME NEW j \in 1 .. n + 1
        PROVE  GoodPacket(writer_queue[j], j = 1 /\ Message = 0 /\ current_read_packet = NULL,
                          j = Len(writer_queue))'
    <3>1. CASE j \in 1 .. n
      BY <2>1, <3>1
    <3>2. CASE j = n + 1
      <4>1. (j = 1 /\ Message' = 0 /\ current_read_packet' = NULL) <=> current_write_packet.type = "START"
        BY <2>2, <3>2
      <4>2. writer_queue'[j] = q /\ j = Len(writer_queue')
        BY <1>2, <3>2
      <4>3. QED
        BY <4>1, <4>2 DEF GoodPacket
    <3>3. QED
      BY <1>1, <3>1, <3>2
  <2>4. QED
    BY <1>2, <2>3 DEF WriterQueue
<1>6. QED
  BY <1>2, <1>3, <1>4, <1>5

LEMMA LeastProperties ==
    ASSUME NEW a \in Int, NEW b \in Int
    PROVE  /\ Least(a, b) \in Int /\ Least(a, b) <= a /\ Least(a, b) <= b
           /\ Least(a, b) = a \/ Least(a, b) = b
BY DEF Least

\* a packet with other data
LEMMA WithData ==
    ASSUME NEW p \in Packets, NEW d
    PROVE  [p EXCEPT !.data = d] = [type |-> p.type, data |-> d]
<1>1. p = [type |-> p.type, data |-> p.data]
  BY DEF Packets
<1>2. ASSUME NEW t, NEW b
      PROVE  [[type |-> t, data |-> b] EXCEPT !.data = d] = [type |-> t, data |-> d]
  OBVIOUS
<1>3. QED
  BY <1>1, <1>2, Zenon

LEMMA WithType ==
    ASSUME NEW p \in Packets, NEW t
    PROVE  [p EXCEPT !.type = t] = [type |-> t, data |-> p.data]
<1>1. p = [type |-> p.type, data |-> p.data]
  BY DEF Packets
<1>2. ASSUME NEW s, NEW b
      PROVE  [[type |-> s, data |-> b] EXCEPT !.type = t] = [type |-> t, data |-> b]
  OBVIOUS
<1>3. QED
  BY <1>1, <1>2, Zenon

\* Bytes that follow those of a packet are stored into it.
Filled(p, w, n) == [p EXCEPT !.data = @ \o BytesFrom(w, n)]

LEMMA FilledData ==
    ASSUME NEW d \in Seq(Nat), NEW w \in Nat, Len(d) <= w, NEW n \in Nat,
           d = BytesFrom(w - Len(d), Len(d))
    PROVE  /\ d \o BytesFrom(w, n) = BytesFrom(w - Len(d), Len(d) + n)
           /\ d \o BytesFrom(w, n) \in Seq(Nat)
           /\ Len(d \o BytesFrom(w, n)) = Len(d) + n
<1> DEFINE k == Len(d)
           a == w - k
<1>1. k \in Nat
  OBVIOUS
<1>2. a \in Nat /\ a + k = w /\ k + n \in Nat
  BY <1>1
<1> HIDE DEF k, a
<1>3. BytesFrom(a, k) \o BytesFrom(a + k, n) = BytesFrom(a, k + n)
  BY <1>1, <1>2, MoreBytes, Zenon
<1>4. BytesFrom(a, k + n) \in Seq(Nat) /\ Len(BytesFrom(a, k + n)) = k + n
  BY <1>2, BytesFromType
<1>5. d = BytesFrom(a, k)
  BY DEF a, k
<1>6. d \o BytesFrom(w, n) = BytesFrom(a, k + n)
  BY <1>2, <1>3, <1>5
<1>7. QED
  BY <1>4, <1>6 DEF a, k

LEMMA FilledPacket ==
    ASSUME NEW p \in Packets, NEW w \in Nat, Len(p.data) <= w, NEW n \in Nat,
           Len(p.data) + n <= MaxPacketSize,
           p.data = BytesFrom(w - Len(p.data), Len(p.data))
    PROVE  /\ Filled(p, w, n) \in Packets /\ Filled(p, w, n).type = p.type
           /\ Len(Filled(p, w, n).data) = Len(p.data) + n
           /\ Filled(p, w, n).data = BytesFrom(w - Len(p.data), Len(Filled(p, w, n).data))
<1> DEFINE d == p.data \o BytesFrom(w, n)
<1>1. p.type \in PacketTypes /\ p.data \in Seq(Nat)
  BY PacketFields
<1>2. d = BytesFrom(w - Len(p.data), Len(p.data) + n) /\ d \in Seq(Nat) /\ Len(d) = Len(p.data) + n
  BY <1>1, FilledData
<1>3. Filled(p, w, n) = [type |-> p.type, data |-> d]
  BY WithData DEF Filled
<1> HIDE DEF d
<1>4. d \in Buffers
  BY <1>2 DEF Buffers
<1>5. Filled(p, w, n) \in Packets
  BY <1>1, <1>3, <1>4 DEF Packets
<1>6. Filled(p, w, n).type = p.type /\ Filled(p, w, n).data = d
  BY <1>3
<1>7. QED
  BY <1>2, <1>5, <1>6

\* The reading stream is left alone while nothing has been flushed.
LEMMA SameReader ==
    ASSUME PSInv, ~Flushed, Message' = Message,
           UNCHANGED <<current_read_packet, pc, left, result, received, reader_queue, disconnected>>
    PROVE  ReaderState'
<1>1. ReaderState
  BY DEF PSInv
<1>2. IsFinal(current_read_packet.type) => disconnected /\ reader_queue = <<>>
  BY <1>1 DEF ReaderState
<1>3. QED
  BY <1>1, <1>2 DEF ReaderState, IsFinal

LEMMA WriteDataStep ==
    ASSUME PSInv, WriteData, NEW mid \in Nat, PushedUpTo(mid)
    PROVE  PSInv' /\ PushedUpTo(mid)' /\ ~Flushed /\ ~Flushed' /\ written' \in written .. MaxBytes
<1> DEFINE p == current_write_packet
           n == Least(to_write, BytesLeft(p))
           k == Len(p.data)
           filled == Filled(p, written, n)
<1>1. /\ UNCHANGED <<current_read_packet, pc, left, result, received, reader_queue, disconnected>>
      /\ to_write > 0 /\ to_write' = to_write - n /\ written' = written + n
      /\ IF NeedsNextPacket(n)
           THEN writer_queue' = Append(writer_queue, filled) /\ p' = Packet("MIDDLE")
           ELSE p' = filled /\ writer_queue' = writer_queue
  BY DEF WriteData, readVars, Filled
<1>2. /\ p \in Packets /\ to_write \in 0 .. MaxLen /\ written \in Nat /\ written + to_write <= MaxBytes
      /\ k \in Nat /\ k <= MaxPacketSize /\ MaxPacketSize \in Nat \ {0} /\ k <= written
      /\ MaxBytes \in Nat /\ MaxLen \in Nat
  BY PacketStreamAssumption, PacketFields DEF PSInv, Types, Carried
<1>2a. p.data = BytesFrom(written - k, k)
  BY DEF PSInv, Carried
<1>3. ~Flushed /\ p # NULL
  <2>1. p # NULL
    BY <1>1, <1>2, NullPacket DEF PSInv, WriterState
  <2>2. ~Flushed
    BY <1>1, <1>2 DEF PSInv, WriterState
  <2>3. QED
    BY <2>1, <2>2
<1>4. /\ n \in Nat /\ n <= to_write /\ k + n <= MaxPacketSize
      /\ n = to_write \/ k + n = MaxPacketSize
  <2>1. BytesLeft(p) = MaxPacketSize - k
    BY DEF BytesLeft
  <2>2. k \in Nat /\ k <= MaxPacketSize /\ MaxPacketSize \in Nat /\ to_write \in Nat
    BY <1>2
  <2> HIDE DEF k
  <2>3. n = Least(to_write, MaxPacketSize - k)
    BY <2>1
  <2> HIDE DEF n
  <2>4. QED
    BY <2>2, <2>3 DEF Least
<1> HIDE DEF n
<1>5. /\ filled \in Packets /\ filled.type = p.type /\ Len(filled.data) = k + n
      /\ filled.data = BytesFrom(written - k, Len(filled.data))
  BY <1>2, <1>4, <1>2a, FilledPacket
<1> HIDE DEF filled
<1>6. written' \in written .. MaxBytes /\ written' \in Nat /\ to_write' \in 0 .. MaxLen
      /\ written' + to_write' <= MaxBytes
  BY <1>1, <1>2, <1>4
<1>7. k + n # 0 => filled.data # <<>>
  BY <1>5, NoBytesPacket
<1>8. Message' = Message
  BY <1>1 DEF Message
<1>9. Chained(reader_queue, Len(received) + Len(current_read_packet.data), mid)'
  BY <1>1 DEF PushedUpTo
<1>10. Chained(writer_queue, mid, written - k)
  BY DEF PushedUpTo
<1>11. ASSUME ~Flushed' PROVE ReaderState'
  BY <1>1, <1>3, <1>8, SameReader
<1>12. CASE NeedsNextPacket(n)
  <2>1. writer_queue' = Append(writer_queue, filled) /\ p' = Packet("MIDDLE") /\ to_write > n
    BY <1>1, <1>12 DEF NeedsNextPacket
  <2>2. p' \in Packets /\ p'.type = "MIDDLE" /\ p'.data = <<>> /\ Len(p'.data) = 0
    BY <2>1, EmptyPacket DEF PacketTypes
  <2>3. k + n = MaxPacketSize /\ k + n # 0 /\ to_write' > 0
    BY <1>1, <1>2, <1>4, <2>1
  <2>4. ~Flushed'
    BY <2>2 DEF Flushed
  <2>5. ~IsFinal(filled.type) /\ filled.type \in IF p.type = "START" THEN First ELSE Later
    <3>1. p.type = "START" \/ p.type = "MIDDLE"
      BY <1>3, OpenWriter
    <3>2. QED
      BY <1>5, <3>1 DEF IsFinal, First, Later
  <2>6. /\ ReaderQueue' /\ WriterQueue' /\ Message' = Message
        /\ writer_queue' # <<>> /\ writer_queue' \in Seq(Packets)
    <3>1. filled.data # <<>>
      BY <1>7, <2>3
    <3>2. QED
      BY <1>1, <1>3, <1>5, <2>1, <2>5, <3>1, Queued
  <2>7. Types'
    BY <1>1, <1>6, <2>2, <2>6 DEF PSInv, Types
  <2>8. PushedUpTo(mid)'
    <3>1. Chained(Append(writer_queue, filled), mid, (written - k) + Len(filled.data))
      <4>1. writer_queue \in Seq(Packets)
        BY DEF PSInv, Types
      <4>2. QED
        BY <1>5, <1>10, <4>1, ChainAppend
    <3>2. (written - k) + Len(filled.data) = written' - Len(p'.data)
      <4>1. written' = written + n /\ Len(p'.data) = 0 /\ Len(filled.data) = k + n
        BY <1>1, <1>5, <2>2
      <4>2. k \in Nat /\ written \in Nat
        BY <1>2
      <4> HIDE DEF k
      <4>3. (written - k) + (k + n) = (written + n) - 0
        BY <1>4, <4>2
      <4>4. QED
        BY <4>1, <4>3
    <3>3. QED
      BY <1>9, <2>1, <3>1, <3>2 DEF PushedUpTo
  <2>9. Carried'
    <3>1. /\ Len(p'.data) <= written'
          /\ p'.data = BytesFrom(written' - Len(p'.data), Len(p'.data))
      BY <1>6, <2>2, NoBytes
    <3>2. QED
      BY <1>1, <2>8, <3>1 DEF PSInv, Carried
  <2>10. WriterState'
    BY <2>2, <2>3, <2>4, <2>6 DEF WriterState, Later
  <2>11. QED
    BY <1>3, <1>6, <1>11, <2>4, <2>6, <2>7, <2>8, <2>9, <2>10 DEF PSInv
<1>13. CASE ~NeedsNextPacket(n)
  <2>1. writer_queue' = writer_queue /\ p' = filled /\ n = to_write
    <3>1. ~(to_write > n)
      BY <1>13 DEF NeedsNextPacket
    <3>2. QED
      BY <1>1, <1>2, <1>4, <1>13, <3>1
  <2>2. /\ p' \in Packets /\ p'.type = p.type /\ Len(p'.data) = k + n /\ p'.data # <<>>
        /\ p'.data = BytesFrom(written - k, Len(p'.data))
    <3>1. k + n # 0
      BY <1>1, <1>2, <2>1
    <3>2. QED
      BY <1>5, <1>7, <2>1, <3>1
  <2>3. ~Flushed'
    BY <1>3, <2>2 DEF Flushed
  <2>4. ReaderQueue' /\ WriterQueue'
    <3>1. ReaderQueue'
      <4>1. \A j \in 1 .. Message' :
              GoodPacket(reader_queue[j], j = 1 /\ current_read_packet = NULL,
                         j = Message /\ writer_queue = <<>>)'
        BY <1>1, <1>3, <1>8, OpenQueues DEF GoodPacket
      <4>2. QED
        BY <1>1, <4>1 DEF PSInv, ReaderQueue
    <3>2. WriterQueue'
      <4>1. \A j \in 1 .. Len(writer_queue') :
              GoodPacket(writer_queue[j], j = 1 /\ Message = 0 /\ current_read_packet = NULL,
                         j = Len(writer_queue))'
        BY <1>1, <1>3, <1>8, <2>1, OpenQueues DEF GoodPacket
      <4>2. QED
        BY <4>1 DEF WriterQueue
    <3>3. QED
      BY <3>1, <3>2
  <2>5. Types'
    BY <1>1, <1>6, <2>1, <2>2 DEF PSInv, Types
  <2>6. written' - Len(p'.data) = written - k /\ Len(p'.data) <= written'
    <3>1. written' = written + n /\ Len(p'.data) = k + n
      BY <1>1, <2>2
    <3>2. k \in Nat /\ k <= written /\ written \in Nat
      BY <1>2
    <3>3. QED
      BY <1>4, <3>1, <3>2
  <2>7. PushedUpTo(mid)'
    BY <1>9, <1>10, <2>1, <2>6 DEF PushedUpTo
  <2>8. Carried'
    BY <1>1, <2>2, <2>6, <2>7 DEF PSInv, Carried
  <2>9. WriterState'
    <3>1. p.type = "START" => written' = Len(p'.data)
      BY <1>1, <1>2, <1>3, <2>2, OpenWriter
    <3>2. p'.type = "START" \/ p'.type = "MIDDLE"
      BY <1>3, <2>2, OpenWriter
    <3>3. p'.type = "START" =>
            /\ writer_queue' = <<>> /\ Message' = 0 /\ current_read_packet' = NULL
            /\ written' = Len(p'.data)
      BY <1>1, <1>3, <1>8, <2>1, <2>2, <3>1, OpenWriter
    <3>4. p'.type = "MIDDLE" => writer_queue' # <<>> \/ Message' # 0 \/ current_read_packet' # NULL
      BY <1>1, <1>3, <1>8, <2>1, <2>2, OpenWriter
    <3>5. QED
      BY <2>2, <2>3, <3>2, <3>3, <3>4 DEF WriterState, Later
  <2>10. QED
    BY <1>3, <1>6, <1>11, <2>3, <2>4, <2>5, <2>7, <2>8, <2>9 DEF PSInv
<1>14. QED
  BY <1>12, <1>13

LEMMA FlushStep ==
    ASSUME PSInv, Flush, NEW mid \in Nat, PushedUpTo(mid)
    PROVE  PSInv' /\ PushedUpTo(mid)' /\ ~Flushed /\ Flushed'
<1> DEFINE p == current_write_packet
           k == Len(p.data)
           q == [p EXCEPT !.type = LastType(p.type)]
<1>1. /\ UNCHANGED <<to_write, written, current_read_packet, pc, left, result, received,
                     reader_queue, disconnected>>
      /\ to_write = 0 /\ p # NULL /\ ~Flushed
      /\ writer_queue' = Append(writer_queue, q) /\ p' = Packet("END")
  BY DEF Flush, readVars
<1>2. p \in Packets /\ written \in Nat /\ k \in Nat /\ k <= written
  BY PacketFields DEF PSInv, Types, Carried
<1>3. p.type = "START" \/ p.type = "MIDDLE"
  BY <1>1, OpenWriter
<1>4. /\ q \in Packets /\ q.data = p.data /\ q.type = LastType(p.type)
      /\ IsFinal(q.type) /\ q.type \in IF p.type = "START" THEN First ELSE Later
  <2>1. q = [type |-> LastType(p.type), data |-> p.data]
    BY <1>2, WithType
  <2>2. LastType(p.type) \in PacketTypes /\ IsFinal(LastType(p.type))
        /\ LastType(p.type) \in IF p.type = "START" THEN First ELSE Later
    BY <1>3 DEF LastType, PacketTypes, IsFinal, First, Later
  <2>3. p.data \in Buffers
    BY <1>2 DEF Packets
  <2> HIDE DEF q
  <2>4. q \in Packets
    BY <2>1, <2>2, <2>3 DEF Packets
  <2>5. q.data = p.data /\ q.type = LastType(p.type)
    BY <2>1
  <2>6. QED
    BY <2>2, <2>4, <2>5
<1> HIDE DEF q
<1>5. p' \in Packets /\ p'.type = "END" /\ p'.data = <<>> /\ Len(p'.data) = 0
  BY <1>1, EmptyPacket DEF PacketTypes
<1>6. Flushed'
  BY <1>5 DEF Flushed
<1>7. q.data # <<>> \/ (Flushed' /\ written' = 0)
  <2>1. CASE p.type = "START"
    <3>1. written = k
      BY <1>1, <2>1, OpenWriter
    <3>2. p.data = <<>> <=> k = 0
      BY <1>2, NoBytesPacket
    <3>3. QED
      BY <1>1, <1>4, <1>6, <3>1, <3>2
  <2>2. CASE p.type = "MIDDLE"
    <3>1. p.data # <<>>
      BY <1>1, <2>2, OpenWriter
    <3>2. QED
      BY <1>4, <3>1
  <2>3. QED
    BY <1>3, <2>1, <2>2
<1>8. /\ ReaderQueue' /\ WriterQueue' /\ Message' = Message
      /\ writer_queue' # <<>> /\ writer_queue' \in Seq(Packets)
  BY <1>1, <1>4, <1>6, <1>7, Queued
<1>9. Types'
  BY <1>1, <1>5, <1>8 DEF PSInv, Types
<1>10. PushedUpTo(mid)'
  <2>1. Chained(writer_queue, mid, written - k) /\ writer_queue \in Seq(Packets)
    BY DEF PushedUpTo, PSInv, Types
  <2>2. q.data = BytesFrom(written - k, Len(q.data)) /\ Len(q.data) = k
    BY <1>4 DEF PSInv, Carried
  <2>3. Chained(Append(writer_queue, q), mid, (written - k) + Len(q.data))
    BY <1>4, <2>1, <2>2, ChainAppend
  <2>4. (written - k) + k = written - 0
    BY <1>2
  <2>5. Chained(writer_queue', mid, written' - Len(p'.data))
    BY <1>1, <1>5, <2>2, <2>3, <2>4
  <2>6. QED
    BY <1>1, <2>5 DEF PushedUpTo
<1>11. Carried'
  <2>1. Len(p'.data) <= written' /\ p'.data = BytesFrom(written' - Len(p'.data), Len(p'.data))
    BY <1>1, <1>2, <1>5, NoBytes
  <2>2. QED
    BY <1>1, <1>10, <2>1 DEF PSInv, Carried
<1>12. WriterState'
  BY <1>1, <1>5, <1>8 DEF WriterState, Later
<1>13. ReaderState'
  BY <1>1, <1>8, SameReader
<1>14. QED
  BY <1>1, <1>6, <1>8, <1>9, <1>10, <1>11, <1>12, <1>13 DEF PSInv

-----------------------------------------------------------------------------
(***************************************************************************)
(* Between the streams                                                     *)
(***************************************************************************)
LEMMA PushStep ==
    ASSUME PSInv, PushPacket, NEW mid \in Nat, PushedUpTo(mid)
    PROVE  /\ PSInv' /\ Flushed' = Flushed
           /\ \E x \in mid .. written : x \in Nat /\ PushedUpTo(x)'
<1> DEFINE w == Head(writer_queue)
           k == Len(w.data)
           n == Len(writer_queue)
           m == Len(reader_queue)
           start == Len(received) + Len(current_read_packet.data)
           end == written - Len(current_write_packet.data)
<1>1. /\ UNCHANGED <<current_write_packet, to_write, written, current_read_packet, pc, left, result,
                     received, disconnected>>
      /\ ~disconnected /\ writer_queue # <<>>
      /\ reader_queue' = Append(reader_queue, w) /\ writer_queue' = Tail(writer_queue)
  BY DEF PushPacket, readVars, writeVars
<1>2. writer_queue \in Seq(Packets) /\ reader_queue \in Seq(Packets)
  BY DEF PSInv, Types
<1>3. /\ w \in Packets /\ writer_queue' \in Seq(Packets) /\ n \in Nat \ {0} /\ w = writer_queue[1]
      /\ Len(writer_queue') = n - 1 /\ \A j \in 1 .. n - 1 : writer_queue'[j] = writer_queue[j + 1]
  BY <1>1, <1>2
<1>4. /\ reader_queue' \in Seq(Packets) /\ m \in Nat /\ Len(reader_queue') = m + 1
      /\ reader_queue' # <<>>
      /\ reader_queue'[m + 1] = w /\ \A j \in 1 .. m : reader_queue'[j] = reader_queue[j]
  BY <1>1, <1>2, <1>3
<1>5. Message = m /\ Message' = m + 1
  BY <1>1, <1>4 DEF Message
<1>6. Flushed' = Flushed
  BY <1>1 DEF Flushed
<1>7. k \in Nat
  BY <1>3, PacketFields
<1>8. Chained(reader_queue, start, mid) /\ Chained(writer_queue, mid, end)
  BY DEF PushedUpTo
<1> HIDE DEF w, k, n, m, start, end
<1>9. w.data = BytesFrom(mid, k) /\ Chained(writer_queue', mid + k, end)
  BY <1>1, <1>2, <1>8, ChainHead DEF w, k
<1>10. Chained(reader_queue', start, mid + k)
  BY <1>1, <1>2, <1>3, <1>8, <1>9, ChainAppend DEF k
<1>11. PICK x \in Nat : x = mid + k
  BY <1>7
<1>12. x \in mid .. written
  <2>1. x <= end
    BY <1>3, <1>9, <1>11, ChainBounds
  <2>2. written \in Nat /\ Len(current_write_packet.data) \in Nat
    BY PacketFields DEF PSInv, Types
  <2>3. end <= written /\ end \in Int
    BY <2>2 DEF end
  <2>4. QED
    BY <1>7, <1>11, <2>1, <2>2, <2>3
<1>13. Types' /\ PushedUpTo(x)'
  <2>1. Types'
    BY <1>1, <1>3, <1>4 DEF PSInv, Types
  <2>2. PushedUpTo(x)'
    BY <1>1, <1>9, <1>10, <1>11 DEF PushedUpTo, start, end
  <2>3. QED
    BY <2>1, <2>2
<1>14. Carried'
  BY <1>1, <1>13 DEF PSInv, Carried
<1>15. WriterState'
  <2>1. ~(current_write_packet.type \in {"NULL", "START"})
    BY <1>1 DEF PSInv, WriterState
  <2>2. Message' # 0
    BY <1>4, <1>5
  <2>3. QED
    BY <1>1, <1>6, <2>1, <2>2 DEF PSInv, WriterState
<1>16. ReaderState'
  <2>1. ~IsFinal(current_read_packet.type)
    BY <1>1 DEF PSInv, ReaderState
  <2>2. QED
    BY <1>1, <2>1 DEF PSInv, ReaderState
<1>17. ReaderQueue'
  <2>1. ASSUME NEW j \in 1 .. m
        PROVE  GoodPacket(reader_queue[j], j = 1 /\ current_read_packet = NULL,
                          j = Message /\ writer_queue = <<>>)'
    <3>1. GoodPacket(reader_queue[j], j = 1 /\ current_read_packet = NULL,
                     j = Message /\ writer_queue = <<>>)
      BY <1>5 DEF PSInv, ReaderQueue
    <3>2. reader_queue'[j] = reader_queue[j]
      BY <1>4
    <3>3. QED
      BY <1>1, <1>6, <3>1, <3>2 DEF GoodPacket
  <2>2. ASSUME NEW j, j = m + 1
        PROVE  GoodPacket(reader_queue[j], j = 1 /\ current_read_packet = NULL,
                          j = Message /\ writer_queue = <<>>)'
    <3>1. GoodPacket(writer_queue[1], 1 = 1 /\ Message = 0 /\ current_read_packet = NULL, 1 = n)
      BY <1>3 DEF PSInv, WriterQueue, n
    <3>2. reader_queue'[j] = writer_queue[1]
      BY <1>3, <1>4, <2>2
    <3>3. j = 1 <=> Message = 0
      BY <1>4, <1>5, <2>2
    <3>4. writer_queue' = <<>> <=> n = 1
      BY <1>3
    <3>5. j = Message'
      BY <1>5, <2>2
    <3>6. QED
      BY <1>1, <1>6, <3>1, <3>2, <3>3, <3>4, <3>5 DEF GoodPacket
  <2>3. \A j \in 1 .. m + 1 : j \in 1 .. m \/ j = m + 1
    BY <1>4
  <2>4. \A j \in 1 .. Message' : GoodPacket(reader_queue[j], j = 1 /\ current_read_packet = NULL,
                                           j = Message /\ writer_queue = <<>>)'
    BY <1>5, <2>1, <2>2, <2>3
  <2>5. QED
    BY <1>1, <2>4 DEF ReaderQueue
<1>18. WriterQueue'
  <2>1. ASSUME NEW j \in 1 .. n - 1
        PROVE  GoodPacket(writer_queue[j], j = 1 /\ Message = 0 /\ current_read_packet = NULL,
                          j = Len(writer_queue))'
    <3>1. j + 1 \in 1 .. n /\ j + 1 # 1 /\ (j + 1 = n <=> j = n - 1)
      BY <1>3
    <3>2. GoodPacket(writer_queue[j + 1], j + 1 = 1 /\ Message = 0 /\ current_read_packet = NULL, j + 1 = n)
      BY <3>1 DEF PSInv, WriterQueue, n
    <3>3. writer_queue'[j] = writer_queue[j + 1] /\ Len(writer_queue') = n - 1 /\ Message' # 0
      BY <1>3, <1>4, <1>5
    <3>4. QED
      BY <1>1, <1>6, <3>1, <3>2, <3>3 DEF GoodPacket
  <2>2. QED
    BY <1>3, <2>1 DEF WriterQueue
<1>19. QED
  BY <1>6, <1>12, <1>13, <1>14, <1>15, <1>16, <1>17, <1>18 DEF PSInv

LEMMA DisconnectStep ==
    ASSUME PSInv, Disconnect, NEW mid \in Nat, PushedUpTo(mid)
    PROVE  PSInv' /\ PushedUpTo(mid)' /\ Flushed' = Flushed /\ disconnected'
<1> DEFINE e == Packet("END")
           m == Len(reader_queue)
<1>1. /\ UNCHANGED <<current_write_packet, to_write, written, current_read_packet, pc, left, result,
                     received, writer_queue>>
      /\ ~disconnected /\ disconnected' = TRUE /\ reader_queue' = Append(reader_queue, e)
  BY DEF Disconnect, readVars, writeVars
<1>2. reader_queue \in Seq(Packets)
  BY DEF PSInv, Types
<1>3. e \in Packets /\ e.type = "END" /\ e.data = <<>> /\ Len(e.data) = 0
  BY EmptyPacket DEF PacketTypes
<1>4. /\ reader_queue' \in Seq(Packets) /\ m \in Nat /\ Len(reader_queue') = m + 1
      /\ reader_queue' # <<>>
      /\ reader_queue'[m + 1] = e /\ \A j \in 1 .. m : reader_queue'[j] = reader_queue[j]
  BY <1>1, <1>2, <1>3
<1>5. Message = m /\ Message' = m
  <2>1. Message' = (m + 1) - 1
    BY <1>1, <1>4 DEF Message
  <2>2. QED
    BY <1>1, <1>4, <2>1 DEF Message
<1>6. Flushed' = Flushed
  BY <1>1 DEF Flushed
<1> HIDE DEF e, m
<1>7. Types'
  BY <1>1, <1>4 DEF PSInv, Types
<1>8. PushedUpTo(mid)'
  <2>1. Chained(reader_queue, Len(received) + Len(current_read_packet.data), mid)
    BY DEF PushedUpTo
  <2>2. e.data = BytesFrom(mid, Len(e.data))
    BY <1>3, NoBytes
  <2>3. Chained(reader_queue', Len(received) + Len(current_read_packet.data), mid + Len(e.data))
    BY <1>1, <1>2, <1>3, <2>1, <2>2, ChainAppend
  <2>4. mid + Len(e.data) = mid
    BY <1>3
  <2>5. QED
    BY <1>1, <2>3, <2>4 DEF PushedUpTo
<1>9. Carried'
  BY <1>1, <1>8 DEF PSInv, Carried
<1>10. WriterState'
  BY <1>1, <1>5, <1>6 DEF PSInv, WriterState
<1>11. ReaderState'
  BY <1>1, <1>5, <1>6 DEF PSInv, ReaderState
<1>12. ReaderQueue'
  <2>1. \A j \in 1 .. m : GoodPacket(reader_queue[j], j = 1 /\ current_read_packet = NULL,
                                     j = Message /\ writer_queue = <<>>)
    BY <1>5 DEF PSInv, ReaderQueue
  <2>2. \A j \in 1 .. m : GoodPacket(reader_queue[j], j = 1 /\ current_read_packet = NULL,
                                     j = Message /\ writer_queue = <<>>)'
    BY <1>1, <1>4, <1>5, <1>6, <2>1 DEF GoodPacket
  <2>3. reader_queue'[Len(reader_queue')] = Packet("END")
    BY <1>4 DEF e
  <2>4. QED
    BY <1>5, <2>2, <2>3 DEF ReaderQueue
<1>13. WriterQueue'
  BY <1>1, <1>5, <1>6 DEF PSInv, WriterQueue, GoodPacket
<1>14. QED
  BY <1>1, <1>6, <1>7, <1>8, <1>9, <1>10, <1>11, <1>12, <1>13 DEF PSInv

-----------------------------------------------------------------------------
(***************************************************************************)
(* The reading stream                                                      *)
(***************************************************************************)

\* The bytes after the first a are split into those that are read next and
\* the rest.
LEMMA SplitBytes ==
    ASSUME NEW a \in Nat, NEW m \in Nat, NEW k \in Nat, k <= m
    PROVE  /\ SubSeq(BytesFrom(a, m), 1, k) = BytesFrom(a, k)
           /\ SubSeq(BytesFrom(a, m), k + 1, m) = BytesFrom(a + k, m - k)
           /\ BytesFrom(0, a) \o BytesFrom(a, k) = BytesFrom(0, a + k)
<1>1. k \in 0 .. m /\ 0 + a = a
  OBVIOUS
<1>2. BytesFrom(0, a) \o BytesFrom(0 + a, k) = BytesFrom(0, a + k)
  BY MoreBytes
<1>3. QED
  BY <1>1, <1>2, FirstBytes

\* The bytes that follow those read so far are taken from a packet.
LEMMA CopyBytes ==
    ASSUME received \in Seq(Nat), received = BytesFrom(0, Len(received)),
           NEW packet \in Packets, packet.data = BytesFrom(Len(received), Len(packet.data)),
           NEW n \in Nat, NEW k, k = Least(n, Len(packet.data)), CopyFrom(packet, n)
    PROVE  /\ k \in 0 .. n /\ k \in 0 .. Len(packet.data)
           /\ received' = received \o BytesFrom(Len(received), k)
           /\ received' = BytesFrom(0, Len(received')) /\ received' \in Seq(Nat)
           /\ Len(received') = Len(received) + k
           /\ current_read_packet' \in Packets /\ current_read_packet'.type = packet.type
           /\ current_read_packet'.data = BytesFrom(Len(received'), Len(current_read_packet'.data))
           /\ Len(current_read_packet'.data) = Len(packet.data) - k
<1> DEFINE a == Len(received)
           m == Len(packet.data)
           rest == RestOf(packet.data, k)
<1>1. received' = received \o SubSeq(packet.data, 1, k)
  BY DEF CopyFrom
<1>2. current_read_packet' = [packet EXCEPT !.data = RestOf(packet.data, k)]
  BY DEF CopyFrom
<1>3. a \in Nat /\ m \in Nat /\ m <= MaxPacketSize /\ packet.type \in PacketTypes
      /\ MaxPacketSize \in Nat
  BY PacketFields, PacketStreamAssumption
<1>4. k \in Nat /\ k <= m /\ k \in 0 .. n /\ k \in 0 .. m
  <2> HIDE DEF m
  <2>1. k = Least(n, m)
    BY DEF m
  <2>2. QED
    BY <1>3, <2>1 DEF Least
<1>5. packet.data = BytesFrom(a, m) /\ received = BytesFrom(0, a) /\ rest = SubSeq(packet.data, k + 1, m)
  BY DEF RestOf
<1> HIDE DEF a, m, rest
<1>6. SubSeq(packet.data, 1, k) = BytesFrom(a, k) /\ rest = BytesFrom(a + k, m - k)
  <2>1. a \in Nat /\ m \in Nat /\ k \in Nat /\ k <= m
    BY <1>3, <1>4
  <2>2. /\ SubSeq(BytesFrom(a, m), 1, k) = BytesFrom(a, k)
        /\ SubSeq(BytesFrom(a, m), k + 1, m) = BytesFrom(a + k, m - k)
    BY <2>1, SplitBytes, Zenon
  <2>3. QED
    BY <1>5, <2>2, Zenon
<1>7. a + k \in Nat /\ m - k \in Nat /\ m - k <= MaxPacketSize /\ 0 + a = a
  BY <1>3, <1>4
<1>8. rest \in Seq(Nat) /\ Len(rest) = m - k
  BY <1>6, <1>7, BytesFromType
<1>9. received' = received \o BytesFrom(a, k) /\ received' = BytesFrom(0, a + k)
  <2>1. a \in Nat /\ m \in Nat /\ k \in Nat /\ k <= m
    BY <1>3, <1>4
  <2>2. BytesFrom(0, a) \o BytesFrom(a, k) = BytesFrom(0, a + k)
    BY <2>1, SplitBytes, Zenon
  <2>3. QED
    BY <1>1, <1>5, <1>6, <1>7, <2>2
<1>10. received' \in Seq(Nat) /\ Len(received') = a + k
  BY <1>7, <1>9, BytesFromType
<1>11. current_read_packet' = [type |-> packet.type, data |-> rest]
  BY <1>2, WithData DEF rest
<1>12. rest \in Buffers
  BY <1>7, <1>8 DEF Buffers
<1>13. /\ current_read_packet' \in Packets /\ current_read_packet'.type = packet.type
       /\ current_read_packet'.data = rest
  BY <1>3, <1>11, <1>12 DEF Packets
<1>14. QED
  BY <1>4, <1>6, <1>8, <1>9, <1>10, <1>13 DEF a, m

\* How the copying ends.
LEMMA CopyEnds ==
    ASSUME NEW packet \in Packets, NEW n \in 0 .. MaxLen, NEW k,
           k = Least(n, Len(packet.data)), CopyFrom(packet, n)
    PROVE  /\ left' = n - k /\ left' \in 0 .. MaxLen
           /\ \/ pc' = "idle" /\ result' = "success" /\ left' = 0
              \/ /\ pc' = "idle" /\ result' = "failure" /\ left' > 0
                 /\ IsFinal(packet.type) /\ k = Len(packet.data)
              \/ /\ pc' = "next" /\ result' = "reading" /\ left' > 0
                 /\ ~IsFinal(packet.type) /\ k = Len(packet.data)
<1>1. Len(packet.data) \in Nat /\ MaxLen \in Nat /\ n \in Nat /\ n <= MaxLen
  BY PacketFields, PacketStreamAssumption
<1>2. /\ k \in Nat /\ k <= n
      /\ n > k => k = Len(packet.data)
      /\ n = k => n - k = 0
      /\ n > k => n - k > 0
      /\ n - k \in 0 .. MaxLen
  BY <1>1 DEF Least
<1>3. left' = n - k
  BY DEF CopyFrom
<1>4. \/ n = k /\ pc' = "idle" /\ result' = "success"
      \/ n > k /\ IsFinal(packet.type) /\ pc' = "idle" /\ result' = "failure"
      \/ n > k /\ ~IsFinal(packet.type) /\ pc' = "next" /\ result' = "reading"
  BY DEF CopyFrom
<1>5. QED
  BY <1>2, <1>3, <1>4

\* A read of len bytes goes on: it gets bytes that have been pushed, and it
\* fails only if the stream is disconnected or the message is shorter.
ReadsOn(len, mid) ==
    \E n \in 0 .. len :
        /\ n \in 0 .. mid - Len(received)
        /\ received' = received \o BytesFrom(Len(received), n)
        /\ left' = len - n
        /\ \/ result' = "reading"
           \/ result' = "success" /\ left' = 0
           \/ /\ result' = "failure"
              /\ disconnected \/ (Flushed /\ Len(received') = written /\ left' > 0)

\* The read bytes are no more than those pushed, and these no more than those
\* written.
LEMMA ReadBounds ==
    ASSUME PSInv, NEW mid \in Nat, PushedUpTo(mid)
    PROVE  /\ Len(received) \in Nat /\ Len(current_read_packet.data) \in Nat
           /\ Len(received) + Len(current_read_packet.data) <= mid
           /\ mid <= written - Len(current_write_packet.data) /\ mid <= written
           /\ written \in Nat /\ written <= MaxBytes
<1>1. /\ Len(received) \in Nat /\ Len(current_read_packet.data) \in Nat
      /\ Len(current_write_packet.data) \in Nat
  BY PacketFields DEF PSInv, Types
<1>2. written \in Nat /\ written <= MaxBytes
  BY PacketStreamAssumption DEF PSInv, Types
<1>3. reader_queue \in Seq(Packets) /\ writer_queue \in Seq(Packets)
  BY DEF PSInv, Types
<1>4. Len(received) + Len(current_read_packet.data) <= mid
  BY <1>3, ChainBounds DEF PushedUpTo
<1>5. mid <= written - Len(current_write_packet.data)
  BY <1>3, ChainBounds DEF PushedUpTo
<1>6. mid <= written
  BY <1>1, <1>2, <1>5
<1>7. QED
  BY <1>1, <1>2, <1>4, <1>5, <1>6

LEMMA NothingMore ==
    ASSUME NEW a \in Nat PROVE a + 0 = a /\ a - 0 = a
OBVIOUS

LEMMA WithinBounds ==
    ASSUME NEW a \in Nat, NEW k \in Nat, NEW c \in Nat, NEW b \in Nat, (a + k) + c <= b
    PROVE  k \in 0 .. b - a
OBVIOUS

\* Who has used up a final packet has been disconnected or has all bytes.
LEMMA AllRead ==
    ASSUME PSInv', NEW mid \in Nat, PushedUpTo(mid)', IsFinal(current_read_packet'.type),
           Len(current_read_packet'.data) = 0
    PROVE  disconnected' \/ (Flushed' /\ Len(received') = written')
<1> SUFFICES ASSUME ~disconnected' PROVE Flushed' /\ Len(received') = written'
  OBVIOUS
<1>1. Flushed' /\ Message' = 0 /\ writer_queue' = <<>>
  BY DEF PSInv, ReaderState
<1>2. reader_queue' = <<>>
  <2>1. reader_queue' \in Seq(Packets)
    BY DEF PSInv, Types
  <2>2. Len(reader_queue') = 0
    BY <1>1 DEF Message
  <2>3. QED
    BY <2>1, <2>2
<1>3. Len(current_write_packet'.data) = 0
  <2>1. current_write_packet' = Packet("END")
    BY <1>1 DEF PSInv, WriterState
  <2>2. QED
    BY <2>1, EmptyPacket DEF PacketTypes
<1>4. Len(received') \in Nat /\ written' \in Nat
  BY DEF PSInv, Types
<1>5. Len(received') + 0 = Len(received') /\ written' - 0 = written'
  BY <1>4, NothingMore, Zenon
<1>6. Chained(<<>>, Len(received'), mid) /\ Chained(<<>>, mid, written')
  BY <1>1, <1>2, <1>3, <1>5 DEF PushedUpTo
<1>7. mid = Len(received') /\ written' = mid
  BY <1>4, <1>6, ChainEmpty
<1>8. QED
  BY <1>1, <1>7

LEMMA CopyReadsOn ==
    ASSUME PSInv, PSInv', NEW mid \in Nat, PushedUpTo(mid)', Flushed' = Flushed,
           UNCHANGED <<written, disconnected>>,
           NEW packet \in Packets, packet.data = BytesFrom(Len(received), Len(packet.data)),
           NEW n \in 0 .. MaxLen, CopyFrom(packet, n)
    PROVE  ReadsOn(n, mid)
<1>1. PICK k : k = Least(n, Len(packet.data))
  OBVIOUS
<1>2. received \in Seq(Nat) /\ received = BytesFrom(0, Len(received)) /\ n \in Nat
  BY PacketStreamAssumption DEF PSInv, Types, Carried
<1>3. /\ k \in 0 .. n
      /\ received' = received \o BytesFrom(Len(received), k)
      /\ Len(received') = Len(received) + k
      /\ current_read_packet'.type = packet.type
      /\ Len(current_read_packet'.data) = Len(packet.data) - k
  BY <1>1, <1>2, CopyBytes
<1>4. /\ left' = n - k
      /\ \/ result' = "success" /\ left' = 0
         \/ result' = "failure" /\ left' > 0 /\ IsFinal(packet.type) /\ k = Len(packet.data)
         \/ result' = "reading"
  BY <1>1, CopyEnds
<1>5. k \in 0 .. mid - Len(received)
  <2>1. Len(received') + Len(current_read_packet'.data) <= mid
    <3>1. reader_queue' \in Seq(Packets)
      BY DEF PSInv, Types
    <3>2. QED
      BY <3>1, ChainBounds DEF PushedUpTo
  <2>2. Len(received) \in Nat /\ Len(current_read_packet'.data) \in Nat
    BY PacketFields DEF PSInv, Types
  <2>3. k \in Nat
    BY <1>2, <1>3
  <2>4. (Len(received) + k) + Len(current_read_packet'.data) <= mid
    BY <1>3, <2>1
  <2>5. QED
    BY <2>2, <2>3, <2>4, WithinBounds, Zenon
<1>6. ASSUME result' = "failure", IsFinal(packet.type), k = Len(packet.data)
      PROVE  disconnected \/ (Flushed /\ Len(received') = written)
  <2>1. Len(packet.data) \in Nat
    BY PacketFields
  <2>2. Len(current_read_packet'.data) = 0 /\ IsFinal(current_read_packet'.type)
    BY <1>3, <1>6, <2>1
  <2>3. disconnected' \/ (Flushed' /\ Len(received') = written')
    BY <2>2, AllRead
  <2>4. QED
    BY <2>3
<1>7. \/ result' = "reading"
      \/ result' = "success" /\ left' = 0
      \/ /\ result' = "failure"
         /\ disconnected \/ (Flushed /\ Len(received') = written /\ left' > 0)
  BY <1>4, <1>6
<1>8. QED
  BY <1>3, <1>4, <1>5, <1>7 DEF ReadsOn

\* the first wait of a read begins, or its wait ends without bytes
LEMMA NoReadsOn ==
    ASSUME PSInv, NEW mid \in Nat, PushedUpTo(mid), NEW len \in 0 .. MaxLen,
           received' = received, left' = len,
           result' = "reading" \/ (result' = "failure" /\ disconnected)
    PROVE  ReadsOn(len, mid)
<1>1. Len(received) \in Nat /\ Len(received) <= mid /\ received \in Seq(Nat)
  BY ReadBounds DEF PSInv, Types
<1>2. len \in Nat
  BY PacketStreamAssumption
<1>3. 0 \in 0 .. len /\ 0 \in 0 .. mid - Len(received) /\ len - 0 = len
  BY <1>1, <1>2
<1>4. received' = received \o BytesFrom(Len(received), 0)
  BY <1>1, NoBytes
<1>5. QED
  BY <1>3, <1>4 DEF ReadsOn

\* the state of the reading stream after the copying
LEMMA CopyState ==
    ASSUME PSInv, NEW packet \in Packets, packet.type # "NULL",
           packet.data = BytesFrom(Len(received), Len(packet.data)),
           NEW n \in 0 .. MaxLen, CopyFrom(packet, n)
    PROVE  /\ current_read_packet' \in Packets /\ current_read_packet'.type = packet.type
           /\ current_read_packet' # NULL
           /\ Len(received') + Len(current_read_packet'.data) = Len(received) + Len(packet.data)
           /\ received' \in Seq(Nat) /\ received' = BytesFrom(0, Len(received'))
           /\ current_read_packet'.data = BytesFrom(Len(received'), Len(current_read_packet'.data))
           /\ left' \in 0 .. MaxLen /\ pc' \in {"idle", "prefetch", "next"} /\ pc' # "prefetch"
           /\ result' \in {"none", "reading", "success", "failure"}
           /\ result' = "reading" <=> pc' # "idle"
           /\ pc' = "next" =>
                ~IsFinal(packet.type) /\ current_read_packet'.data = <<>> /\ left' > 0
<1>1. PICK k : k = Least(n, Len(packet.data))
  OBVIOUS
<1>2. received \in Seq(Nat) /\ received = BytesFrom(0, Len(received)) /\ n \in Nat
  BY PacketStreamAssumption DEF PSInv, Types, Carried
<1>3. /\ k \in 0 .. Len(packet.data)
      /\ received' = BytesFrom(0, Len(received')) /\ received' \in Seq(Nat)
      /\ Len(received') = Len(received) + k
      /\ current_read_packet' \in Packets /\ current_read_packet'.type = packet.type
      /\ current_read_packet'.data = BytesFrom(Len(received'), Len(current_read_packet'.data))
      /\ Len(current_read_packet'.data) = Len(packet.data) - k
  BY <1>1, <1>2, CopyBytes
<1>4. /\ left' \in 0 .. MaxLen
      /\ \/ pc' = "idle" /\ result' = "success" /\ left' = 0
         \/ /\ pc' = "idle" /\ result' = "failure" /\ left' > 0
            /\ IsFinal(packet.type) /\ k = Len(packet.data)
         \/ /\ pc' = "next" /\ result' = "reading" /\ left' > 0
            /\ ~IsFinal(packet.type) /\ k = Len(packet.data)
  BY <1>1, CopyEnds
<1>5. Len(received) \in Nat /\ Len(packet.data) \in Nat /\ k \in Nat
  BY <1>2, <1>3, PacketFields
<1>6. Len(received') + Len(current_read_packet'.data) = Len(received) + Len(packet.data)
  <2>1. ASSUME NEW a \in Nat, NEW b \in Nat, NEW c \in Nat PROVE (a + c) + (b - c) = a + b
    OBVIOUS
  <2>2. (Len(received) + k) + (Len(packet.data) - k) = Len(received) + Len(packet.data)
    BY <1>5, <2>1, Zenon
  <2>3. QED
    BY <1>3, <2>2
<1>7. current_read_packet' # NULL
  BY <1>3, NullPacket
<1>8. pc' = "next" => ~IsFinal(packet.type) /\ current_read_packet'.data = <<>> /\ left' > 0
  <2>1. ASSUME pc' = "next" PROVE k = Len(packet.data) /\ ~IsFinal(packet.type) /\ left' > 0
    BY <1>4, <2>1
  <2>2. ASSUME NEW a \in Nat PROVE a - a = 0
    OBVIOUS
  <2>3. pc' = "next" => Len(current_read_packet'.data) = 0
    BY <1>3, <1>5, <2>1, <2>2, Zenon
  <2>4. QED
    BY <1>3, <2>1, <2>3, NoBytesPacket
<1>9. /\ pc' \in {"idle", "prefetch", "next"} /\ pc' # "prefetch"
      /\ result' \in {"none", "reading", "success", "failure"}
      /\ result' = "reading" <=> pc' # "idle"
  BY <1>4
<1>10. QED
  BY <1>3, <1>4, <1>6, <1>7, <1>8, <1>9

LEMMA ReadCurrentStep ==
    ASSUME PSInv, NEW mid \in Nat, PushedUpTo(mid), NEW len \in 0 .. MaxLen,
           current_read_packet # NULL, CopyFrom(current_read_packet, len),
           UNCHANGED <<writeVars, writer_queue, reader_queue, disconnected>>
    PROVE  PSInv' /\ PushedUpTo(mid)' /\ Flushed' = Flushed /\ ReadsOn(len, mid)
<1> DEFINE c == current_read_packet
<1>1. UNCHANGED <<current_write_packet, to_write, written, writer_queue, reader_queue, disconnected>>
  BY DEF writeVars
<1>2. c \in Packets /\ c.data = BytesFrom(Len(received), Len(c.data)) /\ c.type # "NULL"
  BY DEF PSInv, Types, Carried, ReaderState
<1>3. /\ c' \in Packets /\ c'.type = c.type /\ c' # NULL
      /\ Len(received') + Len(c'.data) = Len(received) + Len(c.data)
      /\ received' \in Seq(Nat) /\ received' = BytesFrom(0, Len(received'))
      /\ c'.data = BytesFrom(Len(received'), Len(c'.data))
      /\ left' \in 0 .. MaxLen /\ pc' \in {"idle", "prefetch", "next"} /\ pc' # "prefetch"
      /\ result' \in {"none", "reading", "success", "failure"}
      /\ result' = "reading" <=> pc' # "idle"
      /\ pc' = "next" => ~IsFinal(c.type) /\ c'.data = <<>> /\ left' > 0
  BY <1>2, CopyState
<1>4. Message' = Message /\ Flushed' = Flushed
  BY <1>1 DEF Message, Flushed
<1>5. Types'
  BY <1>1, <1>3 DEF PSInv, Types
<1>6. PushedUpTo(mid)'
  BY <1>1, <1>3 DEF PushedUpTo
<1>7. Carried'
  BY <1>1, <1>3, <1>6 DEF PSInv, Carried
<1>8. WriterState'
  <2>1. ~(current_write_packet.type \in {"NULL", "START"})
    BY DEF PSInv, WriterState
  <2>2. QED
    BY <1>1, <1>3, <1>4, <2>1 DEF PSInv, WriterState
<1>9. ReaderState'
  <2>1. c'.type # "NULL"
    BY <1>2, <1>3
  <2>2. IsFinal(c'.type) => \/ disconnected' /\ reader_queue' = <<>>
                            \/ Flushed' /\ Message' = 0 /\ writer_queue' = <<>>
    BY <1>1, <1>3, <1>4 DEF PSInv, ReaderState
  <2>3. QED
    BY <1>3, <2>1, <2>2 DEF ReaderState
<1>10. ReaderQueue' /\ WriterQueue'
  BY <1>1, <1>3, <1>4 DEF PSInv, ReaderQueue, WriterQueue, GoodPacket
<1>11. PSInv'
  BY <1>5, <1>7, <1>8, <1>9, <1>10 DEF PSInv
<1>12. ReadsOn(len, mid)
  BY <1>1, <1>2, <1>4, <1>6, <1>11, CopyReadsOn
<1>13. QED
  BY <1>4, <1>6, <1>11, <1>12

LEMMA PrefetchStep ==
    ASSUME PSInv, NEW mid \in Nat, PushedUpTo(mid), NEW len \in 0 .. MaxLen,
           current_read_packet = NULL, pc' = "prefetch", left' = len, result' = "reading",
           UNCHANGED <<writeVars, writer_queue, reader_queue, disconnected, current_read_packet, received>>
    PROVE  PSInv' /\ PushedUpTo(mid)' /\ Flushed' = Flushed /\ ReadsOn(len, mid)
<1>1. UNCHANGED <<current_write_packet, to_write, written, writer_queue, reader_queue, disconnected>>
  BY DEF writeVars
<1>2. Message' = Message /\ Flushed' = Flushed
  BY <1>1 DEF Message, Flushed
<1>3. Types'
  BY <1>1 DEF PSInv, Types
<1>4. PushedUpTo(mid)'
  BY <1>1 DEF PushedUpTo
<1>5. Carried'
  BY <1>1, <1>4 DEF PSInv, Carried
<1>6. WriterState'
  BY <1>1, <1>2 DEF PSInv, WriterState
<1>7. ReaderState'
  BY <1>1, <1>2 DEF PSInv, ReaderState
<1>8. ReaderQueue' /\ WriterQueue'
  BY <1>1, <1>2 DEF PSInv, ReaderQueue, WriterQueue, GoodPacket
<1>9. ReadsOn(len, mid)
  BY NoReadsOn
<1>10. QED
  BY <1>2, <1>3, <1>4, <1>5, <1>6, <1>7, <1>8, <1>9 DEF PSInv

LEMMA StartReadStep ==
    ASSUME PSInv, StartRead, NEW mid \in Nat, PushedUpTo(mid)
    PROVE  /\ PSInv' /\ PushedUpTo(mid)' /\ Flushed' = Flushed
           /\ UNCHANGED <<written, disconnected>>
           /\ result # "reading" /\ \E len \in 0 .. MaxLen : ReadsOn(len, mid)
<1>1. PICK len \in 0 .. MaxLen :
        \/ /\ current_read_packet = NULL
           /\ pc' = "prefetch" /\ left' = len /\ result' = "reading"
           /\ UNCHANGED <<current_read_packet, received>>
        \/ current_read_packet # NULL /\ CopyFrom(current_read_packet, len)
  BY DEF StartRead
<1>2. UNCHANGED <<writeVars, writer_queue, reader_queue, disconnected>> /\ pc = "idle"
  BY DEF StartRead
<1>3. PSInv' /\ PushedUpTo(mid)' /\ Flushed' = Flushed /\ ReadsOn(len, mid)
  <2>1. CASE current_read_packet = NULL
    BY <1>1, <1>2, <2>1, PrefetchStep
  <2>2. CASE current_read_packet # NULL
    BY <1>1, <1>2, <2>2, ReadCurrentStep
  <2>3. QED
    BY <2>1, <2>2
<1>4. result # "reading"
  BY <1>2 DEF PSInv, ReaderState
<1>5. UNCHANGED <<written, disconnected>>
  BY <1>2 DEF writeVars
<1>6. QED
  BY <1>3, <1>4, <1>5

\* What a read that waits finds in the reader queue: a packet of the message,
\* which has the right type, or the packet of a disconnect.
LEMMA NextPacket ==
    ASSUME PSInv, pc # "idle", reader_queue # <<>>
    PROVE  \/ /\ Message # 0 /\ Head(reader_queue).type \in RightTypes(pc)
              /\ IsFinal(Head(reader_queue).type) => Flushed /\ Message = 1 /\ writer_queue = <<>>
           \/ /\ Message = 0 /\ disconnected /\ Len(reader_queue) = 1
              /\ Head(reader_queue) = Packet("END")
<1>1. reader_queue \in Seq(Packets) /\ Len(reader_queue) \in Nat \ {0} /\ Head(reader_queue) = reader_queue[1]
  BY DEF PSInv, Types
<1>2. CASE Message # 0
  <2>1. 1 \in 1 .. Message
    <3>1. Message \in Nat
      BY <1>1 DEF Message
    <3>2. QED
      BY <1>2, <3>1
  <2>2. GoodPacket(reader_queue[1], 1 = 1 /\ current_read_packet = NULL, 1 = Message /\ writer_queue = <<>>)
    BY <2>1 DEF PSInv, ReaderQueue
  <2>3. \/ pc = "prefetch" /\ current_read_packet = NULL
        \/ pc = "next" /\ current_read_packet # NULL
    BY DEF PSInv, Types, ReaderState
  <2>4. reader_queue[1].type \in RightTypes(pc)
    BY <2>2, <2>3 DEF GoodPacket, RightTypes, First, Later
  <2>5. IsFinal(reader_queue[1].type) => Flushed /\ Message = 1 /\ writer_queue = <<>>
    BY <2>2 DEF GoodPacket
  <2>6. QED
    BY <1>1, <1>2, <2>4, <2>5
<1>3. CASE Message = 0
  <2>1. disconnected /\ Len(reader_queue) = 1
    BY <1>1, <1>3 DEF Message
  <2>2. reader_queue[Len(reader_queue)] = Packet("END")
    BY <2>1 DEF PSInv, ReaderQueue
  <2>3. QED
    BY <1>1, <1>3, <2>1, <2>2
<1>4. QED
  BY <1>2, <1>3

\* The queues after the first packet of the reader queue has been taken.
LEMMA Taken ==
    ASSUME PSInv, pc # "idle", reader_queue # <<>>, reader_queue' = Tail(reader_queue),
           UNCHANGED <<writeVars, writer_queue, disconnected>>
    PROVE  /\ Message' = IF Message = 0 THEN 0 ELSE Message - 1
           /\ Message = 0 => reader_queue' = <<>>
           /\ disconnected' /\ reader_queue' # <<>> => reader_queue'[Len(reader_queue')] = Packet("END")
           /\ \A j \in 1 .. Message' : reader_queue'[j] = reader_queue[j + 1]
           /\ reader_queue' \in Seq(Packets)
<1> DEFINE m == Len(reader_queue)
<1>1. /\ reader_queue \in Seq(Packets) /\ m \in Nat \ {0} /\ reader_queue' \in Seq(Packets)
      /\ Len(reader_queue') = m - 1 /\ \A j \in 1 .. m - 1 : reader_queue'[j] = reader_queue[j + 1]
      /\ reader_queue' = <<>> <=> m = 1
  <2>1. reader_queue \in Seq(Packets)
    BY DEF PSInv, Types
  <2>2. /\ m \in Nat \ {0} /\ reader_queue' \in Seq(Packets)
        /\ Len(reader_queue') = m - 1 /\ \A j \in 1 .. m - 1 : reader_queue'[j] = reader_queue[j + 1]
    BY <2>1
  <2>3. reader_queue' = <<>> <=> m = 1
    <3>1. reader_queue' = <<>> <=> Len(reader_queue') = 0
      BY <2>2, EmptySeq, Zenon
    <3>2. Len(reader_queue') = 0 <=> m = 1
      BY <2>2
    <3>3. QED
      BY <3>1, <3>2
  <2>4. QED
    BY <2>1, <2>2, <2>3
<1>2. disconnected' = disconnected
  OBVIOUS
<1>3. Message' = IF Message = 0 THEN 0 ELSE Message - 1
  BY <1>1, <1>2 DEF Message
<1>4. Message = 0 => reader_queue' = <<>>
  BY <1>1 DEF Message
<1>5. ASSUME disconnected', reader_queue' # <<>> PROVE reader_queue'[Len(reader_queue')] = Packet("END")
  <2>1. reader_queue[m] = Packet("END")
    BY <1>2, <1>5 DEF PSInv, ReaderQueue
  <2>2. m - 1 \in 1 .. m - 1 /\ (m - 1) + 1 = m
    BY <1>1, <1>5
  <2>3. QED
    BY <1>1, <2>1, <2>2
<1>6. \A j \in 1 .. Message' : reader_queue'[j] = reader_queue[j + 1]
  <2>1. Message' \in Nat /\ Message' <= m - 1
    BY <1>1, <1>2 DEF Message
  <2>2. \A j \in 1 .. Message' : j \in 1 .. m - 1
    BY <1>1, <2>1
  <2>3. QED
    BY <1>1, <2>2
<1>7. QED
  BY <1>1, <1>3, <1>4, <1>5, <1>6

LEMMA RightPacketStep ==
    ASSUME PSInv, NEW mid \in Nat, PushedUpTo(mid), pc # "idle", reader_queue # <<>>,
           reader_queue' = Tail(reader_queue), Head(reader_queue).type \in RightTypes(pc),
           CopyFrom(Head(reader_queue), left), UNCHANGED <<writeVars, writer_queue, disconnected>>
    PROVE  PSInv' /\ PushedUpTo(mid)' /\ Flushed' = Flushed /\ ReadsOn(left, mid)
<1> DEFINE p == Head(reader_queue)
           c == current_read_packet
<1>1. UNCHANGED <<current_write_packet, to_write, written, writer_queue, disconnected>>
  BY DEF writeVars
<1>2. Flushed' = Flushed
  BY <1>1 DEF Flushed
<1>3. \/ pc = "prefetch" /\ c = NULL
      \/ pc = "next" /\ c # NULL /\ c.data = <<>>
  BY DEF PSInv, Types, ReaderState
<1>4. Len(c.data) = 0 /\ Len(received) \in Nat /\ Len(received) + 0 = Len(received) /\ left \in 0 .. MaxLen
  <2>1. Len(<<>>) = 0
    OBVIOUS
  <2>2. Len(c.data) = 0
    BY <1>3, <2>1, NullPacket
  <2>3. Len(received) \in Nat /\ left \in 0 .. MaxLen
    BY DEF PSInv, Types
  <2>4. QED
    BY <2>2, <2>3, NothingMore
<1>5. Chained(reader_queue, Len(received), mid) /\ reader_queue \in Seq(Packets)
  BY <1>4 DEF PushedUpTo, PSInv, Types
<1>6. /\ p \in Packets /\ p.data = BytesFrom(Len(received), Len(p.data))
      /\ Chained(reader_queue', Len(received) + Len(p.data), mid)
  BY <1>5, ChainHead
<1>7. p.type # "NULL"
  BY DEF RightTypes
<1>8. /\ c' \in Packets /\ c'.type = p.type /\ c' # NULL
      /\ Len(received') + Len(c'.data) = Len(received) + Len(p.data)
      /\ received' \in Seq(Nat) /\ received' = BytesFrom(0, Len(received'))
      /\ c'.data = BytesFrom(Len(received'), Len(c'.data))
      /\ left' \in 0 .. MaxLen /\ pc' \in {"idle", "prefetch", "next"} /\ pc' # "prefetch"
      /\ result' \in {"none", "reading", "success", "failure"}
      /\ result' = "reading" <=> pc' # "idle"
      /\ pc' = "next" => ~IsFinal(p.type) /\ c'.data = <<>> /\ left' > 0
  BY <1>4, <1>6, <1>7, CopyState
<1> HIDE DEF p
<1>9. \/ /\ Message # 0
         /\ IsFinal(p.type) => Flushed /\ Message = 1 /\ writer_queue = <<>>
      \/ Message = 0 /\ disconnected /\ p = Packet("END") /\ c # NULL
  <2>1. p = Packet("END") => pc # "prefetch"
    <3>1. Packet("END").type = "END"
      BY EmptyPacket DEF PacketTypes
    <3>2. QED
      BY <3>1 DEF p, RightTypes
  <2>2. QED
    BY <1>3, <2>1, NextPacket DEF p
<1>10. /\ Message' = IF Message = 0 THEN 0 ELSE Message - 1
       /\ Message = 0 => reader_queue' = <<>>
       /\ disconnected' /\ reader_queue' # <<>> => reader_queue'[Len(reader_queue')] = Packet("END")
       /\ \A j \in 1 .. Message' : reader_queue'[j] = reader_queue[j + 1]
       /\ reader_queue' \in Seq(Packets)
  BY Taken
<1>11. Types'
  BY <1>1, <1>8, <1>10 DEF PSInv, Types
<1>12. PushedUpTo(mid)'
  BY <1>1, <1>6, <1>8 DEF PushedUpTo
<1>13. Carried'
  BY <1>1, <1>8, <1>12 DEF PSInv, Carried
<1>14. WriterState'
  <2>1. ~(current_write_packet.type \in {"NULL", "START"})
    BY <1>9 DEF PSInv, WriterState
  <2>2. QED
    BY <1>1, <1>2, <1>8, <2>1 DEF PSInv, WriterState
<1>15. ReaderState'
  <2>1. c'.type # "NULL"
    BY <1>7, <1>8 DEF p
  <2>2. ASSUME IsFinal(c'.type)
        PROVE  \/ disconnected' /\ reader_queue' = <<>>
               \/ Flushed' /\ Message' = 0 /\ writer_queue' = <<>>
    <3>1. CASE Message = 0
      BY <1>1, <1>9, <1>10, <3>1
    <3>2. CASE Message # 0
      <4>1. Flushed /\ Message = 1 /\ writer_queue = <<>>
        BY <1>8, <1>9, <2>2, <3>2
      <4>2. Message' = 0
        BY <1>10, <4>1
      <4>3. QED
        BY <1>1, <1>2, <4>1, <4>2
    <3>3. QED
      BY <3>1, <3>2
  <2>3. QED
    BY <1>8, <2>1, <2>2 DEF ReaderState
<1>16. Message \in Nat
  BY <1>5 DEF Message
<1>17. ReaderQueue'
  <2>1. ASSUME NEW j \in 1 .. Message'
        PROVE  GoodPacket(reader_queue[j], j = 1 /\ current_read_packet = NULL,
                          j = Message /\ writer_queue = <<>>)'
    <3>1. j + 1 \in 1 .. Message /\ j + 1 # 1 /\ (j + 1 = Message <=> j = Message')
      BY <1>10, <1>16
    <3>2. GoodPacket(reader_queue[j + 1], j + 1 = 1 /\ current_read_packet = NULL,
                     j + 1 = Message /\ writer_queue = <<>>)
      BY <3>1 DEF PSInv, ReaderQueue
    <3>3. reader_queue'[j] = reader_queue[j + 1]
      BY <1>10
    <3>4. QED
      BY <1>1, <1>2, <1>8, <3>1, <3>2, <3>3 DEF GoodPacket
  <2>2. QED
    BY <1>10, <2>1 DEF ReaderQueue
<1>18. WriterQueue'
  <2>1. ASSUME NEW j \in 1 .. Len(writer_queue)
        PROVE  GoodPacket(writer_queue[j], j = 1 /\ Message = 0 /\ current_read_packet = NULL,
                          j = Len(writer_queue))'
    <3>1. GoodPacket(writer_queue[j], j = 1 /\ Message = 0 /\ current_read_packet = NULL,
                     j = Len(writer_queue))
      BY DEF PSInv, WriterQueue
    <3>2. ~(Message = 0 /\ current_read_packet = NULL)
      BY <1>9
    <3>3. QED
      BY <1>1, <1>2, <1>8, <3>1, <3>2 DEF GoodPacket
  <2>2. QED
    BY <1>1, <2>1 DEF WriterQueue
<1>19. PSInv'
  BY <1>11, <1>13, <1>14, <1>15, <1>17, <1>18 DEF PSInv
<1>20. ReadsOn(left, mid)
  BY <1>1, <1>2, <1>4, <1>6, <1>12, <1>19, CopyReadsOn DEF p
<1>21. QED
  BY <1>2, <1>12, <1>19, <1>20

LEMMA WrongPacketStep ==
    ASSUME PSInv, NEW mid \in Nat, PushedUpTo(mid), pc # "idle", reader_queue # <<>>,
           reader_queue' = Tail(reader_queue), Head(reader_queue).type \notin RightTypes(pc),
           pc' = "idle", result' = "failure", UNCHANGED <<current_read_packet, left, received>>,
           UNCHANGED <<writeVars, writer_queue, disconnected>>
    PROVE  PSInv' /\ PushedUpTo(mid)' /\ Flushed' = Flushed /\ ReadsOn(left, mid)
<1> DEFINE p == Head(reader_queue)
<1>1. UNCHANGED <<current_write_packet, to_write, written, writer_queue, disconnected>>
  BY DEF writeVars
<1>2. Flushed' = Flushed
  BY <1>1 DEF Flushed
<1>3. Message = 0 /\ disconnected /\ p = Packet("END")
  BY NextPacket
<1>4. current_read_packet = NULL
  <2>1. p.type = "END"
    BY <1>3, EmptyPacket DEF PacketTypes
  <2>2. pc # "next"
    BY <2>1 DEF RightTypes
  <2>3. QED
    BY <2>2 DEF PSInv, Types, ReaderState
<1>5. Message' = 0 /\ reader_queue' = <<>> /\ reader_queue' \in Seq(Packets)
  BY <1>3, Taken
<1>6. Types'
  BY <1>1, <1>5 DEF PSInv, Types
<1>7. PushedUpTo(mid)'
  <2>1. /\ Chained(reader_queue, Len(received) + Len(current_read_packet.data), mid)
        /\ reader_queue \in Seq(Packets)
    BY DEF PushedUpTo, PSInv, Types
  <2>2. Chained(reader_queue', (Len(received) + Len(current_read_packet.data)) + Len(p.data), mid)
    BY <2>1, ChainHead
  <2>3. Len(p.data) = 0
    BY <1>3, EmptyPacket DEF PacketTypes
  <2>4. Len(received) + Len(current_read_packet.data) \in Nat
    BY ReadBounds
  <2>5. (Len(received) + Len(current_read_packet.data)) + 0 = Len(received) + Len(current_read_packet.data)
    BY <2>4, NothingMore, Zenon
  <2>6. Chained(reader_queue', Len(received) + Len(current_read_packet.data), mid)
    BY <2>2, <2>3, <2>5
  <2>7. QED
    BY <1>1, <2>6 DEF PushedUpTo
<1>8. Carried'
  BY <1>1, <1>7 DEF PSInv, Carried
<1>9. WriterState'
  BY <1>1, <1>2, <1>3, <1>5 DEF PSInv, WriterState
<1>10. ReaderState'
  BY <1>1, <1>2, <1>3, <1>4, <1>5 DEF PSInv, ReaderState
<1>11. ReaderQueue' /\ WriterQueue'
  <2>1. ReaderQueue'
    BY <1>5 DEF ReaderQueue
  <2>2. WriterQueue'
    BY <1>1, <1>2, <1>3, <1>5 DEF PSInv, WriterQueue, GoodPacket
  <2>3. QED
    BY <2>1, <2>2
<1>12. ReadsOn(left, mid)
  BY <1>3, NoReadsOn DEF PSInv, Types
<1>13. QED
  BY <1>2, <1>6, <1>7, <1>8, <1>9, <1>10, <1>11, <1>12 DEF PSInv

LEMMA GetPacketStep ==
    ASSUME PSInv, GetPacket, NEW mid \in Nat, PushedUpTo(mid)
    PROVE  /\ PSInv' /\ PushedUpTo(mid)' /\ Flushed' = Flushed
           /\ UNCHANGED <<written, disconnected>>
           /\ result = "reading" /\ ReadsOn(left, mid)
<1>1. /\ pc # "idle" /\ reader_queue # <<>> /\ reader_queue' = Tail(reader_queue)
      /\ UNCHANGED <<writeVars, writer_queue, disconnected>>
  BY DEF GetPacket
<1>2. \/ /\ Head(reader_queue).type \in RightTypes(pc)
         /\ CopyFrom(Head(reader_queue), left)
      \/ /\ Head(reader_queue).type \notin RightTypes(pc)
         /\ pc' = "idle" /\ result' = "failure"
         /\ UNCHANGED <<current_read_packet, left, received>>
  BY DEF GetPacket
<1>3. PSInv' /\ PushedUpTo(mid)' /\ Flushed' = Flushed /\ ReadsOn(left, mid)
  <2>1. CASE Head(reader_queue).type \in RightTypes(pc)
    BY <1>1, <1>2, <2>1, RightPacketStep
  <2>2. CASE Head(reader_queue).type \notin RightTypes(pc)
    BY <1>1, <1>2, <2>2, WrongPacketStep
  <2>3. QED
    BY <2>1, <2>2
<1>4. result = "reading"
  BY <1>1 DEF PSInv, ReaderState
<1>5. UNCHANGED <<written, disconnected>>
  BY <1>1 DEF writeVars
<1>6. QED
  BY <1>3, <1>4, <1>5

LEMMA ReadTimeoutStep ==
    ASSUME PSInv, ReadTimeout, NEW mid \in Nat, PushedUpTo(mid)
    PROVE  /\ PSInv' /\ PushedUpTo(mid)' /\ Flushed' = Flushed
           /\ UNCHANGED <<written, disconnected, received, left>>
           /\ result = "reading" /\ result' = "failure" /\ mid = Len(received)
<1>1. /\ UNCHANGED <<current_write_packet, to_write, written, current_read_packet, left, received,
                     writer_queue, reader_queue, disconnected>>
      /\ pc # "idle" /\ reader_queue = <<>> /\ pc' = "idle" /\ result' = "failure"
  BY DEF ReadTimeout, writeVars
<1>2. Message' = Message /\ Flushed' = Flushed
  BY <1>1 DEF Message, Flushed
<1>3. Types'
  BY <1>1 DEF PSInv, Types
<1>4. PushedUpTo(mid)'
  BY <1>1 DEF PushedUpTo
<1>5. Carried'
  BY <1>1, <1>4 DEF PSInv, Carried
<1>6. WriterState'
  BY <1>1, <1>2 DEF PSInv, WriterState
<1>7. ReaderState'
  BY <1>1, <1>2 DEF PSInv, ReaderState
<1>8. ReaderQueue' /\ WriterQueue'
  BY <1>1, <1>2 DEF PSInv, ReaderQueue, WriterQueue, GoodPacket
<1>9. result = "reading"
  BY <1>1 DEF PSInv, ReaderState
<1>10. mid = Len(received)
  <2>1. current_read_packet.data = <<>>
    BY <1>1, NullPacket DEF PSInv, Types, ReaderState
  <2>2. Len(current_read_packet.data) = 0 /\ Len(received) \in Nat
    BY <2>1, ReadBounds
  <2>3. Len(received) + 0 = Len(received)
    BY <2>2, NothingMore, Zenon
  <2>4. Chained(<<>>, Len(received), mid)
    BY <1>1, <2>2, <2>3 DEF PushedUpTo
  <2>5. QED
    BY <2>2, <2>4, ChainEmpty
<1>11. QED
  BY <1>1, <1>2, <1>3, <1>4, <1>5, <1>6, <1>7, <1>8, <1>9, <1>10 DEF PSInv

-----------------------------------------------------------------------------
(***************************************************************************)
(* Every step                                                              *)
(***************************************************************************)
LEMMA SameState ==
    ASSUME PSInv, UNCHANGED vars, NEW mid \in Nat, PushedUpTo(mid)
    PROVE  PSInv' /\ PushedUpTo(mid)'
<1>1. UNCHANGED <<current_write_packet, to_write, written, current_read_packet, pc, left, result,
                  received, writer_queue, reader_queue, disconnected>>
  BY DEF vars, writeVars, readVars
<1>2. Message' = Message /\ Flushed' = Flushed
  BY <1>1 DEF Message, Flushed
<1>3. PushedUpTo(mid)'
  BY <1>1 DEF PushedUpTo
<1>4. Types' /\ Carried'
  BY <1>1, <1>3 DEF PSInv, Types, Carried
<1>5. WriterState' /\ ReaderState'
  BY <1>1, <1>2 DEF PSInv, WriterState, ReaderState
<1>6. ReaderQueue' /\ WriterQueue'
  BY <1>1, <1>2 DEF PSInv, ReaderQueue, WriterQueue, GoodPacket
<1>7. QED
  BY <1>3, <1>4, <1>5, <1>6 DEF PSInv

LEMMA PSStep == PSInv /\ [Next]_vars => PSInv'
<1> SUFFICES ASSUME PSInv, [Next]_vars PROVE PSInv'
  OBVIOUS
<1>1. PICK mid \in Nat : PushedUpTo(mid)
  BY DEF PSInv, Carried
<1>2. CASE StartWrite
  BY <1>1, <1>2, StartWriteStep
<1>3. CASE WriteData
  BY <1>1, <1>3, WriteDataStep
<1>4. CASE Flush
  BY <1>1, <1>4, FlushStep
<1>5. CASE PushPacket
  BY <1>1, <1>5, PushStep
<1>6. CASE Disconnect
  BY <1>1, <1>6, DisconnectStep
<1>7. CASE StartRead
  BY <1>1, <1>7, StartReadStep
<1>8. CASE GetPacket
  BY <1>1, <1>8, GetPacketStep
<1>9. CASE ReadTimeout
  BY <1>1, <1>9, ReadTimeoutStep
<1>10. CASE UNCHANGED vars
  BY <1>1, <1>10, SameState
<1>11. QED
  BY <1>2, <1>3, <1>4, <1>5, <1>6, <1>7, <1>8, <1>9, <1>10 DEF Next

LEMMA Invariance == Spec => []PSInv
BY PSInit, PSStep, PTL DEF Spec

-----------------------------------------------------------------------------
(***************************************************************************)
(* The invariants                                                          *)
(***************************************************************************)
LEMMA PacketsTyped ==
    ASSUME NEW q \in Seq(Packets), NEW p \in Range(q)
    PROVE  p \in Packets
<1>1. PICK i \in DOMAIN q : p = q[i]
  BY DEF Range
<1>2. QED
  BY <1>1

LEMMA PSTypeOK == PSInv => TypeOK
<1> SUFFICES ASSUME PSInv PROVE TypeOK
  OBVIOUS
<1> DEFINE packets == Range(writer_queue) \cup Range(reader_queue)
                        \cup {current_write_packet, current_read_packet}
<1>1. Types
  BY DEF PSInv
<1>2. ASSUME NEW p \in packets
      PROVE  /\ p.type \in {"NULL", "START", "MIDDLE", "END", "SINGLE"}
             /\ Len(p.data) <= MaxPacketSize
  <2>1. p \in Packets
    BY <1>1, PacketsTyped DEF Types
  <2>2. QED
    BY <2>1, PacketFields DEF PacketTypes
<1>3. PICK mid \in Nat : PushedUpTo(mid)
  BY DEF PSInv, Carried
<1>4. received \in Seq(1 .. MaxBytes)
  <2>1. /\ Len(received) \in Nat /\ Len(received) <= MaxBytes /\ MaxBytes \in Nat
    <3>1. /\ Len(received) \in Nat /\ Len(current_read_packet.data) \in Nat
          /\ Len(received) + Len(current_read_packet.data) <= mid /\ mid <= written
          /\ written \in Nat /\ written <= MaxBytes
      BY <1>3, ReadBounds
    <3>2. MaxBytes \in Nat
      BY PacketStreamAssumption
    <3>3. ASSUME NEW a \in Nat, NEW c \in Nat, NEW m \in Nat, NEW w \in Nat, NEW b \in Nat,
                 a + c <= m, m <= w, w <= b
          PROVE  a <= b
      BY <3>3
    <3>4. QED
      BY <3>1, <3>2, <3>3, Zenon
  <2>2. received = BytesFrom(0, Len(received))
    BY DEF PSInv, Carried
  <2>3. PICK n \in Nat : n = Len(received)
    BY <2>1
  <2>4. BytesFrom(0, n) \in Seq(1 .. MaxBytes)
    BY <2>1, <2>3 DEF BytesFrom
  <2>5. QED
    BY <2>2, <2>3, <2>4
<1>5. written \in 0 .. MaxBytes
  BY <1>1, PacketStreamAssumption DEF Types
<1> HIDE DEF packets
<1>6. \A p \in packets :
         /\ p.type \in {"NULL", "START", "MIDDLE", "END", "SINGLE"}
         /\ Len(p.data) <= MaxPacketSize
  BY <1>2
<1>7. QED
  BY <1>1, <1>4, <1>5, <1>6 DEF Types, TypeOK, packets

\* The state has the types of the code, and no packet ever holds more bytes
\* than its buffer: the assertions of mrpc_packet_write_data and
\* mrpc_packet_read_data hold.
THEOREM TypeCorrect == Spec => []TypeOK
BY Invariance, PSTypeOK, PTL

LEMMA PSNothingBehind == PSInv => NothingBehind
<1> SUFFICES ASSUME PSInv, Flushed, written > 0, Len(received) = written
             PROVE  writer_queue = <<>> /\ (disconnected \/ reader_queue = <<>>)
  BY DEF NothingBehind
<1>1. reader_queue \in Seq(Packets) /\ writer_queue \in Seq(Packets)
  BY DEF PSInv, Types
<1>2. PICK mid \in Nat : PushedUpTo(mid)
  BY DEF PSInv, Carried
<1>3. /\ Len(received) \in Nat /\ Len(current_read_packet.data) \in Nat
      /\ Len(received) + Len(current_read_packet.data) <= mid
      /\ mid <= written /\ written \in Nat /\ mid <= written - Len(current_write_packet.data)
  BY <1>2, ReadBounds
<1>4. mid = written
  <2>1. ASSUME NEW a \in Nat, NEW c \in Nat, a + c <= mid, mid <= a PROVE mid = a
    BY <2>1
  <2>2. QED
    BY <1>3, <2>1
<1>5. written # 0
  BY <1>3
<1>6. writer_queue = <<>>
  <2>1. SUFFICES ASSUME writer_queue # <<>> PROVE FALSE
    OBVIOUS
  <2>2. 1 \in 1 .. Len(writer_queue)
    BY <1>1, <2>1
  <2>3. writer_queue[1].data # <<>>
    BY <1>5, <2>2 DEF PSInv, WriterQueue, GoodPacket
  <2>4. mid < written - Len(current_write_packet.data)
    BY <1>1, <1>2, <2>1, <2>3, ChainHasBytes DEF PushedUpTo
  <2>5. Len(current_write_packet.data) \in Nat
    BY PacketFields DEF PSInv, Types
  <2>6. QED
    BY <1>3, <1>4, <2>4, <2>5
<1>7. disconnected \/ reader_queue = <<>>
  <2>1. SUFFICES ASSUME ~disconnected, reader_queue # <<>> PROVE FALSE
    OBVIOUS
  <2>2. Message = Len(reader_queue) /\ 1 \in 1 .. Len(reader_queue)
    BY <1>1, <2>1 DEF Message
  <2>3. reader_queue[1].data # <<>>
    BY <1>5, <2>2 DEF PSInv, ReaderQueue, GoodPacket
  <2>4. Len(received) + Len(current_read_packet.data) < mid
    BY <1>1, <1>2, <2>1, <2>3, ChainHasBytes DEF PushedUpTo
  <2>5. QED
    BY <1>3, <1>4, <2>4
<1>8. QED
  BY <1>6, <1>7

\* Who has read all bytes of a message has also taken its last packet, so that
\* no packet of it can turn up after mrpc_packet_stream_delete: neither an empty
\* last packet, nor one that mrpc_packet_stream_write queued too early.
THEOREM NothingLeftBehind == Spec => []NothingBehind
BY Invariance, PSNothingBehind, PTL

-----------------------------------------------------------------------------
(***************************************************************************)
(* The stream of bytes                                                     *)
(***************************************************************************)
LEMMA UnreadBytes ==
    ASSUME NEW r \in Nat, NEW c \in Packets, NEW q \in Seq(Packets), NEW mid \in Nat,
           c.data = BytesFrom(r, Len(c.data)), Chained(q, r + Len(c.data), mid)
    PROVE  r + Len(c.data \o FlattenSeq([i \in 1 .. Len(q) |-> q[i].data])) = mid
<1> DEFINE n == Len(c.data)
           f == FlattenSeq([i \in 1 .. Len(q) |-> q[i].data])
<1>1. n \in Nat /\ c.data \in Seq(Nat)
  BY PacketFields
<1>2. f = BytesFrom(r + n, mid - (r + n)) /\ r + n <= mid
  BY ChainFlatten, ChainBounds
<1> HIDE DEF n, f
<1>3. r + n \in Nat /\ mid - (r + n) \in Nat
  BY <1>1, <1>2
<1>4. f \in Seq(Nat) /\ Len(f) = mid - (r + n)
  BY <1>2, <1>3, BytesFromType
<1>5. Len(c.data \o f) = n + Len(f)
  BY <1>1, <1>4, ConcatProperties DEF n
<1>6. ASSUME NEW l \in Nat, l = mid - (r + n) PROVE r + (n + l) = mid
  BY <1>1, <1>6
<1>7. r + Len(c.data \o f) = mid
  BY <1>3, <1>4, <1>5, <1>6
<1>8. QED
  BY <1>7 DEF f

\* The bytes that have reached the reading stream, as the refinement counts
\* them, before and after a step.
Pushed == Len(received) + Len(Unread)

LEMMA PushedBytes ==
    ASSUME PSInv, NEW mid \in Nat, PushedUpTo(mid)
    PROVE  Pushed = mid
<1>1. /\ Len(received) \in Nat /\ current_read_packet \in Packets /\ reader_queue \in Seq(Packets)
      /\ current_read_packet.data = BytesFrom(Len(received), Len(current_read_packet.data))
      /\ Chained(reader_queue, Len(received) + Len(current_read_packet.data), mid)
  BY DEF PSInv, Types, Carried, PushedUpTo
<1>2. QED
  BY <1>1, UnreadBytes DEF Pushed, Unread

LEMMA NextPushedBytes ==
    ASSUME PSInv', NEW mid \in Nat, PushedUpTo(mid)'
    PROVE  Pushed' = mid
<1>1. /\ Len(received') \in Nat /\ current_read_packet' \in Packets /\ reader_queue' \in Seq(Packets)
      /\ current_read_packet'.data = BytesFrom(Len(received'), Len(current_read_packet'.data))
      /\ Chained(reader_queue', Len(received') + Len(current_read_packet'.data), mid)
  BY DEF PSInv, Types, Carried, PushedUpTo
<1>2. QED
  BY <1>1, UnreadBytes DEF Pushed, Unread

LEMMA InitRefines == Init => Bytes!Init
<1> SUFFICES ASSUME Init PROVE Bytes!Init
  OBVIOUS
<1>1. /\ current_write_packet = NULL /\ current_read_packet = NULL /\ written = 0
      /\ reader_queue = <<>> /\ left = 0 /\ result = "none" /\ received = <<>> /\ disconnected = FALSE
  BY DEF Init
<1>2. PSInv
  BY PSInit
<1>3. PICK mid \in Nat : PushedUpTo(mid)
  BY <1>2 DEF PSInv, Carried
<1>4. mid = 0
  BY <1>1, <1>2, <1>3, ReadBounds
<1>5. Pushed = 0
  BY <1>2, <1>3, <1>4, PushedBytes
<1>6. Flushed = FALSE
  BY <1>1, NullPacket DEF Flushed
<1>7. QED
  BY <1>1, <1>5, <1>6 DEF Bytes!Init, Pushed

\* Where a read step of the packet streams leads, one of the byte stream does.
LEMMA ReadRefines ==
    ASSUME NEW len, NEW mid, Pushed = mid, ReadsOn(len, mid), Pushed' = mid, Flushed' = Flushed,
           UNCHANGED <<written, disconnected>>
    PROVE  \E n \in 0 .. len : Bytes!Receive(n) /\ Bytes!Outcome(len - n)
<1>1. PICK n \in 0 .. len :
        /\ n \in 0 .. mid - Len(received)
        /\ received' = received \o BytesFrom(Len(received), n)
        /\ left' = len - n
        /\ \/ result' = "reading"
           \/ result' = "success" /\ left' = 0
           \/ /\ result' = "failure"
              /\ disconnected \/ (Flushed /\ Len(received') = written /\ left' > 0)
  BY DEF ReadsOn
<1>2. Bytes!Receive(n)
  BY <1>1 DEF Bytes!Receive, Bytes!BytesFrom, BytesFrom, Pushed
<1>3. Bytes!Outcome(len - n)
  <2>1. UNCHANGED <<written, Flushed, Pushed, disconnected>>
    OBVIOUS
  <2>2. \/ result' = "reading"
        \/ result' = "success" /\ len - n = 0
        \/ /\ result' = "failure"
           /\ disconnected \/ (Flushed /\ Len(received') = written /\ len - n > 0)
    BY <1>1
  <2>3. QED
    BY <1>1, <2>1, <2>2 DEF Bytes!Outcome, Pushed
<1>4. QED
  BY <1>2, <1>3

LEMMA StepRefines == PSInv /\ [Next]_vars => [Bytes!Next]_(Bytes!byteVars)
<1> SUFFICES ASSUME PSInv, [Next]_vars PROVE Bytes!Next \/ UNCHANGED Bytes!byteVars
  OBVIOUS
<1>1. PICK mid \in Nat : PushedUpTo(mid)
  BY DEF PSInv, Carried
<1>2. Pushed = mid
  BY <1>1, PushedBytes
<1>3. CASE StartWrite
  <2>1. PSInv' /\ PushedUpTo(mid)' /\ Flushed' = Flushed
    BY <1>1, <1>3, StartWriteStep
  <2>2. Pushed' = Pushed
    BY <1>2, <2>1, NextPushedBytes
  <2>3. UNCHANGED <<written, received, left, result, disconnected>>
    BY <1>3 DEF StartWrite, readVars
  <2>4. QED
    BY <2>1, <2>2, <2>3 DEF Bytes!byteVars, Pushed
<1>4. CASE WriteData
  <2>1. PSInv' /\ PushedUpTo(mid)' /\ ~Flushed /\ ~Flushed' /\ written' \in written .. MaxBytes
    BY <1>1, <1>4, WriteDataStep
  <2>2. Pushed' = Pushed /\ Flushed' = Flushed
    BY <1>2, <2>1, NextPushedBytes DEF Flushed
  <2>3. UNCHANGED <<received, left, result, disconnected>>
    BY <1>4 DEF WriteData, readVars
  <2>4. Bytes!Write
    BY <2>1, <2>2, <2>3 DEF Bytes!Write, Pushed
  <2>5. QED
    BY <2>4 DEF Bytes!Next
<1>5. CASE Flush
  <2>1. PSInv' /\ PushedUpTo(mid)' /\ ~Flushed /\ Flushed'
    BY <1>1, <1>5, FlushStep
  <2>2. Pushed' = Pushed /\ Flushed' = TRUE
    BY <1>2, <2>1, NextPushedBytes DEF Flushed
  <2>3. UNCHANGED <<written, received, left, result, disconnected>>
    BY <1>5 DEF Flush, readVars
  <2>4. Bytes!Flush
    BY <2>1, <2>2, <2>3 DEF Bytes!Flush, Pushed
  <2>5. QED
    BY <2>4 DEF Bytes!Next
<1>6. CASE PushPacket
  <2>1. PSInv' /\ Flushed' = Flushed
    BY <1>1, <1>6, PushStep
  <2>2. PICK x \in mid .. written : x \in Nat /\ PushedUpTo(x)'
    BY <1>1, <1>6, PushStep
  <2>3. Pushed' \in Pushed .. written
    BY <1>2, <2>1, <2>2, NextPushedBytes
  <2>4. UNCHANGED <<written, received, left, result, disconnected>> /\ ~disconnected
    BY <1>6 DEF PushPacket, readVars, writeVars
  <2>5. Bytes!Push
    BY <2>1, <2>3, <2>4 DEF Bytes!Push, Pushed
  <2>6. QED
    BY <2>5 DEF Bytes!Next
<1>7. CASE Disconnect
  <2>1. PSInv' /\ PushedUpTo(mid)' /\ Flushed' = Flushed
    BY <1>1, <1>7, DisconnectStep
  <2>2. Pushed' = Pushed
    BY <1>2, <2>1, NextPushedBytes
  <2>3. UNCHANGED <<written, received, left, result>> /\ disconnected' = TRUE
    BY <1>7 DEF Disconnect, readVars, writeVars
  <2>4. Bytes!Disconnect
    BY <2>1, <2>2, <2>3 DEF Bytes!Disconnect, Pushed
  <2>5. QED
    BY <2>4 DEF Bytes!Next
<1>8. CASE StartRead
  <2>1. PSInv' /\ PushedUpTo(mid)' /\ Flushed' = Flushed /\ UNCHANGED <<written, disconnected>>
        /\ result # "reading"
    BY <1>1, <1>8, StartReadStep
  <2>2. PICK len \in 0 .. MaxLen : ReadsOn(len, mid)
    BY <1>1, <1>8, StartReadStep
  <2>3. Pushed' = mid
    BY <2>1, NextPushedBytes
  <2>4. \E n \in 0 .. len : Bytes!Receive(n) /\ Bytes!Outcome(len - n)
    BY <1>2, <2>1, <2>2, <2>3, ReadRefines
  <2>5. Bytes!StartRead
    BY <2>1, <2>4 DEF Bytes!StartRead
  <2>6. QED
    BY <2>5 DEF Bytes!Next
<1>9. CASE GetPacket
  <2>1. PSInv' /\ PushedUpTo(mid)' /\ Flushed' = Flushed /\ UNCHANGED <<written, disconnected>>
        /\ result = "reading" /\ ReadsOn(left, mid)
    BY <1>1, <1>9, GetPacketStep
  <2>2. Pushed' = mid
    BY <2>1, NextPushedBytes
  <2>3. \E n \in 0 .. left : Bytes!Receive(n) /\ Bytes!Outcome(left - n)
    BY <1>2, <2>1, <2>2, ReadRefines
  <2>4. Bytes!GoOn
    BY <2>1, <2>3 DEF Bytes!GoOn
  <2>5. QED
    BY <2>4 DEF Bytes!Next
<1>10. CASE ReadTimeout
  <2>1. /\ PSInv' /\ PushedUpTo(mid)' /\ Flushed' = Flushed
        /\ UNCHANGED <<written, disconnected, received, left>>
        /\ result = "reading" /\ result' = "failure" /\ mid = Len(received)
    BY <1>1, <1>10, ReadTimeoutStep
  <2>2. Pushed' = Pushed
    BY <1>2, <2>1, NextPushedBytes
  <2>3. Bytes!TimeOut
    BY <1>2, <2>1, <2>2 DEF Bytes!TimeOut, Pushed
  <2>4. QED
    BY <2>3 DEF Bytes!Next
<1>11. CASE UNCHANGED vars
  <2>1. UNCHANGED <<current_write_packet, written, current_read_packet, left, result, received,
                    reader_queue, disconnected>>
    BY <1>11 DEF vars, writeVars, readVars
  <2>2. PSInv' /\ PushedUpTo(mid)'
    BY <1>1, <1>11, SameState
  <2>3. Pushed' = Pushed /\ Flushed' = Flushed
    BY <1>2, <2>1, <2>2, NextPushedBytes DEF Flushed
  <2>4. QED
    BY <2>1, <2>3 DEF Bytes!byteVars, Pushed
<1>12. QED
  BY <1>3, <1>4, <1>5, <1>6, <1>7, <1>8, <1>9, <1>10, <1>11 DEF Next

\* The packet streams implement a stream of bytes: mrpc_packet_stream_read gets
\* exactly the bytes that mrpc_packet_stream_write was given, in order, however
\* they were cut into packets; it fails only when the stream has been
\* disconnected, when it asks for more than the message has, or when it has
\* waited in vain.
THEOREM ByteStreamImplemented == Spec => ImplementsByteStream
BY InitRefines, Invariance, StepRefines, PTL DEF Spec, ImplementsByteStream, Bytes!Spec
=============================================================================
