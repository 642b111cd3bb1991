-------------------- MODULE ClientStreamProcessorProofs --------------------
(***************************************************************************)
(* Proofs about the client stream processor, for every number of streams,  *)
(* packets, callers, calls and connections.                                *)
(***************************************************************************)
EXTENDS ClientStreamProcessor, FiniteSetTheorems, SequenceTheorems, CommonFacts, TLAPS

\* The writer fiber holds a packet while it writes, and a caller that may
\* write has a write packet of a type that may still be extended or flushed
\* (the assertions of mrpc_packet_stream_write and ..._flush).
HoldersHold ==
    /\ writer = "write" => writing \in Packets
    /\ \A c \in Callers : caller[c].pc = "write" =>
         current_write_packet[caller[c].stream] \in {"START", "MIDDLE"}

BaseInv == TypeOK /\ StreamsHeldOnce /\ HoldersHold

-----------------------------------------------------------------------------
(***************************************************************************)
(* Facts about the data                                                    *)
(***************************************************************************)

LEMMA NullIsNoPacket == NULL \notin Packets
BY DEF NULL, Packets, PacketTypes

LEMMA RequestIdsFinite ==
    /\ IsFiniteSet(RequestIds)
    /\ Cardinality(RequestIds) = MaxStreams
    /\ 0 \in RequestIds
    /\ RequestIds \subseteq Nat
BY FS_Interval, ClientAssumption DEF RequestIds

LEMMA PacketType ==
    ASSUME NEW s \in RequestIds, NEW t \in PacketTypes, NEW n \in 0 .. MaxCalls
    PROVE  Packet(s, t, n) \in Packets
BY DEF Packet, Packets

LEMMA MessageType ==
    ASSUME NEW s \in RequestIds, NEW n \in 0 .. MaxCalls,
           NEW k \in 1 .. MaxResponsePackets
    PROVE  Message(s, n, k) \in Seq(Packets)
<1>1. \A i \in 1 .. k :
        Packet(s, IF k = 1 THEN "SINGLE"
                  ELSE IF i = 1 THEN "START"
                  ELSE IF i = k THEN "END" ELSE "MIDDLE", n) \in Packets
  BY PacketType DEF PacketTypes
<1>2. k \in Nat
  BY ClientAssumption
<1>3. QED
  BY <1>1, <1>2 DEF Message

LEMMA HeldPacketsType ==
    ASSUME TypeOK, NEW s \in RequestIds
    PROVE  HeldPackets(s) \in Nat
<1>1. Len(reader_queue[s]) \in Nat
  BY DEF TypeOK
<1>2. /\ (IF current_write_packet[s] = "none" THEN 0 ELSE 1) \in Nat
      /\ (IF current_read_packet[s] = NULL THEN 0 ELSE 1) \in Nat
  OBVIOUS
<1>3. ASSUME NEW a \in Nat, NEW b \in Nat, NEW n \in Nat
      PROVE  a + b + n \in Nat
  OBVIOUS
<1>4. QED
  BY <1>1, <1>2, <1>3, Zenon DEF HeldPackets

(***************************************************************************)
(* Who holds which stream                                                  *)
(***************************************************************************)

\* Steps in which no caller gets or gives up a stream.
LEMMA SameHolders ==
    ASSUME StreamsHeldOnce, UNCHANGED poolVars,
           \A d \in Callers : /\ HasStream(d)' <=> HasStream(d)
                              /\ HasStream(d) => caller'[d].stream = caller[d].stream
    PROVE  StreamsHeldOnce'
<1>1. UNCHANGED <<active_request_streams, active_request_streams_cnt>>
  BY DEF poolVars
<1>2. QED
  BY <1>1 DEF StreamsHeldOnce

\* A caller gets a stream nobody holds.
LEMMA NewHolder ==
    ASSUME BaseInv, NEW c \in Callers, NEW s \in RequestIds \ active_request_streams,
           ~HasStream(c),
           AcquireRequestStream(c, s),
           caller'[c].stream = s, HasStream(c)',
           \A d \in Callers \ {c} : caller'[d] = caller[d]
    PROVE  /\ StreamsHeldOnce'
           /\ active_request_streams' \subseteq RequestIds
           /\ active_request_streams_cnt' \in 0 .. MaxStreams
           /\ request_streams_stop_event' \in BOOLEAN
<1>1. /\ active_request_streams \subseteq RequestIds
      /\ IsFiniteSet(active_request_streams)
      /\ active_request_streams' = active_request_streams \cup {s}
      /\ active_request_streams_cnt' = active_request_streams_cnt + 1
      /\ active_request_streams_cnt = Cardinality(active_request_streams)
  BY FS_Subset, RequestIdsFinite DEF BaseInv, TypeOK, AcquireRequestStream, StreamsHeldOnce
<1>2. active_request_streams_cnt' = Cardinality(active_request_streams')
  BY <1>1, FS_AddElement
<1>3. active_request_streams' \subseteq RequestIds
  BY <1>1
<1>4. active_request_streams_cnt' \in 0 .. MaxStreams
  <2>1. /\ Cardinality(active_request_streams') <= Cardinality(RequestIds)
        /\ Cardinality(active_request_streams') \in Nat
    BY <1>3, FS_Subset, FS_CardinalityType, RequestIdsFinite
  <2>2. QED
    BY <2>1, <1>2, RequestIdsFinite, ClientAssumption
<1>5. \A d \in Callers \ {c} : HasStream(d)' <=> HasStream(d)
  BY DEF HasStream
<1>6. active_request_streams' = {caller'[e].stream : e \in {d \in Callers : HasStream(d)'}}
  BY <1>1, <1>5 DEF BaseInv, StreamsHeldOnce
<1>7. \A d, e \in Callers :
        HasStream(d)' /\ HasStream(e)' /\ caller'[d].stream = caller'[e].stream => d = e
  <2>1. \A d \in Callers \ {c} : HasStream(d) => caller[d].stream # s
    BY DEF BaseInv, StreamsHeldOnce
  <2>2. QED
    BY <2>1, <1>5 DEF BaseInv, StreamsHeldOnce
<1>8. request_streams_stop_event' \in BOOLEAN
  BY DEF AcquireRequestStream, BaseInv, TypeOK
<1>9. QED
  BY <1>2, <1>3, <1>4, <1>6, <1>7, <1>8 DEF StreamsHeldOnce

\* A caller gives up its stream: nobody else held it.
LEMMA HolderGone ==
    ASSUME BaseInv, NEW c \in Callers, HasStream(c), ReleaseRequestStream(c)
    PROVE  /\ StreamsHeldOnce'
           /\ active_request_streams' \subseteq RequestIds
           /\ active_request_streams_cnt' \in 0 .. MaxStreams
           /\ request_streams_stop_event' \in BOOLEAN
           /\ request_streams_stop_event' =
                (active_request_streams' = {} \/ request_streams_stop_event)
<1> DEFINE s == caller[c].stream
<1>1. /\ active_request_streams \subseteq RequestIds
      /\ IsFiniteSet(active_request_streams)
      /\ s \in active_request_streams
      /\ active_request_streams' = active_request_streams \ {s}
      /\ active_request_streams_cnt' = active_request_streams_cnt - 1
      /\ active_request_streams_cnt = Cardinality(active_request_streams)
      /\ active_request_streams_cnt \in Nat
  <2>1. active_request_streams \subseteq RequestIds /\ active_request_streams_cnt \in Nat
    BY ClientAssumption DEF BaseInv, TypeOK
  <2>2. IsFiniteSet(active_request_streams)
    BY <2>1, FS_Subset, RequestIdsFinite
  <2>3. s \in active_request_streams
    BY DEF BaseInv, StreamsHeldOnce
  <2>4. QED
    BY <2>1, <2>2, <2>3 DEF BaseInv, ReleaseRequestStream, StreamsHeldOnce
<1>2. active_request_streams_cnt' = Cardinality(active_request_streams')
  BY <1>1, FS_RemoveElement
<1>3. active_request_streams' \subseteq RequestIds
  BY <1>1
<1>4. active_request_streams_cnt' \in 0 .. MaxStreams
  <2>1. /\ Cardinality(active_request_streams') <= Cardinality(RequestIds)
        /\ Cardinality(active_request_streams') \in Nat
    BY <1>3, FS_Subset, FS_CardinalityType, RequestIdsFinite
  <2>2. QED
    BY <2>1, <1>2, RequestIdsFinite, ClientAssumption
<1>5. /\ ~HasStream(c)'
      /\ \A d \in Callers \ {c} : caller'[d] = caller[d]
  BY DEF ReleaseRequestStream, BaseInv, TypeOK, HasStream, IdleCaller
<1>6. \A d \in Callers \ {c} : HasStream(d)' <=> HasStream(d)
  BY <1>5 DEF HasStream
<1>7. active_request_streams' = {caller'[e].stream : e \in {d \in Callers : HasStream(d)'}}
  BY <1>1, <1>5, <1>6 DEF BaseInv, StreamsHeldOnce
<1>8. \A d, e \in Callers :
        HasStream(d)' /\ HasStream(e)' /\ caller'[d].stream = caller'[e].stream => d = e
  BY <1>5, <1>6 DEF BaseInv, StreamsHeldOnce
<1>9. /\ request_streams_stop_event' \in BOOLEAN
      /\ request_streams_stop_event' =
           (active_request_streams' = {} \/ request_streams_stop_event)
  <2>1. active_request_streams' = {} <=> active_request_streams_cnt - 1 = 0
    BY <1>1, <1>2, <1>3, FS_EmptySet, FS_Subset, RequestIdsFinite
  <2>2. QED
    BY <2>1 DEF ReleaseRequestStream, BaseInv, TypeOK
<1>10. QED
  BY <1>2, <1>3, <1>4, <1>7, <1>8, <1>9 DEF StreamsHeldOnce

-----------------------------------------------------------------------------
(***************************************************************************)
(* Every step preserves BaseInv: steps of the callers                      *)
(***************************************************************************)

LEMMA CreateRequestStreamStep ==
    ASSUME BaseInv, NEW c \in Callers, CreateRequestStream(c)
    PROVE  BaseInv'
<1> USE DEF poolVars, streamVars, readerVars, writerVars, peerVars, stateVars
<1>1. PICK k \in 1 .. MaxRequestPackets :
         \/ /\ active_request_streams = RequestIds
            /\ caller' = [caller EXCEPT ![c] =
                 [pc |-> "pool", stream |-> 0, call |-> calls + 1, left |-> k,
                  connection |-> connections]]
            /\ UNCHANGED poolVars
         \/ \E s \in RequestIds \ active_request_streams :
              /\ AcquireRequestStream(c, s)
              /\ caller' = [caller EXCEPT ![c] =
                   [pc |-> "write_first", stream |-> s, call |-> calls + 1,
                    left |-> k, connection |-> connections]]
  BY DEF CreateRequestStream
<1>2. /\ calls + 1 \in 0 .. MaxCalls
      /\ k \in 0 .. MaxRequestPackets
      /\ connections \in 0 .. MaxConnections
      /\ caller \in [Callers -> CallerRecords]
      /\ calls' = calls + 1
      /\ caller[c].pc = "idle"
  BY ClientAssumption DEF BaseInv, TypeOK, CreateRequestStream
<1>3. CASE /\ active_request_streams = RequestIds
           /\ caller' = [caller EXCEPT ![c] =
                [pc |-> "pool", stream |-> 0, call |-> calls + 1, left |-> k,
                 connection |-> connections]]
           /\ UNCHANGED poolVars
  <2>1. caller' \in [Callers -> CallerRecords]
    BY <1>2, <1>3, RequestIdsFinite DEF CallerRecords, CallerStates
  <2>2. TypeOK'
    BY <1>2, <1>3, <2>1 DEF BaseInv, TypeOK, CreateRequestStream
  <2>3. StreamsHeldOnce'
    BY <1>2, <1>3, SameHolders DEF BaseInv, HasStream
  <2>4. HoldersHold'
    BY <1>2, <1>3 DEF BaseInv, HoldersHold, CreateRequestStream
  <2>5. QED
    BY <2>2, <2>3, <2>4 DEF BaseInv
<1>4. ASSUME NEW s \in RequestIds \ active_request_streams,
             AcquireRequestStream(c, s),
             caller' = [caller EXCEPT ![c] =
               [pc |-> "write_first", stream |-> s, call |-> calls + 1,
                left |-> k, connection |-> connections]]
      PROVE  BaseInv'
  <2>1. caller' \in [Callers -> CallerRecords]
    BY <1>2, <1>4 DEF CallerRecords, CallerStates
  <2>2. /\ StreamsHeldOnce'
        /\ active_request_streams' \subseteq RequestIds
        /\ active_request_streams_cnt' \in 0 .. MaxStreams
        /\ request_streams_stop_event' \in BOOLEAN
    <3>1. /\ ~HasStream(c) /\ HasStream(c)'
          /\ caller'[c].stream = s
          /\ \A d \in Callers \ {c} : caller'[d] = caller[d]
      BY <1>2, <1>4 DEF HasStream
    <3>2. QED
      BY <1>4, <3>1, NewHolder
  <2>3. TypeOK'
    BY <1>2, <2>1, <2>2 DEF BaseInv, TypeOK, CreateRequestStream
  <2>4. HoldersHold'
    BY <1>2, <1>4 DEF BaseInv, HoldersHold, CreateRequestStream
  <2>5. QED
    BY <2>2, <2>3, <2>4 DEF BaseInv
<1>5. QED
  BY <1>1, <1>3, <1>4

LEMMA GetPooledStreamStep ==
    ASSUME BaseInv, NEW c \in Callers, GetPooledStream(c)
    PROVE  BaseInv'
<1> USE DEF poolVars, streamVars, readerVars, writerVars, peerVars, stateVars
<1>1. PICK s \in RequestIds \ active_request_streams :
        /\ AcquireRequestStream(c, s)
        /\ caller' = [caller EXCEPT ![c].pc = "write_first", ![c].stream = s]
  BY DEF GetPooledStream
<1>2. /\ caller \in [Callers -> CallerRecords]
      /\ caller[c].pc = "pool"
  BY DEF BaseInv, TypeOK, GetPooledStream
<1>3. caller' \in [Callers -> CallerRecords]
  BY <1>1, <1>2, ZenonT(30) DEF CallerRecords, CallerStates
<1>4. /\ StreamsHeldOnce'
      /\ active_request_streams' \subseteq RequestIds
      /\ active_request_streams_cnt' \in 0 .. MaxStreams
      /\ request_streams_stop_event' \in BOOLEAN
  <2>1. /\ ~HasStream(c) /\ HasStream(c)'
        /\ caller'[c].stream = s
        /\ \A d \in Callers \ {c} : caller'[d] = caller[d]
    BY <1>1, <1>2 DEF HasStream, CallerRecords
  <2>2. QED
    BY <1>1, <2>1, NewHolder
<1>5. TypeOK'
  BY <1>3, <1>4 DEF BaseInv, TypeOK, GetPooledStream
<1>6. HoldersHold'
  BY <1>1, <1>2 DEF BaseInv, HoldersHold, GetPooledStream, CallerRecords
<1>7. QED
  BY <1>4, <1>5, <1>6 DEF BaseInv

\* A caller keeps its stream and goes on at another place.
LEMMA CallerGoesTo ==
    ASSUME BaseInv, NEW c \in Callers, HasStream(c),
           NEW p \in CallerStates \ {"idle", "pool"}, NEW n \in 0 .. MaxRequestPackets,
           caller' = [caller EXCEPT ![c].pc = p, ![c].left = n],
           UNCHANGED poolVars
    PROVE  /\ caller' \in [Callers -> CallerRecords]
           /\ StreamsHeldOnce'
           /\ caller'[c].pc = p /\ caller'[c].stream = caller[c].stream
           /\ \A d \in Callers \ {c} : caller'[d] = caller[d]
           /\ \A d \in Callers \ {c} :
                HasStream(d) => caller[d].stream # caller[c].stream
<1>1. caller \in [Callers -> CallerRecords]
  BY DEF BaseInv, TypeOK
<1>2. caller' \in [Callers -> CallerRecords]
  BY <1>1 DEF CallerRecords
<1>3. /\ caller'[c].pc = p /\ caller'[c].stream = caller[c].stream
      /\ \A d \in Callers \ {c} : caller'[d] = caller[d]
  BY <1>1 DEF CallerRecords
<1>4. StreamsHeldOnce'
  BY <1>3, SameHolders DEF BaseInv, HasStream
<1>5. \A d \in Callers \ {c} : HasStream(d) => caller[d].stream # caller[c].stream
  BY DEF BaseInv, StreamsHeldOnce
<1>6. QED
  BY <1>2, <1>3, <1>4, <1>5

LEMMA GetWritePacketStep ==
    ASSUME BaseInv, NEW c \in Callers, GetWritePacket(c)
    PROVE  BaseInv'
<1> USE DEF poolVars, streamVars, readerVars, writerVars, peerVars, stateVars
<1>1. PICK type \in {"START", "MIDDLE", "END"} :
        /\ caller[c].pc \in {"write_first", "write_next", "flush_end"}
        /\ type = "END" <=> caller[c].pc = "flush_end"
        /\ free_packets > 0
        /\ free_packets' = free_packets - 1
        /\ current_write_packet' = [current_write_packet EXCEPT ![caller[c].stream] = type]
        /\ caller' = [caller EXCEPT ![c].pc = IF type = "END" THEN "read" ELSE "write"]
  BY DEF GetWritePacket
<1>2. UNCHANGED <<stateVars, poolVars, reader_queue, current_read_packet,
                  readerVars, writerVars, calls, peerVars, writer_queue, unflushed>>
  BY DEF GetWritePacket
<1>3. /\ caller \in [Callers -> CallerRecords] /\ HasStream(c)
      /\ caller[c].stream \in RequestIds
      /\ caller[c].left \in 0 .. MaxRequestPackets
  BY <1>1 DEF BaseInv, TypeOK, CallerRecords, HasStream
<1>4. PICK p \in {"read", "write"} :
        /\ p = "write" => type # "END"
        /\ caller' = [caller EXCEPT ![c].pc = p, ![c].left = caller[c].left]
  BY <1>1, <1>3 DEF CallerRecords
<1>5. /\ caller' \in [Callers -> CallerRecords]
      /\ StreamsHeldOnce'
      /\ caller'[c].pc = p /\ caller'[c].stream = caller[c].stream
      /\ \A d \in Callers \ {c} : caller'[d] = caller[d]
      /\ \A d \in Callers \ {c} :
           HasStream(d) => caller[d].stream # caller[c].stream
  BY <1>2, <1>3, <1>4, CallerGoesTo DEF CallerStates
<1>6. /\ free_packets' \in Nat
      /\ current_write_packet' \in [RequestIds -> {"none", "START", "MIDDLE", "END"}]
      /\ current_write_packet'[caller[c].stream] = type
      /\ \A s \in RequestIds \ {caller[c].stream} :
           current_write_packet'[s] = current_write_packet[s]
  <2>1. free_packets \in Nat
        /\ current_write_packet \in [RequestIds -> {"none", "START", "MIDDLE", "END"}]
    BY DEF BaseInv, TypeOK
  <2>2. free_packets' \in Nat
    BY <1>1, <2>1
  <2>3. QED
    BY <1>1, <1>3, <2>1, <2>2
<1>7. TypeOK'
  BY <1>2, <1>5, <1>6 DEF BaseInv, TypeOK
<1>8. HoldersHold'
  <2>1. \A d \in Callers : caller[d].stream \in RequestIds
    BY <1>3 DEF CallerRecords
  <2>2. ASSUME NEW d \in Callers, caller'[d].pc = "write"
        PROVE  current_write_packet'[caller'[d].stream] \in {"START", "MIDDLE"}
    <3>1. CASE d = c
      BY <1>4, <1>5, <1>6, <2>2, <3>1
    <3>2. CASE d # c
      BY <1>5, <1>6, <2>1, <2>2, <3>2 DEF BaseInv, HoldersHold, HasStream
    <3>3. QED
      BY <3>1, <3>2
  <2>3. QED
    BY <1>2, <2>2 DEF BaseInv, HoldersHold
<1>9. QED
  BY <1>5, <1>7, <1>8 DEF BaseInv

\* mrpc_packet_stream_write and mrpc_packet_stream_flush, which put a packet
\* into the writer queue and acquire the next one.
LEMMA QueueWritePacketStep ==
    ASSUME BaseInv, NEW c \in Callers, caller[c].pc = "write", caller[c].left >= 1,
           NEW t \in PacketTypes, NEW u \in {"MIDDLE", "END"},
           NEW w \in {"write_next", "flush_end"}, NEW next \in {"write", "read"},
           next = "write" => u = "MIDDLE",
           QueueWritePacket(c, t, u, w, next)
    PROVE  BaseInv'
<1> USE DEF poolVars, streamVars, readerVars, writerVars, peerVars, stateVars
<1> DEFINE s == caller[c].stream
<1>1. UNCHANGED <<stateVars, poolVars, reader_queue, current_read_packet,
                  readerVars, writerVars, calls, peerVars, unflushed>>
  BY DEF QueueWritePacket
<1>2. /\ caller \in [Callers -> CallerRecords] /\ HasStream(c)
      /\ s \in RequestIds /\ caller[c].call \in 0 .. MaxCalls
      /\ caller[c].left \in 0 .. MaxRequestPackets
      /\ caller[c].left - 1 \in 0 .. MaxRequestPackets
  <2>1. /\ caller \in [Callers -> CallerRecords] /\ HasStream(c)
        /\ s \in RequestIds /\ caller[c].call \in 0 .. MaxCalls
        /\ caller[c].left \in 0 .. MaxRequestPackets
    BY DEF BaseInv, TypeOK, CallerRecords, HasStream
  <2>2. caller[c].left - 1 \in 0 .. MaxRequestPackets
    BY <2>1, ClientAssumption
  <2>3. QED
    BY <2>1, <2>2
<1>3. /\ free_packets \in Nat
      /\ current_write_packet \in [RequestIds -> {"none", "START", "MIDDLE", "END"}]
      /\ writer_queue \in Seq(Packets \cup {NULL})
  BY DEF BaseInv, TypeOK
<1>4. writer_queue' \in Seq(Packets \cup {NULL})
  <2>1. Packet(s, t, caller[c].call) \in Packets
    BY <1>2, PacketType
  <2>2. writer_queue' = Append(writer_queue, Packet(s, t, caller[c].call))
    BY DEF QueueWritePacket
  <2>3. QED
    BY <1>3, <2>1, <2>2
<1>5. PICK p \in {"write_next", "flush_end", "write", "read"},
           v \in {"none", "MIDDLE", "END"} :
        /\ free_packets' \in Nat
        /\ p = "write" => v = "MIDDLE"
        /\ current_write_packet' = [current_write_packet EXCEPT ![s] = v]
        /\ caller' = [caller EXCEPT ![c].pc = p, ![c].left = caller[c].left - 1]
  <2>1. CASE free_packets > 0
    <3>1. /\ free_packets' = free_packets - 1
          /\ current_write_packet' = [current_write_packet EXCEPT ![s] = u]
          /\ caller' = [caller EXCEPT ![c].pc = next, ![c].left = caller[c].left - 1]
      BY <1>2, <2>1 DEF QueueWritePacket, CallerRecords
    <3>2. free_packets' \in Nat
      BY <1>3, <2>1, <3>1
    <3>3. QED
      BY <3>1, <3>2
  <2>2. CASE ~(free_packets > 0)
    <3>1. /\ free_packets' = free_packets
          /\ current_write_packet' = [current_write_packet EXCEPT ![s] = "none"]
          /\ caller' = [caller EXCEPT ![c].pc = w, ![c].left = caller[c].left - 1]
      BY <1>2, <2>2 DEF QueueWritePacket, CallerRecords
    <3>2. QED
      BY <1>3, <3>1
  <2>3. QED
    BY <2>1, <2>2
<1>6. /\ current_write_packet' \in [RequestIds -> {"none", "START", "MIDDLE", "END"}]
      /\ current_write_packet'[s] = v
      /\ \A r \in RequestIds \ {s} : current_write_packet'[r] = current_write_packet[r]
  BY <1>2, <1>3, <1>5
<1>7. /\ caller' \in [Callers -> CallerRecords]
      /\ StreamsHeldOnce'
      /\ caller'[c].pc = p /\ caller'[c].stream = s
      /\ \A d \in Callers \ {c} : caller'[d] = caller[d]
      /\ \A d \in Callers \ {c} : HasStream(d) => caller[d].stream # s
  BY <1>1, <1>2, <1>5, CallerGoesTo DEF CallerStates
<1>8. TypeOK'
  BY <1>1, <1>4, <1>5, <1>6, <1>7 DEF BaseInv, TypeOK
<1>9. HoldersHold'
  <2>1. \A d \in Callers : caller[d].stream \in RequestIds
    BY <1>2 DEF CallerRecords
  <2>2. ASSUME NEW d \in Callers, caller'[d].pc = "write"
        PROVE  current_write_packet'[caller'[d].stream] \in {"START", "MIDDLE"}
    <3>1. CASE d = c
      BY <1>5, <1>6, <1>7, <2>2, <3>1
    <3>2. CASE d # c
      BY <1>6, <1>7, <2>1, <2>2, <3>2 DEF BaseInv, HoldersHold, HasStream
    <3>3. QED
      BY <3>1, <3>2
  <2>3. QED
    BY <1>1, <2>2 DEF BaseInv, HoldersHold
<1>10. QED
  BY <1>7, <1>8, <1>9 DEF BaseInv

LEMMA WritePacketStep ==
    ASSUME BaseInv, NEW c \in Callers, WritePacket(c)
    PROVE  BaseInv'
<1>1. /\ current_write_packet[caller[c].stream] \in PacketTypes
      /\ caller[c].left >= 1
  <2>1. caller[c].left \in Nat
    BY ClientAssumption DEF BaseInv, TypeOK, CallerRecords
  <2>2. QED
    BY <2>1 DEF WritePacket, BaseInv, HoldersHold, PacketTypes
<1>2. QED
  BY <1>1, QueueWritePacketStep DEF WritePacket

LEMMA FlushStep ==
    ASSUME BaseInv, NEW c \in Callers, Flush(c)
    PROVE  BaseInv'
BY QueueWritePacketStep DEF Flush, PacketTypes

LEMMA ReadPacketStep ==
    ASSUME BaseInv, NEW c \in Callers, ReadPacket(c)
    PROVE  BaseInv'
<1> USE DEF poolVars, readerVars, writerVars, callerVars, peerVars, stateVars
<1> DEFINE s == caller[c].stream
<1>1. /\ s \in RequestIds
      /\ reader_queue \in [RequestIds -> Seq(Packets)]
      /\ current_read_packet \in [RequestIds -> Packets \cup {NULL}]
      /\ free_packets \in Nat
  BY DEF BaseInv, TypeOK, CallerRecords
<1>2. /\ reader_queue[s] # <<>>
      /\ reader_queue' = [reader_queue EXCEPT ![s] = Tail(@)]
      /\ current_read_packet' = [current_read_packet EXCEPT ![s] = NextPacket(c)]
      /\ free_packets' \in {free_packets, free_packets + 1}
  BY DEF ReadPacket, CanRead
<1>3. NextPacket(c) \in Packets /\ Tail(reader_queue[s]) \in Seq(Packets)
  BY <1>1, <1>2 DEF NextPacket
<1>4. /\ reader_queue' \in [RequestIds -> Seq(Packets)]
      /\ current_read_packet' \in [RequestIds -> Packets \cup {NULL}]
      /\ free_packets' \in Nat
  BY <1>1, <1>2, <1>3
<1>5. TypeOK'
  BY <1>4 DEF BaseInv, TypeOK, ReadPacket
<1>6. StreamsHeldOnce' /\ HoldersHold'
  BY DEF BaseInv, StreamsHeldOnce, HasStream, HoldersHold, ReadPacket
<1>7. QED
  BY <1>5, <1>6 DEF BaseInv

\* the end of a call, however it ends
LEMMA ReleaseRequestStreamStep ==
    ASSUME BaseInv, NEW c \in Callers, caller[c].pc \in {"read", "write"},
           ReleaseRequestStream(c), state' \in States,
           link' \in {"none", "up", "down", "closed"},
           UNCHANGED <<readerVars, writerVars, calls, peerVars, writer_queue, unflushed>>
    PROVE  BaseInv'
<1> USE DEF readerVars, writerVars, peerVars
<1> DEFINE s == caller[c].stream
<1>1. /\ s \in RequestIds /\ HasStream(c)
      /\ reader_queue \in [RequestIds -> Seq(Packets)]
      /\ current_read_packet \in [RequestIds -> Packets \cup {NULL}]
      /\ current_write_packet \in [RequestIds -> {"none", "START", "MIDDLE", "END"}]
      /\ caller \in [Callers -> CallerRecords]
      /\ free_packets \in Nat
  BY DEF BaseInv, TypeOK, CallerRecords, HasStream
<1>2. /\ StreamsHeldOnce'
      /\ active_request_streams' \subseteq RequestIds
      /\ active_request_streams_cnt' \in 0 .. MaxStreams
      /\ request_streams_stop_event' \in BOOLEAN
  BY <1>1, HolderGone
<1>3. free_packets' \in Nat
  <2>1. HeldPackets(s) \in Nat
    BY <1>1, HeldPacketsType DEF BaseInv
  <2>2. free_packets' = free_packets + HeldPackets(s)
    BY DEF ReleaseRequestStream, ShutdownStream
  <2>3. QED
    BY <1>1, <2>1, <2>2
<1>4. /\ reader_queue' \in [RequestIds -> Seq(Packets)]
      /\ current_read_packet' \in [RequestIds -> Packets \cup {NULL}]
      /\ current_write_packet' \in [RequestIds -> {"none", "START", "MIDDLE", "END"}]
      /\ \A r \in RequestIds \ {s} : current_write_packet'[r] = current_write_packet[r]
  BY <1>1 DEF ReleaseRequestStream, ShutdownStream
<1>5. /\ caller' \in [Callers -> CallerRecords]
      /\ caller'[c].pc = "idle"
      /\ \A d \in Callers \ {c} : caller'[d] = caller[d]
  <2>1. IdleCaller \in CallerRecords /\ IdleCaller.pc = "idle"
    BY RequestIdsFinite, ClientAssumption DEF IdleCaller, CallerRecords, CallerStates
  <2>2. QED
    BY <1>1, <2>1 DEF ReleaseRequestStream
<1>6. TypeOK'
  BY <1>2, <1>3, <1>4, <1>5 DEF BaseInv, TypeOK
<1>7. HoldersHold'
  <2>1. \A d \in Callers \ {c} : HasStream(d) => caller[d].stream \in RequestIds \ {s}
    BY <1>1 DEF BaseInv, StreamsHeldOnce, CallerRecords
  <2>2. QED
    BY <1>4, <1>5, <2>1 DEF BaseInv, HoldersHold, HasStream
<1>8. QED
  BY <1>2, <1>6, <1>7 DEF BaseInv

\* what stop_async does to the state, wherever it is called
LEMMA StopAsyncTypes ==
    ASSUME TypeOK, StopAsync
    PROVE  /\ state' \in States
           /\ link' \in {"none", "up", "down", "closed"}
BY DEF TypeOK, StopAsync, States

LEMMA CallEndsStep ==
    ASSUME BaseInv, NEW c \in Callers,
           CallSucceeds(c) \/ CallFails(c) \/ ReadTimeout(c)
    PROVE  BaseInv'
<1>1. /\ caller[c].pc \in {"read", "write"}
      /\ ReleaseRequestStream(c)
      /\ UNCHANGED <<readerVars, writerVars, calls, peerVars, writer_queue, unflushed>>
  BY DEF CallSucceeds, CallFails, ReadTimeout, CanRead
<1>2. state' \in States /\ link' \in {"none", "up", "down", "closed"}
  <2>1. CASE CallSucceeds(c)
    BY <2>1 DEF CallSucceeds, stateVars, BaseInv, TypeOK
  <2>2. CASE CallFails(c) \/ ReadTimeout(c)
    BY <2>2, StopAsyncTypes DEF CallFails, ReadTimeout, BaseInv
  <2>3. QED
    BY <2>1, <2>2
<1>3. QED
  BY <1>1, <1>2, ReleaseRequestStreamStep

-----------------------------------------------------------------------------
(***************************************************************************)
(* Steps of the reader fiber                                               *)
(***************************************************************************)

\* Steps that leave the callers and their streams' write packets alone.
LEMMA CallersAlone ==
    ASSUME BaseInv, TypeOK', UNCHANGED <<caller, current_write_packet>>,
           UNCHANGED <<active_request_streams, active_request_streams_cnt>>,
           writer' = "write" => writing' \in Packets
    PROVE  BaseInv'
BY DEF BaseInv, StreamsHeldOnce, HasStream, HoldersHold

LEMMA ProcessStreamStep ==
    ASSUME BaseInv, ProcessStream
    PROVE  BaseInv'
<1> USE DEF streamVars, callerVars
<1>1. TypeOK'
  <2>1. connections' \in 0 .. MaxConnections
    BY ClientAssumption DEF BaseInv, TypeOK, ProcessStream
  <2>2. /\ unflushed' \in Seq(Packets) /\ outbound' \in Seq(Packets)
        /\ inbound' \in Seq(Packets) /\ responses' \in [RequestIds -> Seq(Packets)]
    BY DEF ProcessStream
  <2>3. QED
    BY <2>1, <2>2 DEF BaseInv, TypeOK, ProcessStream, States, ReaderStates, WriterStates
<1>2. writer' = "write" => writing' \in Packets
  BY DEF BaseInv, HoldersHold, ProcessStream
<1>3. QED
  BY <1>1, <1>2, CallersAlone DEF ProcessStream

LEMMA ReaderAcquirePacketStep ==
    ASSUME BaseInv, ReaderAcquirePacket
    PROVE  BaseInv'
<1> USE DEF poolVars, streamVars, readerVars, writerVars, callerVars, peerVars, stateVars
<1>1. free_packets' \in Nat
  BY DEF BaseInv, TypeOK, ReaderAcquirePacket
<1>2. TypeOK'
  BY <1>1 DEF BaseInv, TypeOK, ReaderAcquirePacket, ReaderStates
<1>3. QED
  BY <1>2, CallersAlone DEF ReaderAcquirePacket, BaseInv, HoldersHold

LEMMA ReaderReadPacketStep ==
    ASSUME BaseInv, ReaderReadPacket
    PROVE  BaseInv'
<1> USE DEF poolVars, streamVars, readerVars, writerVars, callerVars, peerVars, stateVars
<1> DEFINE p == Head(inbound)
<1>1. /\ inbound # <<>> /\ inbound \in Seq(Packets) /\ free_packets \in Nat
      /\ reader_queue \in [RequestIds -> Seq(Packets)]
  BY DEF ReaderReadPacket, BaseInv, TypeOK
<1>2. /\ p \in Packets /\ p.id \in RequestIds
      /\ Tail(inbound) \in Seq(Packets)
  <2>1. p \in Packets /\ Tail(inbound) \in Seq(Packets)
    BY <1>1
  <2>2. \A q \in Packets : q.id \in RequestIds
    BY DEF Packets
  <2>3. QED
    BY <2>1, <2>2
<1>3. /\ reader_queue' \in [RequestIds -> Seq(Packets)]
      /\ free_packets' \in Nat
      /\ inbound' \in Seq(Packets)
      /\ reader' \in ReaderStates
  <2>1. CASE p.id \in active_request_streams
    <3>1. /\ reader_queue' = [reader_queue EXCEPT ![p.id] = Append(@, p)]
          /\ free_packets' = free_packets
          /\ inbound' = Tail(inbound)
          /\ reader' = "acquire"
      BY <2>1 DEF ReaderReadPacket
    <3> HIDE DEF p
    <3>2. Append(reader_queue[p.id], p) \in Seq(Packets)
      BY <1>1, <1>2
    <3>3. QED
      BY <1>1, <1>2, <3>1, <3>2 DEF ReaderStates
  <2>2. CASE p.id \notin active_request_streams
    BY <1>1, <1>2, <2>2 DEF ReaderReadPacket, ReaderStates
  <2>3. QED
    BY <2>1, <2>2
<1>4. state' \in States /\ link' \in {"none", "up", "down", "closed"}
  <2>1. CASE StopAsync
    BY <2>1, StopAsyncTypes DEF BaseInv
  <2>2. CASE UNCHANGED stateVars
    BY <2>2 DEF BaseInv, TypeOK
  <2>3. QED
    BY <2>1, <2>2 DEF ReaderReadPacket
<1>5. TypeOK'
  BY <1>3, <1>4 DEF BaseInv, TypeOK, ReaderReadPacket
<1>6. QED
  BY <1>5, CallersAlone DEF ReaderReadPacket, BaseInv, HoldersHold

LEMMA ReaderFailsStep ==
    ASSUME BaseInv, ReaderFails
    PROVE  BaseInv'
<1> USE DEF poolVars, streamVars, readerVars, writerVars, callerVars, peerVars
<1>1. /\ free_packets' \in Nat
      /\ state' \in States /\ link' \in {"none", "up", "down", "closed"}
  BY StopAsyncTypes DEF BaseInv, TypeOK, ReaderFails
<1>2. TypeOK'
  BY <1>1 DEF BaseInv, TypeOK, ReaderFails, ReaderStates
<1>3. QED
  BY <1>2, CallersAlone DEF ReaderFails, BaseInv, HoldersHold

\* The disconnect loop: it takes no more packets than there are, and the
\* stream it goes on to wait for is a stream.
LEMMA DisconnectFromTypes ==
    ASSUME BaseInv, NEW first \in Nat, NEW captured \in SUBSET RequestIds,
           Cardinality(captured) \in 0 .. free_packets,
           DisconnectFrom(first, captured)
    PROVE  /\ free_packets' \in Nat
           /\ reader_queue' \in [RequestIds -> Seq(Packets)]
           /\ reader' \in {"wait_streams", "stop_writer", "disconnect"}
           /\ disconnecting' \in RequestIds
<1> DEFINE todo == ActiveFrom(first)
           room == free_packets - Cardinality(captured)
<1>1. PICK served \in SUBSET todo :
          /\ \/ served = todo /\ Cardinality(served) <= room
             \/ served # todo /\ Cardinality(served) = room
          /\ free_packets' = room - Cardinality(served)
          /\ reader_queue' = [s \in RequestIds |->
               IF s \in served \cup captured
                 THEN Append(reader_queue[s], Packet(s, "END", 0))
                 ELSE reader_queue[s]]
          /\ IF served = todo
               THEN /\ reader' \in {"wait_streams", "stop_writer"}
                    /\ UNCHANGED disconnecting
               ELSE reader' = "disconnect" /\ disconnecting' = Min(todo \ served)
  BY DEF DisconnectFrom, ActiveFrom
<1>2. /\ todo \subseteq RequestIds /\ free_packets \in Nat
      /\ reader_queue \in [RequestIds -> Seq(Packets)]
      /\ disconnecting \in RequestIds
  BY DEF BaseInv, TypeOK, ActiveFrom
<1>3. Cardinality(served) \in Nat
  BY <1>2, FS_Subset, FS_CardinalityType, RequestIdsFinite
<1>4. free_packets' \in Nat
  <2> HIDE DEF todo
  <2>1. room \in Int /\ Cardinality(served) <= room
    BY <1>1, <1>2, <1>3
  <2>2. QED
    BY <1>1, <1>3, <2>1
<1>5. reader_queue' \in [RequestIds -> Seq(Packets)]
  <2>1. \A s \in RequestIds : Packet(s, "END", 0) \in Packets
    BY PacketType, ClientAssumption DEF PacketTypes
  <2>2. \A s \in RequestIds : /\ reader_queue[s] \in Seq(Packets)
                              /\ Append(reader_queue[s], Packet(s, "END", 0)) \in Seq(Packets)
    BY <1>2, <2>1
  <2> HIDE DEF todo
  <2>3. QED
    BY <1>1, <2>2
<1>6. disconnecting' \in RequestIds
  <2>1. CASE served = todo
    BY <1>1, <1>2, <2>1
  <2>2. CASE served # todo
    <3>1. todo \ served # {} /\ todo \ served \in SUBSET Nat
      BY <1>2, <2>2, RequestIdsFinite
    <3>2. \E i \in todo \ served : \A j \in todo \ served : i <= j
      BY <3>1, LeastElement
    <3>3. Min(todo \ served) \in todo \ served
      BY <3>2 DEF Min
    <3>4. QED
      BY <1>1, <1>2, <2>2, <3>3
  <2>3. QED
    BY <2>1, <2>2
<1>7. QED
  BY <1>1, <1>4, <1>5, <1>6

LEMMA StopAllRequestStreamsStep ==
    ASSUME BaseInv, StopAllRequestStreams
    PROVE  BaseInv'
<1> USE DEF poolVars, streamVars, readerVars, writerVars, callerVars, peerVars, stateVars
<1>1. /\ free_packets' \in Nat
      /\ reader_queue' \in [RequestIds -> Seq(Packets)]
      /\ reader' \in {"wait_streams", "stop_writer", "disconnect"}
      /\ disconnecting' \in RequestIds
  <2>0. free_packets \in Nat /\ disconnecting \in RequestIds
    BY DEF BaseInv, TypeOK
  <2>1. CASE DisconnectFrom(0, {})
    <3>1. Cardinality({}) \in 0 .. free_packets
      BY <2>0, FS_EmptySet
    <3>2. QED
      BY <2>1, <3>1, DisconnectFromTypes
  <2>2. CASE free_packets > 0 /\ DisconnectFrom(disconnecting + 1, {disconnecting})
    <3>1. Cardinality({disconnecting}) \in 0 .. free_packets
      <4>1. Cardinality({disconnecting}) = 1
        BY FS_Singleton
      <4>2. QED
        BY <2>0, <2>2, <4>1
    <3>2. disconnecting + 1 \in Nat /\ {disconnecting} \in SUBSET RequestIds
      BY <2>0, RequestIdsFinite
    <3>3. QED
      BY <2>2, <3>1, <3>2, DisconnectFromTypes
  <2>3. QED
    BY <2>1, <2>2 DEF StopAllRequestStreams
<1>2. TypeOK'
  BY <1>1 DEF BaseInv, TypeOK, StopAllRequestStreams, ReaderStates
<1>3. QED
  BY <1>2, CallersAlone DEF StopAllRequestStreams, BaseInv, HoldersHold

LEMMA StopStreamWriterStep ==
    ASSUME BaseInv, StopStreamWriter
    PROVE  BaseInv'
<1> USE DEF poolVars, streamVars, readerVars, writerVars, callerVars, peerVars, stateVars
<1>1. writer_queue' \in Seq(Packets \cup {NULL})
  <2>1. writer_queue \in Seq(Packets \cup {NULL}) /\ NULL \in Packets \cup {NULL}
    BY DEF BaseInv, TypeOK
  <2>2. writer_queue' = Append(writer_queue, NULL)
    BY DEF StopStreamWriter
  <2>3. QED
    BY <2>1, <2>2
<1>2. TypeOK'
  BY <1>1 DEF BaseInv, TypeOK, StopStreamWriter, ReaderStates
<1>3. QED
  BY <1>2, CallersAlone DEF StopStreamWriter, BaseInv, HoldersHold

LEMMA ProcessStreamReturnsStep ==
    ASSUME BaseInv, ProcessStreamReturns
    PROVE  BaseInv'
<1> USE DEF poolVars, streamVars, readerVars, writerVars, callerVars, peerVars, stateVars
<1>1. TypeOK'
  BY DEF BaseInv, TypeOK, ProcessStreamReturns, ReaderStates, States
<1>2. QED
  BY <1>1, CallersAlone DEF ProcessStreamReturns, BaseInv, HoldersHold

-----------------------------------------------------------------------------
(***************************************************************************)
(* Steps of the writer fiber                                               *)
(***************************************************************************)

\* what the writer fiber gets from its queue
LEMMA WriterQueueTypes ==
    ASSUME TypeOK, writer_queue # <<>>
    PROVE  /\ Head(writer_queue) \in Packets \cup {NULL}
           /\ Tail(writer_queue) \in Seq(Packets \cup {NULL})
<1>1. writer_queue \in Seq(Packets \cup {NULL})
  BY DEF TypeOK
<1>2. QED
  BY <1>1

LEMMA WriterGetPacketStep ==
    ASSUME BaseInv, WriterGetPacket
    PROVE  BaseInv'
<1> USE DEF poolVars, streamVars, readerVars, callerVars, peerVars, stateVars
<1>1. /\ writer_queue' \in Seq(Packets \cup {NULL})
      /\ writing' \in Packets \cup {NULL}
      /\ writer' \in {"none", "write"} /\ writer_stop_event' \in BOOLEAN
      /\ writer' = "write" => writing' \in Packets
  BY WriterQueueTypes DEF WriterGetPacket, BaseInv, TypeOK
<1>2. TypeOK'
  BY <1>1 DEF BaseInv, TypeOK, WriterGetPacket, WriterStates
<1>3. QED
  BY <1>1, <1>2, CallersAlone DEF WriterGetPacket

LEMMA WriterWritePacketStep ==
    ASSUME BaseInv, WriterWritePacket
    PROVE  BaseInv'
<1> USE DEF poolVars, streamVars, readerVars, callerVars, peerVars
<1>1. /\ free_packets' \in Nat /\ writing' \in Packets \cup {NULL}
      /\ writer' \in {"flush", "get", "skip"}
  <2>1. free_packets \in Nat
    BY DEF BaseInv, TypeOK
  <2>2. QED
    BY <2>1 DEF WriterWritePacket, AfterWrite
<1>2. /\ unflushed' \in Seq(Packets)
      /\ state' \in States /\ link' \in {"none", "up", "down", "closed"}
  <2>0. unflushed \in Seq(Packets) /\ writing \in Packets
    BY DEF BaseInv, TypeOK, HoldersHold, WriterWritePacket
  <2>1. CASE unflushed' = Append(unflushed, writing) /\ UNCHANGED stateVars
    <3>1. unflushed' \in Seq(Packets)
      BY <2>0, <2>1
    <3>2. QED
      BY <2>1, <3>1 DEF stateVars, BaseInv, TypeOK
  <2>2. CASE StopAsync /\ UNCHANGED unflushed
    BY <2>0, <2>2, StopAsyncTypes DEF BaseInv
  <2>3. QED
    BY <2>1, <2>2 DEF WriterWritePacket
<1>3. TypeOK'
  BY <1>1, <1>2 DEF BaseInv, TypeOK, WriterWritePacket, WriterStates
<1>4. QED
  BY <1>1, <1>3, CallersAlone DEF WriterWritePacket

LEMMA WriterFlushStep ==
    ASSUME BaseInv, WriterFlush
    PROVE  BaseInv'
<1> USE DEF poolVars, streamVars, readerVars, callerVars
<1>1. /\ unflushed' \in Seq(Packets) /\ outbound' \in Seq(Packets)
      /\ state' \in States /\ link' \in {"none", "up", "down", "closed"}
      /\ writer' \in {"get", "skip"}
  <2>0. unflushed \in Seq(Packets) /\ outbound \in Seq(Packets)
    BY DEF BaseInv, TypeOK
  <2>1. CASE /\ outbound' = IF link = "up" THEN outbound \o unflushed ELSE outbound
             /\ unflushed' = <<>>
             /\ writer' = "get"
             /\ UNCHANGED stateVars
    <3>1. outbound \o unflushed \in Seq(Packets) /\ <<>> \in Seq(Packets)
      BY <2>0
    <3>2. QED
      BY <2>0, <2>1, <3>1 DEF stateVars, BaseInv, TypeOK
  <2>2. CASE writer' = "skip" /\ StopAsync /\ UNCHANGED <<outbound, unflushed>>
    BY <2>0, <2>2, StopAsyncTypes DEF BaseInv
  <2>3. QED
    BY <2>1, <2>2 DEF WriterFlush
<1>2. TypeOK'
  BY <1>1 DEF BaseInv, TypeOK, WriterFlush, WriterStates
<1>3. QED
  BY <1>1, <1>2, CallersAlone DEF WriterFlush

LEMMA WriterSkipPacketStep ==
    ASSUME BaseInv, WriterSkipPacket
    PROVE  BaseInv'
<1> USE DEF poolVars, streamVars, readerVars, callerVars, peerVars, stateVars
<1>1. /\ writer_queue' \in Seq(Packets \cup {NULL})
      /\ writer' \in {"none", "skip"} /\ writer_stop_event' \in BOOLEAN
      /\ free_packets' \in {free_packets, free_packets + 1}
  BY WriterQueueTypes DEF WriterSkipPacket, BaseInv, TypeOK
<1>2. free_packets' \in Nat
  <2>1. free_packets \in Nat
    BY DEF BaseInv, TypeOK
  <2>2. QED
    BY <1>1, <2>1
<1>3. TypeOK'
  BY <1>1, <1>2 DEF BaseInv, TypeOK, WriterSkipPacket, WriterStates
<1>4. QED
  BY <1>1, <1>3, CallersAlone DEF WriterSkipPacket

-----------------------------------------------------------------------------
(***************************************************************************)
(* Steps of the connection and of the server                               *)
(***************************************************************************)

LEMMA LinkBreaksStep ==
    ASSUME BaseInv, LinkBreaks
    PROVE  BaseInv'
<1> USE DEF poolVars, streamVars, readerVars, writerVars, callerVars, peerVars
<1>1. TypeOK'
  BY DEF BaseInv, TypeOK, LinkBreaks
<1>2. QED
  BY <1>1, CallersAlone DEF LinkBreaks, BaseInv, HoldersHold

LEMMA StopRequestedStep ==
    ASSUME BaseInv, StopRequested
    PROVE  BaseInv'
<1> USE DEF poolVars, streamVars, readerVars, writerVars, callerVars, peerVars
<1>1. TypeOK'
  BY StopAsyncTypes DEF BaseInv, TypeOK, StopRequested
<1>2. QED
  BY <1>1, CallersAlone DEF StopRequested, BaseInv, HoldersHold

LEMMA ServerStepStep ==
    ASSUME BaseInv, ServerStep
    PROVE  BaseInv'
<1> USE DEF poolVars, streamVars, readerVars, writerVars, callerVars, stateVars
<1>0. /\ outbound \in Seq(Packets) /\ inbound \in Seq(Packets)
      /\ responses \in [RequestIds -> Seq(Packets)]
  BY DEF BaseInv, TypeOK
<1>1. /\ outbound' \in Seq(Packets) /\ inbound' \in Seq(Packets)
      /\ responses' \in [RequestIds -> Seq(Packets)]
      /\ garbage' \in 0 .. MaxGarbage
      /\ UNCHANGED <<stateVars, poolVars, streamVars, readerVars, writerVars,
                     callerVars, writer_queue, free_packets, unflushed>>
  <2>1. CASE ServerReceives
    <3> DEFINE p == Head(outbound)
    <3>1. outbound # <<>> /\ outbound' = Tail(outbound)
      BY <2>1 DEF ServerReceives
    <3>2. p \in Packets /\ Tail(outbound) \in Seq(Packets)
      BY <1>0, <3>1
    <3>3. p.id \in RequestIds /\ p.call \in 0 .. MaxCalls
      BY <3>2 DEF Packets
    <3>4. responses' \in [RequestIds -> Seq(Packets)]
      <4>1. CASE p.type \in {"SINGLE", "END"}
        <5>1. PICK k \in 1 .. MaxResponsePackets :
                responses' = [responses EXCEPT ![p.id] = @ \o Message(p.id, p.call, k)]
          BY <2>1, <4>1 DEF ServerReceives
        <5>2. Message(p.id, p.call, k) \in Seq(Packets)
          BY <3>3, MessageType
        <5> HIDE DEF p
        <5>3. responses[p.id] \o Message(p.id, p.call, k) \in Seq(Packets)
          BY <1>0, <3>3, <5>2
        <5>4. QED
          BY <1>0, <3>3, <5>1, <5>3
      <4>2. CASE p.type \notin {"SINGLE", "END"}
        BY <1>0, <2>1, <4>2 DEF ServerReceives
      <4>3. QED
        BY <4>1, <4>2
    <3>5. QED
      BY <1>0, <2>1, <3>1, <3>2, <3>4 DEF ServerReceives, BaseInv, TypeOK
  <2>2. ASSUME NEW s \in RequestIds, ServerSends(s)
        PROVE  /\ outbound' \in Seq(Packets) /\ inbound' \in Seq(Packets)
               /\ responses' \in [RequestIds -> Seq(Packets)]
               /\ garbage' \in 0 .. MaxGarbage
               /\ UNCHANGED <<stateVars, poolVars, streamVars, readerVars,
                              writerVars, callerVars, writer_queue,
                              free_packets, unflushed>>
    <3>1. /\ responses[s] # <<>>
          /\ inbound' = Append(inbound, Head(responses[s]))
          /\ responses' = [responses EXCEPT ![s] = Tail(@)]
      BY <2>2 DEF ServerSends
    <3>2. Head(responses[s]) \in Packets /\ Tail(responses[s]) \in Seq(Packets)
      BY <1>0, <3>1
    <3>3. QED
      BY <1>0, <2>2, <3>1, <3>2 DEF ServerSends, BaseInv, TypeOK
  <2>3. CASE ServerSendsGarbage
    <3>1. PICK s \in RequestIds, t \in PacketTypes :
            inbound' = Append(inbound, Packet(s, t, 0))
      BY <2>3 DEF ServerSendsGarbage
    <3>2. Packet(s, t, 0) \in Packets
      BY PacketType, ClientAssumption
    <3>3. inbound' \in Seq(Packets)
      BY <1>0, <3>1, <3>2
    <3>4. garbage' \in 0 .. MaxGarbage
      BY <2>3, ClientAssumption DEF ServerSendsGarbage, BaseInv, TypeOK
    <3>5. QED
      BY <1>0, <2>3, <3>3, <3>4 DEF ServerSendsGarbage
  <2>4. QED
    BY <2>1, <2>2, <2>3 DEF ServerStep
<1>2. TypeOK'
  BY <1>1 DEF BaseInv, TypeOK
<1>3. QED
  BY <1>1, <1>2, CallersAlone DEF BaseInv, HoldersHold

-----------------------------------------------------------------------------
(***************************************************************************)
(* The theorems                                                            *)
(***************************************************************************)

LEMMA InitBase == Init => BaseInv
<1> SUFFICES ASSUME Init PROVE BaseInv
  OBVIOUS
<1>1. TypeOK
  <2>1. IdleCaller \in CallerRecords
    BY RequestIdsFinite, ClientAssumption DEF IdleCaller, CallerRecords, CallerStates
  <2>2. /\ caller \in [Callers -> CallerRecords]
        /\ writer_queue \in Seq(Packets \cup {NULL})
        /\ reader_queue \in [RequestIds -> Seq(Packets)]
        /\ responses \in [RequestIds -> Seq(Packets)]
        /\ unflushed \in Seq(Packets) /\ outbound \in Seq(Packets)
        /\ inbound \in Seq(Packets)
    BY <2>1 DEF Init
  <2>3. QED
    BY <2>2, RequestIdsFinite, ClientAssumption
    DEF Init, TypeOK, States, ReaderStates, WriterStates
<1>2. StreamsHeldOnce /\ HoldersHold
  <2>1. \A c \in Callers : caller[c].pc = "idle"
    BY DEF Init, IdleCaller
  <2>2. QED
    BY <2>1, FS_EmptySet DEF Init, StreamsHeldOnce, HoldersHold, HasStream
<1>3. QED
  BY <1>1, <1>2 DEF BaseInv

LEMMA StepBase ==
    ASSUME BaseInv, [Next]_vars
    PROVE  BaseInv'
<1>1. ASSUME NEW c \in Callers, CallerStep(c)
      PROVE  BaseInv'
  BY <1>1, CreateRequestStreamStep, GetPooledStreamStep, GetWritePacketStep,
     WritePacketStep, FlushStep, ReadPacketStep, CallEndsStep DEF CallerStep
<1>2. CASE ReaderStep
  BY <1>2, ProcessStreamStep, ReaderAcquirePacketStep, ReaderReadPacketStep,
     ReaderFailsStep, StopAllRequestStreamsStep, StopStreamWriterStep,
     ProcessStreamReturnsStep DEF ReaderStep
<1>3. CASE WriterStep
  BY <1>3, WriterGetPacketStep, WriterWritePacketStep, WriterFlushStep,
     WriterSkipPacketStep DEF WriterStep
<1>4. CASE ServerStep \/ LinkBreaks \/ StopRequested
  BY <1>4, ServerStepStep, LinkBreaksStep, StopRequestedStep
<1>5. CASE UNCHANGED vars
  <2>1. TypeOK'
    BY <1>5 DEF vars, stateVars, poolVars, streamVars, readerVars, writerVars,
                callerVars, peerVars, BaseInv, TypeOK
  <2>2. QED
    BY <1>5, <2>1, CallersAlone
    DEF vars, poolVars, streamVars, writerVars, callerVars, BaseInv, HoldersHold
<1>6. QED
  BY <1>1, <1>2, <1>3, <1>4, <1>5 DEF Next, Terminated

\* The types of the whole state hold in every reachable state, and no fiber
\* ever writes with a packet it does not hold (the assertions on
\* current_write_packet in mrpc_packet_stream_write and ..._flush).
THEOREM TypeCorrect == Spec => [](TypeOK /\ HoldersHold)
<1>1. BaseInv => TypeOK /\ HoldersHold
  BY DEF BaseInv
<1>2. QED
  BY <1>1, InitBase, StepBase, PTL DEF Spec

\* acquire_request_stream and release_request_stream never hand one stream,
\* and so one request id, to two fibers, and never lose one: for any number of
\* callers, streams, packets and connections.
THEOREM StreamsExclusive == Spec => []StreamsHeldOnce
<1>1. BaseInv => StreamsHeldOnce
  BY DEF BaseInv
<1>2. QED
  BY <1>1, InitBase, StepBase, PTL DEF Spec

-----------------------------------------------------------------------------
(***************************************************************************)
(* The packets of the pool.  BaseInv does not say who holds which packet:  *)
(* the writer fiber holds one only while it writes it, and a stream has a  *)
(* write packet only while its caller writes or reads.                     *)
(***************************************************************************)
WriteHolders ==
    /\ writer # "write" => writing = NULL
    /\ \A s \in RequestIds : current_write_packet[s] # "none" =>
         \E c \in Callers : caller[c].stream = s /\ caller[c].pc \in {"write", "read"}

\* The writer fiber exists from the start of process_stream until it announces
\* its end, which process_stream waits for.
WriterRuns ==
    /\ writer = "none" <=> reader = "idle" \/ writer_stop_event
    /\ reader = "idle" => ~writer_stop_event

PacketInv == BaseInv /\ WriterRuns /\ WriteHolders /\ PacketsConserved

held == [s \in RequestIds |-> HeldPackets(s)]

LEMMA StreamPacketsPlaces == StreamPackets = Places(RequestIds, held)
<1>1. \A s \in RequestIds : held[s] = HeldPackets(s)
  BY DEF held
<1>2. QED
  BY <1>1 DEF StreamPackets, Places

LEMMA StreamPacketsPlacesNext == StreamPackets' = Places(RequestIds, held')
<1>1. \A s \in RequestIds : held'[s] = HeldPackets(s)'
  BY DEF held
<1>2. QED
  BY <1>1 DEF StreamPackets, Places

\* what is counted
LEMMA HeldTypes ==
    ASSUME TypeOK
    PROVE  held \in [RequestIds -> Nat] /\ Cardinality(StreamPackets) \in Nat
<1>1. held \in [RequestIds -> Nat]
  BY HeldPacketsType DEF held
<1>2. QED
  BY <1>1, PlacesFinite, RequestIdsFinite, StreamPacketsPlaces

LEMMA HeldTypesNext ==
    ASSUME TypeOK'
    PROVE  /\ held' \in [RequestIds -> Nat]
           /\ Cardinality(StreamPackets') \in Nat
           /\ \A s \in RequestIds : HeldPackets(s)' \in Nat
<1>1. ASSUME NEW s \in RequestIds PROVE HeldPackets(s)' \in Nat
  <2>1. Len(reader_queue'[s]) \in Nat
    BY DEF TypeOK
  <2>2. /\ (IF current_write_packet'[s] = "none" THEN 0 ELSE 1) \in Nat
        /\ (IF current_read_packet'[s] = NULL THEN 0 ELSE 1) \in Nat
    OBVIOUS
  <2>3. ASSUME NEW a \in Nat, NEW b \in Nat, NEW n \in Nat
        PROVE  a + b + n \in Nat
    OBVIOUS
  <2>4. QED
    BY <2>1, <2>2, <2>3, Zenon DEF HeldPackets
<1>2. held' \in [RequestIds -> Nat]
  BY <1>1 DEF held
<1>3. Cardinality(Places(RequestIds, held')) \in Nat
  BY <1>2, PlacesFinite, RequestIdsFinite
<1>4. QED
  BY <1>1, <1>2, <1>3, StreamPacketsPlacesNext

\* the entries of a queue that are packets
InQueue(q) == {i \in 1 .. Len(q) : q[i] # NULL}

LEMMA InQueueFinite ==
    ASSUME NEW S, NEW q \in Seq(S)
    PROVE  IsFiniteSet(InQueue(q)) /\ Cardinality(InQueue(q)) \in Nat
<1>1. InQueue(q) \subseteq 1 .. Len(q) /\ Len(q) \in Nat
  BY DEF InQueue
<1>2. IsFiniteSet(1 .. Len(q))
  BY <1>1, FS_Interval
<1>3. QED
  BY <1>1, <1>2, FS_Subset, FS_CardinalityType

LEMMA InQueueAppend ==
    ASSUME NEW S, NEW q \in Seq(S), NEW p \in S
    PROVE  Cardinality(InQueue(Append(q, p))) =
             Cardinality(InQueue(q)) + (IF p = NULL THEN 0 ELSE 1)
<1>0. Len(q) \in Nat /\ Cardinality(InQueue(q)) \in Nat /\ IsFiniteSet(InQueue(q))
  BY InQueueFinite
<1>1. /\ Len(Append(q, p)) = Len(q) + 1
      /\ Append(q, p)[Len(q) + 1] = p
      /\ \A i \in 1 .. Len(q) : Append(q, p)[i] = q[i]
  OBVIOUS
<1>2. CASE p = NULL
  <2>1. InQueue(Append(q, p)) = InQueue(q)
    BY <1>0, <1>1, <1>2 DEF InQueue
  <2>2. QED
    BY <1>0, <1>2, <2>1
<1>3. CASE p # NULL
  <2>1. InQueue(Append(q, p)) = InQueue(q) \cup {Len(q) + 1}
    BY <1>0, <1>1, <1>3 DEF InQueue
  <2>2. Len(q) + 1 \notin InQueue(q)
    BY <1>0 DEF InQueue
  <2>3. QED
    BY <1>0, <1>3, <2>1, <2>2, FS_AddElement
<1>4. QED
  BY <1>2, <1>3

LEMMA InQueueTail ==
    ASSUME NEW S, NEW q \in Seq(S), q # <<>>
    PROVE  Cardinality(InQueue(q)) =
             Cardinality(InQueue(Tail(q))) + (IF Head(q) = NULL THEN 0 ELSE 1)
<1> DEFINE rest == InQueue(q) \ {1}
           f == [i \in rest |-> i - 1]
<1>0. /\ Len(q) \in Nat /\ Len(q) > 0 /\ Tail(q) \in Seq(S)
      /\ Len(Tail(q)) = Len(q) - 1
      /\ \A i \in 1 .. Len(q) - 1 : Tail(q)[i] = q[i + 1]
      /\ Head(q) = q[1]
  OBVIOUS
<1>1. /\ IsFiniteSet(InQueue(q)) /\ Cardinality(InQueue(q)) \in Nat
      /\ Cardinality(InQueue(Tail(q))) \in Nat
  BY <1>0, InQueueFinite
<1>2. f \in Bijection(rest, InQueue(Tail(q)))
  <2>1. \A i \in rest : i \in Int /\ i - 1 \in InQueue(Tail(q))
    BY <1>0 DEF InQueue
  <2>2. \A j \in InQueue(Tail(q)) : j \in Int /\ j + 1 \in rest
    BY <1>0 DEF InQueue
  <2> HIDE DEF rest
  <2>3. f \in [rest -> InQueue(Tail(q))]
    BY <2>1
  <2>4. \A i, j \in rest : f[i] = f[j] => i = j
    BY <2>1
  <2>5. \A j \in InQueue(Tail(q)) : \E i \in rest : f[i] = j
    <3>1. ASSUME NEW j \in InQueue(Tail(q))
          PROVE  j + 1 \in rest /\ f[j + 1] = j
      BY <2>2
    <3>2. QED
      BY <3>1
  <2>6. QED
    BY <2>3, <2>4, <2>5 DEF Bijection, Injection, Surjection, IsInjective
<1>3. IsFiniteSet(rest) /\ Cardinality(rest) \in Nat
  BY <1>1, FS_Subset, FS_CardinalityType
<1>4. Cardinality(InQueue(Tail(q))) = Cardinality(rest)
  BY <1>2, <1>3, FS_Bijection DEF ExistsBijection
<1>5. CASE Head(q) = NULL
  <2>1. rest = InQueue(q)
    BY <1>0, <1>5 DEF InQueue
  <2>2. Cardinality(InQueue(q)) = Cardinality(InQueue(Tail(q)))
    BY <1>4, <2>1
  <2>3. QED
    BY <1>1, <1>5, <2>2
<1>6. CASE Head(q) # NULL
  <2>1. 1 \in InQueue(q)
    BY <1>0, <1>6 DEF InQueue
  <2>2. Cardinality(rest) = Cardinality(InQueue(q)) - 1
    BY <1>1, <2>1, FS_RemoveElement
  <2>3. QED
    BY <1>1, <1>4, <1>6, <2>2
<1>7. QED
  BY <1>5, <1>6

\* The counts are numbers, before and after a step.
LEMMA CountTypes ==
    ASSUME BaseInv, BaseInv'
    PROVE  /\ Cardinality(StreamPackets) \in Nat /\ Cardinality(StreamPackets') \in Nat
           /\ Cardinality(QueuedPackets) \in Nat /\ Cardinality(QueuedPackets') \in Nat
           /\ ReaderPackets \in Nat /\ ReaderPackets' \in Nat
           /\ WriterPackets \in Nat /\ WriterPackets' \in Nat
           /\ free_packets \in Nat /\ free_packets' \in Nat
           /\ MaxPackets \in Nat
<1>1. Cardinality(StreamPackets) \in Nat /\ Cardinality(StreamPackets') \in Nat
  BY HeldTypes, HeldTypesNext DEF BaseInv
<1>2. /\ QueuedPackets = InQueue(writer_queue)
      /\ QueuedPackets' = InQueue(writer_queue')
  BY DEF QueuedPackets, InQueue
<1>3. /\ writer_queue \in Seq(Packets \cup {NULL})
      /\ writer_queue' \in Seq(Packets \cup {NULL})
      /\ free_packets \in Nat /\ free_packets' \in Nat
  BY DEF BaseInv, TypeOK
<1>4. Cardinality(InQueue(writer_queue)) \in Nat /\ Cardinality(InQueue(writer_queue')) \in Nat
  BY <1>3, InQueueFinite
<1>5. /\ ReaderPackets \in Nat /\ ReaderPackets' \in Nat
      /\ WriterPackets \in Nat /\ WriterPackets' \in Nat
  BY DEF ReaderPackets, WriterPackets
<1>6. QED
  BY <1>1, <1>2, <1>3, <1>4, <1>5, ClientAssumption

\* A step that moves packets about and neither makes nor loses one.
LEMMA Balance ==
    ASSUME PacketInv, BaseInv',
           free_packets' + Cardinality(StreamPackets') + Cardinality(QueuedPackets')
             + ReaderPackets' + WriterPackets' =
           free_packets + Cardinality(StreamPackets) + Cardinality(QueuedPackets)
             + ReaderPackets + WriterPackets
    PROVE  PacketsConserved'
BY DEF PacketInv, PacketsConserved

\* Only stream s gains or loses packets.
LEMMA OneStreamChanges ==
    ASSUME BaseInv, BaseInv', NEW s \in RequestIds,
           \A r \in RequestIds \ {s} :
              /\ reader_queue'[r] = reader_queue[r]
              /\ current_read_packet'[r] = current_read_packet[r]
              /\ current_write_packet'[r] = current_write_packet[r]
    PROVE  /\ HeldPackets(s) \in Nat /\ HeldPackets(s)' \in Nat
           /\ Cardinality(StreamPackets') =
                Cardinality(StreamPackets) - HeldPackets(s) + HeldPackets(s)'
<1>1. /\ held \in [RequestIds -> Nat] /\ held' \in [RequestIds -> Nat]
      /\ HeldPackets(s) \in Nat /\ HeldPackets(s)' \in Nat
  BY HeldTypes, HeldTypesNext, HeldPacketsType DEF BaseInv
<1>2. \A r \in RequestIds \ {s} : held'[r] = held[r]
  BY DEF held, HeldPackets
<1>3. Cardinality(Places(RequestIds, held')) =
        Cardinality(Places(RequestIds, held)) - held[s] + held'[s]
  <2>1. \A h, g \in [RequestIds -> Nat] : \A r \in RequestIds :
          (\A q \in RequestIds \ {r} : g[q] = h[q]) =>
            Cardinality(Places(RequestIds, g)) = Cardinality(Places(RequestIds, h)) - h[r] + g[r]
    BY PlacesOneChanges, RequestIdsFinite
  <2>2. QED
    BY <1>1, <1>2, <2>1
<1>4. held[s] = HeldPackets(s) /\ held'[s] = HeldPackets(s)'
  BY DEF held
<1>5. QED
  BY <1>1, <1>3, <1>4, StreamPacketsPlaces, StreamPacketsPlacesNext

LEMMA NoStreamChanges ==
    ASSUME UNCHANGED streamVars
    PROVE  StreamPackets' = StreamPackets
BY DEF streamVars, StreamPackets, HeldPackets

LEMMA PacketQueued ==
    ASSUME BaseInv, NEW p \in Packets \cup {NULL}, writer_queue' = Append(writer_queue, p)
    PROVE  Cardinality(QueuedPackets') =
             Cardinality(QueuedPackets) + (IF p = NULL THEN 0 ELSE 1)
<1>1. writer_queue \in Seq(Packets \cup {NULL})
  BY DEF BaseInv, TypeOK
<1>2. /\ QueuedPackets = InQueue(writer_queue)
      /\ QueuedPackets' = InQueue(Append(writer_queue, p))
  BY DEF QueuedPackets, InQueue
<1>3. QED
  BY <1>1, <1>2, InQueueAppend

LEMMA PacketDequeued ==
    ASSUME BaseInv, writer_queue # <<>>, writer_queue' = Tail(writer_queue)
    PROVE  Cardinality(QueuedPackets) =
             Cardinality(QueuedPackets') + (IF Head(writer_queue) = NULL THEN 0 ELSE 1)
<1>1. writer_queue \in Seq(Packets \cup {NULL})
  BY DEF BaseInv, TypeOK
<1>2. /\ QueuedPackets = InQueue(writer_queue)
      /\ QueuedPackets' = InQueue(Tail(writer_queue))
  BY DEF QueuedPackets, InQueue
<1>3. QED
  BY <1>1, <1>2, InQueueTail

\* Nothing moves.
LEMMA PacketsStay ==
    ASSUME PacketInv, BaseInv',
           UNCHANGED <<reader_queue, current_read_packet, current_write_packet,
                       writer_queue, free_packets, writing>>,
           ReaderPackets' = ReaderPackets
    PROVE  PacketsConserved'
<1>1. StreamPackets' = StreamPackets
  BY NoStreamChanges DEF streamVars
<1>2. QueuedPackets' = QueuedPackets /\ WriterPackets' = WriterPackets
  BY DEF QueuedPackets, WriterPackets
<1>3. QED
  BY <1>1, <1>2 DEF PacketInv, PacketsConserved

\* A step of one caller leaves the write packets with those who write or read.
LEMMA WriteHoldersKept ==
    ASSUME WriteHolders, NEW c \in Callers,
           \A d \in Callers \ {c} : caller'[d] = caller[d],
           UNCHANGED <<writer, writing>>,
           \A r \in RequestIds : current_write_packet'[r] # "none" =>
              \/ /\ current_write_packet[r] # "none"
                 /\ caller[c].stream # r \/ caller[c].pc \notin {"write", "read"}
              \/ caller'[c].stream = r /\ caller'[c].pc \in {"write", "read"}
    PROVE  WriteHolders'
<1>1. ASSUME NEW r \in RequestIds, current_write_packet'[r] # "none"
      PROVE  \E d \in Callers : caller'[d].stream = r /\ caller'[d].pc \in {"write", "read"}
  <2>1. CASE caller'[c].stream = r /\ caller'[c].pc \in {"write", "read"}
    BY <2>1
  <2>2. CASE /\ current_write_packet[r] # "none"
             /\ caller[c].stream # r \/ caller[c].pc \notin {"write", "read"}
    <3>1. PICK d \in Callers : caller[d].stream = r /\ caller[d].pc \in {"write", "read"}
      BY <2>2 DEF WriteHolders
    <3>2. caller'[d] = caller[d]
      BY <2>2, <3>1
    <3>3. QED
      BY <3>1, <3>2
  <2>3. QED
    BY <1>1, <2>1, <2>2
<1>2. writer' # "write" => writing' = NULL
  BY DEF WriteHolders
<1>3. QED
  BY <1>1, <1>2 DEF WriteHolders

\* A caller that waits for a write packet has none.
LEMMA NoWritePacket ==
    ASSUME PacketInv, NEW c \in Callers, HasStream(c),
           caller[c].pc \notin {"write", "read"}
    PROVE  caller[c].stream \in RequestIds /\ current_write_packet[caller[c].stream] = "none"
<1>1. caller[c].stream \in RequestIds
  BY DEF PacketInv, BaseInv, TypeOK, CallerRecords
<1>2. ASSUME current_write_packet[caller[c].stream] # "none" PROVE FALSE
  <2>1. PICK d \in Callers : /\ caller[d].stream = caller[c].stream
                             /\ caller[d].pc \in {"write", "read"}
    BY <1>1, <1>2 DEF PacketInv, WriteHolders
  <2>2. HasStream(d)
    BY <2>1 DEF HasStream
  <2>3. d = c
    BY <2>1, <2>2 DEF PacketInv, BaseInv, StreamsHeldOnce
  <2>4. QED
    BY <2>1, <2>3
<1>3. QED
  BY <1>1, <1>2

\* The packets of a stream, one by one.
LEMMA HeldOf ==
    ASSUME TypeOK, NEW s \in RequestIds
    PROVE  \E n \in Nat, w \in {0, 1}, r \in {0, 1} :
             /\ HeldPackets(s) = n + w + r
             /\ n = Len(reader_queue[s])
             /\ w = 0 <=> current_write_packet[s] = "none"
             /\ r = 0 <=> current_read_packet[s] = NULL
<1> DEFINE w == IF current_write_packet[s] = "none" THEN 0 ELSE 1
           r == IF current_read_packet[s] = NULL THEN 0 ELSE 1
<1>1. Len(reader_queue[s]) \in Nat
  BY DEF TypeOK
<1>2. /\ w \in {0, 1} /\ r \in {0, 1}
      /\ w = 0 <=> current_write_packet[s] = "none"
      /\ r = 0 <=> current_read_packet[s] = NULL
  OBVIOUS
<1>3. HeldPackets(s) = Len(reader_queue[s]) + w + r
  BY DEF HeldPackets
<1>4. QED
  BY <1>1, <1>2, <1>3, Zenon

LEMMA HeldOfNext ==
    ASSUME TypeOK', NEW s \in RequestIds
    PROVE  \E n \in Nat, w \in {0, 1}, r \in {0, 1} :
             /\ HeldPackets(s)' = n + w + r
             /\ n = Len(reader_queue'[s])
             /\ w = 0 <=> current_write_packet'[s] = "none"
             /\ r = 0 <=> current_read_packet'[s] = NULL
<1> DEFINE w == IF current_write_packet'[s] = "none" THEN 0 ELSE 1
           r == IF current_read_packet'[s] = NULL THEN 0 ELSE 1
<1>1. Len(reader_queue'[s]) \in Nat
  BY DEF TypeOK
<1>2. /\ w \in {0, 1} /\ r \in {0, 1}
      /\ w = 0 <=> current_write_packet'[s] = "none"
      /\ r = 0 <=> current_read_packet'[s] = NULL
  OBVIOUS
<1>3. HeldPackets(s)' = Len(reader_queue'[s]) + w + r
  BY DEF HeldPackets
<1>4. QED
  BY <1>1, <1>2, <1>3, Zenon

(***************************************************************************)
(* The callers move packets                                                *)
(***************************************************************************)

LEMMA CreatePackets ==
    ASSUME PacketInv, BaseInv', NEW c \in Callers,
           CreateRequestStream(c) \/ GetPooledStream(c)
    PROVE  WriteHolders' /\ PacketsConserved'
<1>1. /\ UNCHANGED <<streamVars, readerVars, writerVars, writer_queue, free_packets>>
      /\ caller[c].pc \in {"idle", "pool"}
  BY DEF CreateRequestStream, GetPooledStream
<1>2. UNCHANGED <<reader_queue, current_read_packet, current_write_packet,
                  reader, writer, writing, writer_queue, free_packets>>
  BY <1>1 DEF streamVars, readerVars, writerVars
<1>3. \A d \in Callers \ {c} : caller'[d] = caller[d]
  BY DEF CreateRequestStream, GetPooledStream, PacketInv, BaseInv, TypeOK
<1>4. WriteHolders'
  BY <1>1, <1>2, <1>3, WriteHoldersKept DEF PacketInv
<1>5. ReaderPackets' = ReaderPackets
  BY <1>2 DEF ReaderPackets
<1>6. QED
  BY <1>2, <1>4, <1>5, PacketsStay

LEMMA GetWritePacketPackets ==
    ASSUME PacketInv, BaseInv', NEW c \in Callers, GetWritePacket(c)
    PROVE  WriteHolders' /\ PacketsConserved'
<1>0. PICK s \in RequestIds : s = caller[c].stream
  BY DEF PacketInv, BaseInv, TypeOK, CallerRecords
<1> DEFINE type == CASE caller[c].pc = "write_first" -> "START"
                     [] caller[c].pc = "write_next" -> "MIDDLE"
                     [] caller[c].pc = "flush_end" -> "END"
                     [] OTHER -> "none"
<1>1. /\ type # "none"
      /\ free_packets' = free_packets - 1
      /\ current_write_packet' = [current_write_packet EXCEPT ![s] = type]
      /\ caller' = [caller EXCEPT ![c].pc = IF type = "END" THEN "read" ELSE "write"]
      /\ UNCHANGED <<reader_queue, current_read_packet, readerVars, writerVars,
                     writer_queue>>
  BY <1>0 DEF GetWritePacket
<1>2. caller[c].pc \in {"write_first", "write_next", "flush_end"}
  BY <1>1
<1>3. /\ caller \in [Callers -> CallerRecords]
      /\ current_write_packet \in [RequestIds -> {"none", "START", "MIDDLE", "END"}]
  BY DEF PacketInv, BaseInv, TypeOK
<1>4. s \in RequestIds /\ current_write_packet[s] = "none"
  BY <1>0, <1>2, NoWritePacket DEF HasStream
<1> HIDE DEF type
<1>5. /\ \A d \in Callers \ {c} : caller'[d] = caller[d]
      /\ caller'[c].stream = s /\ caller'[c].pc \in {"write", "read"}
  BY <1>0, <1>1, <1>3 DEF CallerRecords
<1>6. /\ current_write_packet'[s] # "none"
      /\ \A r \in RequestIds \ {s} : current_write_packet'[r] = current_write_packet[r]
  BY <1>1, <1>3, <1>4
<1>7. UNCHANGED <<reader_queue, current_read_packet, reader, writer, writing, writer_queue>>
  BY <1>1 DEF readerVars, writerVars
<1>8. WriteHolders'
  BY <1>0, <1>5, <1>6, <1>7, WriteHoldersKept DEF PacketInv
<1>9. HeldPackets(s)' = HeldPackets(s) + 1
  <2>1. PICK n \in Nat, w \in {0, 1}, r \in {0, 1} :
             /\ HeldPackets(s) = n + w + r
             /\ n = Len(reader_queue[s])
             /\ w = 0 <=> current_write_packet[s] = "none"
             /\ r = 0 <=> current_read_packet[s] = NULL
    BY <1>4, HeldOf DEF PacketInv, BaseInv
  <2>2. PICK m \in Nat, v \in {0, 1}, q \in {0, 1} :
             /\ HeldPackets(s)' = m + v + q
             /\ m = Len(reader_queue'[s])
             /\ v = 0 <=> current_write_packet'[s] = "none"
             /\ q = 0 <=> current_read_packet'[s] = NULL
    BY <1>4, HeldOfNext DEF BaseInv
  <2>3. m = n /\ q = r /\ w = 0 /\ v = 1
    BY <1>4, <1>6, <1>7, <2>1, <2>2
  <2>4. QED
    BY <2>1, <2>2, <2>3
<1>10. Cardinality(StreamPackets') = Cardinality(StreamPackets) + 1
  <2>1. /\ HeldPackets(s) \in Nat /\ HeldPackets(s)' \in Nat
        /\ Cardinality(StreamPackets') =
                Cardinality(StreamPackets) - HeldPackets(s) + HeldPackets(s)'
    BY <1>4, <1>6, <1>7, OneStreamChanges DEF PacketInv
  <2>2. QED
    BY <1>9, <2>1, CountTypes DEF PacketInv
<1>11. /\ QueuedPackets' = QueuedPackets
       /\ ReaderPackets' = ReaderPackets
       /\ WriterPackets' = WriterPackets
  BY <1>7 DEF QueuedPackets, ReaderPackets, WriterPackets
<1>12. PacketsConserved'
  <2>1. free_packets' + Cardinality(StreamPackets') + Cardinality(QueuedPackets')
          + ReaderPackets' + WriterPackets' =
        free_packets + Cardinality(StreamPackets) + Cardinality(QueuedPackets)
          + ReaderPackets + WriterPackets
    BY <1>1, <1>10, <1>11, CountTypes DEF PacketInv
  <2>2. QED
    BY <2>1, Balance
<1>13. QED
  BY <1>8, <1>12

LEMMA QueueWritePacketPackets ==
    ASSUME PacketInv, BaseInv', NEW c \in Callers, HasStream(c),
           caller[c].pc = "write",
           NEW t \in PacketTypes, NEW u \in {"MIDDLE", "END"}, NEW w,
           NEW next \in {"write", "read"},
           QueueWritePacket(c, t, u, w, next)
    PROVE  WriteHolders' /\ PacketsConserved'
<1>0. PICK s \in RequestIds : s = caller[c].stream
  BY DEF PacketInv, BaseInv, TypeOK, CallerRecords
<1> DEFINE pkt == Packet(s, t, caller[c].call)
<1>1. /\ writer_queue' = Append(writer_queue, pkt)
      /\ UNCHANGED <<reader_queue, current_read_packet, readerVars, writerVars>>
      /\ \/ /\ free_packets' = free_packets - 1
            /\ current_write_packet' = [current_write_packet EXCEPT ![s] = u]
            /\ caller' = [caller EXCEPT ![c].pc = next, ![c].left = @ - 1]
         \/ /\ free_packets' = free_packets
            /\ current_write_packet' = [current_write_packet EXCEPT ![s] = "none"]
            /\ caller' = [caller EXCEPT ![c].pc = w, ![c].left = @ - 1]
  BY <1>0 DEF QueueWritePacket
<1>2. /\ caller \in [Callers -> CallerRecords]
      /\ current_write_packet \in [RequestIds -> {"none", "START", "MIDDLE", "END"}]
      /\ free_packets \in Nat
  BY DEF PacketInv, BaseInv, TypeOK
<1>3. /\ s \in RequestIds /\ pkt \in Packets /\ pkt # NULL
      /\ current_write_packet[s] # "none"
  <2>1. s \in RequestIds /\ caller[c].call \in 0 .. MaxCalls
    BY <1>0, <1>2 DEF CallerRecords
  <2>2. pkt \in Packets
    BY <2>1, PacketType
  <2>3. current_write_packet[s] # "none"
    BY <1>0 DEF PacketInv, BaseInv, HoldersHold
  <2>4. QED
    BY <2>1, <2>2, <2>3, NullIsNoPacket
<1> HIDE DEF pkt
<1>4. /\ \A d \in Callers \ {c} : caller'[d] = caller[d]
      /\ caller'[c].stream = s
  BY <1>0, <1>1, <1>2 DEF CallerRecords
<1>5. UNCHANGED <<reader_queue, current_read_packet, reader, writer, writing>>
  BY <1>1 DEF readerVars, writerVars
<1>6. \A r \in RequestIds \ {s} : current_write_packet'[r] = current_write_packet[r]
  BY <1>1, <1>2
<1>7. \/ /\ free_packets' = free_packets - 1
         /\ current_write_packet'[s] # "none"
         /\ caller'[c].pc \in {"write", "read"}
      \/ /\ free_packets' = free_packets
         /\ current_write_packet'[s] = "none"
  BY <1>1, <1>2, <1>3 DEF CallerRecords
<1>8. WriteHolders'
  BY <1>0, <1>4, <1>5, <1>6, <1>7, WriteHoldersKept DEF PacketInv
<1>9. Cardinality(QueuedPackets') = Cardinality(QueuedPackets) + 1
  BY <1>1, <1>3, PacketQueued DEF PacketInv
<1>10. HeldPackets(s)' - HeldPackets(s) = free_packets - free_packets' - 1
  <2>1. PICK n \in Nat, a \in {0, 1}, r \in {0, 1} :
             /\ HeldPackets(s) = n + a + r
             /\ n = Len(reader_queue[s])
             /\ a = 0 <=> current_write_packet[s] = "none"
             /\ r = 0 <=> current_read_packet[s] = NULL
    BY <1>3, HeldOf DEF PacketInv, BaseInv
  <2>2. PICK m \in Nat, v \in {0, 1}, q \in {0, 1} :
             /\ HeldPackets(s)' = m + v + q
             /\ m = Len(reader_queue'[s])
             /\ v = 0 <=> current_write_packet'[s] = "none"
             /\ q = 0 <=> current_read_packet'[s] = NULL
    BY <1>3, HeldOfNext DEF BaseInv
  <2>3. m = n /\ q = r /\ a = 1
    BY <1>3, <1>5, <2>1, <2>2
  <2>4. \/ free_packets' = free_packets - 1 /\ v = 1
        \/ free_packets' = free_packets /\ v = 0
    BY <1>7, <2>2
  <2>5. QED
    BY <1>2, <2>1, <2>2, <2>3, <2>4
<1>11. /\ HeldPackets(s) \in Nat /\ HeldPackets(s)' \in Nat
       /\ Cardinality(StreamPackets') =
            Cardinality(StreamPackets) - HeldPackets(s) + HeldPackets(s)'
  BY <1>3, <1>5, <1>6, OneStreamChanges DEF PacketInv
<1>12. ReaderPackets' = ReaderPackets /\ WriterPackets' = WriterPackets
  BY <1>5 DEF ReaderPackets, WriterPackets
<1>13. PacketsConserved'
  <2>1. free_packets' + Cardinality(StreamPackets') + Cardinality(QueuedPackets')
          + ReaderPackets' + WriterPackets' =
        free_packets + Cardinality(StreamPackets) + Cardinality(QueuedPackets)
          + ReaderPackets + WriterPackets
    BY <1>9, <1>10, <1>11, <1>12, CountTypes DEF PacketInv
  <2>2. QED
    BY <2>1, Balance
<1>14. QED
  BY <1>8, <1>13

LEMMA WritePackets ==
    ASSUME PacketInv, BaseInv', NEW c \in Callers, WritePacket(c) \/ Flush(c)
    PROVE  WriteHolders' /\ PacketsConserved'
<1>1. HasStream(c) /\ caller[c].pc = "write"
  BY DEF WritePacket, Flush, HasStream
<1>2. current_write_packet[caller[c].stream] \in {"START", "MIDDLE"}
  BY <1>1 DEF PacketInv, BaseInv, HoldersHold
<1>3. CASE WritePacket(c)
  <2>1. QueueWritePacket(c, current_write_packet[caller[c].stream],
                         "MIDDLE", "write_next", "write")
    BY <1>3 DEF WritePacket
  <2>2. current_write_packet[caller[c].stream] \in PacketTypes
    BY <1>2 DEF PacketTypes
  <2>3. QED
    BY <1>1, <2>1, <2>2, QueueWritePacketPackets
<1>4. CASE Flush(c)
  <2> DEFINE t == IF current_write_packet[caller[c].stream] = "START" THEN "SINGLE" ELSE "END"
  <2>1. QueueWritePacket(c, t, "END", "flush_end", "read")
    BY <1>4 DEF Flush
  <2>2. t \in PacketTypes
    BY DEF PacketTypes
  <2> HIDE DEF t
  <2>3. QED
    BY <1>1, <2>1, <2>2, QueueWritePacketPackets
<1>5. QED
  BY <1>3, <1>4

\* Only one stream and the pool change.
LEMMA StreamAndPoolBalance ==
    ASSUME PacketInv, BaseInv', NEW s \in RequestIds,
           \A r \in RequestIds \ {s} :
              /\ reader_queue'[r] = reader_queue[r]
              /\ current_read_packet'[r] = current_read_packet[r]
              /\ current_write_packet'[r] = current_write_packet[r],
           UNCHANGED <<writer_queue, writing>>,
           free_packets' + HeldPackets(s)' + ReaderPackets' =
             free_packets + HeldPackets(s) + ReaderPackets
    PROVE  PacketsConserved'
<1>1. /\ HeldPackets(s) \in Nat /\ HeldPackets(s)' \in Nat
      /\ Cardinality(StreamPackets') =
           Cardinality(StreamPackets) - HeldPackets(s) + HeldPackets(s)'
  BY OneStreamChanges DEF PacketInv
<1>2. QueuedPackets' = QueuedPackets /\ WriterPackets' = WriterPackets
  BY DEF QueuedPackets, WriterPackets
<1>3. free_packets' + Cardinality(StreamPackets') + Cardinality(QueuedPackets')
        + ReaderPackets' + WriterPackets' =
      free_packets + Cardinality(StreamPackets) + Cardinality(QueuedPackets)
        + ReaderPackets + WriterPackets
  <2>1. \A f, h, r, f2, h2, r2, n, n2, q, w \in Nat :
          n2 = n - h + h2 /\ f2 + h2 + r2 = f + h + r =>
            f2 + n2 + q + r2 + w = f + n + q + r + w
    OBVIOUS
  <2>2. QED
    BY <1>1, <1>2, <2>1, CountTypes DEF PacketInv
<1>4. QED
  BY <1>3, Balance

LEMMA ReadPacketPackets ==
    ASSUME PacketInv, BaseInv', NEW c \in Callers, ReadPacket(c)
    PROVE  WriteHolders' /\ PacketsConserved'
<1>0. PICK s \in RequestIds : s = caller[c].stream
  BY DEF PacketInv, BaseInv, TypeOK, CallerRecords
<1>1. /\ reader_queue[s] # <<>>
      /\ reader_queue' = [reader_queue EXCEPT ![s] = Tail(@)]
      /\ current_read_packet' = [current_read_packet EXCEPT ![s] = NextPacket(c)]
      /\ free_packets' = IF current_read_packet[s] = NULL THEN free_packets
                                                          ELSE free_packets + 1
      /\ UNCHANGED <<current_write_packet, readerVars, writerVars, callerVars, writer_queue>>
  BY <1>0 DEF ReadPacket, CanRead
<1>2. /\ reader_queue \in [RequestIds -> Seq(Packets)]
      /\ current_read_packet \in [RequestIds -> Packets \cup {NULL}]
      /\ free_packets \in Nat
  BY DEF PacketInv, BaseInv, TypeOK
<1>3. UNCHANGED <<current_write_packet, reader, writer, writing, caller, writer_queue>>
  BY <1>1 DEF readerVars, writerVars, callerVars
<1>4. WriteHolders'
  BY <1>3 DEF PacketInv, WriteHolders
<1>5. /\ reader_queue'[s] = Tail(reader_queue[s])
      /\ current_read_packet'[s] # NULL
      /\ \A r \in RequestIds \ {s} : /\ reader_queue'[r] = reader_queue[r]
                                     /\ current_read_packet'[r] = current_read_packet[r]
  <2>1. NextPacket(c) \in Packets
    BY <1>0, <1>1, <1>2 DEF NextPacket
  <2>2. QED
    BY <1>1, <1>2, <2>1, NullIsNoPacket
<1>6. /\ reader_queue[s] \in Seq(Packets) /\ Len(reader_queue[s]) \in Nat
      /\ Len(reader_queue'[s]) = Len(reader_queue[s]) - 1
  BY <1>1, <1>2, <1>5
<1>7. free_packets' + HeldPackets(s)' = free_packets + HeldPackets(s)
  <2>1. PICK n \in Nat, w \in {0, 1}, r \in {0, 1} :
             /\ HeldPackets(s) = n + w + r
             /\ n = Len(reader_queue[s])
             /\ w = 0 <=> current_write_packet[s] = "none"
             /\ r = 0 <=> current_read_packet[s] = NULL
    BY HeldOf DEF PacketInv, BaseInv
  <2>2. PICK m \in Nat, v \in {0, 1}, q \in {0, 1} :
             /\ HeldPackets(s)' = m + v + q
             /\ m = Len(reader_queue'[s])
             /\ v = 0 <=> current_write_packet'[s] = "none"
             /\ q = 0 <=> current_read_packet'[s] = NULL
    BY HeldOfNext DEF BaseInv
  <2>3. m = n - 1 /\ q = 1 /\ v = w
    BY <1>3, <1>5, <1>6, <2>1, <2>2
  <2>4. free_packets' = free_packets + r
    BY <1>1, <1>2, <2>1
  <2>5. QED
    BY <1>2, <2>1, <2>2, <2>3, <2>4
<1>8. PacketsConserved'
  <2>1. ReaderPackets' = ReaderPackets
    BY <1>3 DEF ReaderPackets
  <2>2. /\ ReaderPackets \in Nat /\ free_packets' \in Nat
        /\ HeldPackets(s) \in Nat /\ HeldPackets(s)' \in Nat
    BY HeldPacketsType, HeldTypesNext, CountTypes DEF PacketInv, BaseInv
  <2>3. QED
    BY <1>2, <1>3, <1>5, <1>7, <2>1, <2>2, StreamAndPoolBalance
<1>9. QED
  BY <1>4, <1>8

LEMMA CallEndsPackets ==
    ASSUME PacketInv, BaseInv', NEW c \in Callers,
           CallSucceeds(c) \/ CallFails(c) \/ ReadTimeout(c)
    PROVE  WriteHolders' /\ PacketsConserved'
<1>0. PICK s \in RequestIds : s = caller[c].stream
  BY DEF PacketInv, BaseInv, TypeOK, CallerRecords
<1>1. /\ free_packets' = free_packets + HeldPackets(s)
      /\ current_write_packet' = [current_write_packet EXCEPT ![s] = "none"]
      /\ current_read_packet' = [current_read_packet EXCEPT ![s] = NULL]
      /\ reader_queue' = [reader_queue EXCEPT ![s] = <<>>]
      /\ caller' = [caller EXCEPT ![c] = IdleCaller]
      /\ UNCHANGED <<readerVars, writerVars, writer_queue>>
  BY <1>0 DEF CallSucceeds, CallFails, ReadTimeout, ReleaseRequestStream, ShutdownStream
<1>2. /\ caller \in [Callers -> CallerRecords]
      /\ reader_queue \in [RequestIds -> Seq(Packets)]
      /\ current_read_packet \in [RequestIds -> Packets \cup {NULL}]
      /\ current_write_packet \in [RequestIds -> {"none", "START", "MIDDLE", "END"}]
      /\ free_packets \in Nat
  BY DEF PacketInv, BaseInv, TypeOK
<1>3. UNCHANGED <<reader, writer, writing, writer_queue>>
  BY <1>1 DEF readerVars, writerVars
<1>4. /\ \A r \in RequestIds \ {s} :
            /\ reader_queue'[r] = reader_queue[r]
            /\ current_read_packet'[r] = current_read_packet[r]
            /\ current_write_packet'[r] = current_write_packet[r]
      /\ reader_queue'[s] = <<>>
      /\ current_read_packet'[s] = NULL
      /\ current_write_packet'[s] = "none"
      /\ \A d \in Callers \ {c} : caller'[d] = caller[d]
  BY <1>1, <1>2
<1>5. WriteHolders'
  BY <1>0, <1>3, <1>4, WriteHoldersKept DEF PacketInv
<1>6. HeldPackets(s)' = 0
  <2>1. Len(reader_queue'[s]) = 0
    BY <1>4
  <2>2. QED
    BY <1>4, <2>1 DEF HeldPackets
<1>7. ReaderPackets' = ReaderPackets
  BY <1>3 DEF ReaderPackets
<1>8. ReaderPackets \in Nat /\ HeldPackets(s) \in Nat
  BY HeldPacketsType, CountTypes DEF PacketInv, BaseInv
<1>9. free_packets' + HeldPackets(s)' + ReaderPackets' =
        free_packets + HeldPackets(s) + ReaderPackets
  BY <1>1, <1>2, <1>6, <1>7, <1>8
<1>10. QED
  BY <1>3, <1>4, <1>5, <1>9, StreamAndPoolBalance

-----------------------------------------------------------------------------
(***************************************************************************)
(* The reader fiber moves packets                                          *)
(***************************************************************************)

LEMMA ReaderPacketTaken ==
    ASSUME PacketInv, BaseInv', ReaderAcquirePacket
    PROVE  WriteHolders' /\ PacketsConserved'
<1>1. /\ reader = "acquire" /\ reader' = "read"
      /\ free_packets' = free_packets - 1
      /\ UNCHANGED <<streamVars, writer, writing, caller, current_write_packet, writer_queue>>
  BY DEF ReaderAcquirePacket, streamVars, writerVars, callerVars
<1>2. WriteHolders'
  BY <1>1 DEF PacketInv, WriteHolders
<1>3. /\ StreamPackets' = StreamPackets
      /\ QueuedPackets' = QueuedPackets
      /\ WriterPackets' = WriterPackets
      /\ ReaderPackets = 0 /\ ReaderPackets' = 1
  BY <1>1, NoStreamChanges DEF QueuedPackets, WriterPackets, ReaderPackets
<1>4. free_packets' + Cardinality(StreamPackets') + Cardinality(QueuedPackets')
        + ReaderPackets' + WriterPackets' =
      free_packets + Cardinality(StreamPackets) + Cardinality(QueuedPackets)
        + ReaderPackets + WriterPackets
  BY <1>1, <1>3, CountTypes DEF PacketInv
<1>5. QED
  BY <1>2, <1>4, Balance

\* the packet goes back to the pool
LEMMA ReaderPacketFreed ==
    ASSUME PacketInv, BaseInv', reader = "read", reader' # "read",
           free_packets' = free_packets + 1,
           UNCHANGED <<streamVars, writer, writing, caller, writer_queue>>
    PROVE  WriteHolders' /\ PacketsConserved'
<1>1. WriteHolders'
  BY DEF PacketInv, WriteHolders, streamVars
<1>2. /\ StreamPackets' = StreamPackets
      /\ QueuedPackets' = QueuedPackets
      /\ WriterPackets' = WriterPackets
      /\ ReaderPackets = 1 /\ ReaderPackets' = 0
  BY NoStreamChanges DEF QueuedPackets, WriterPackets, ReaderPackets
<1>3. free_packets' + Cardinality(StreamPackets') + Cardinality(QueuedPackets')
        + ReaderPackets' + WriterPackets' =
      free_packets + Cardinality(StreamPackets) + Cardinality(QueuedPackets)
        + ReaderPackets + WriterPackets
  BY <1>2, CountTypes DEF PacketInv
<1>4. QED
  BY <1>1, <1>3, Balance

LEMMA ReaderReadPackets ==
    ASSUME PacketInv, BaseInv', ReaderReadPacket
    PROVE  WriteHolders' /\ PacketsConserved'
<1>1. /\ inbound # <<>> /\ inbound \in Seq(Packets)
      /\ reader_queue \in [RequestIds -> Seq(Packets)]
      /\ free_packets \in Nat
      /\ reader = "read"
  BY DEF ReaderReadPacket, PacketInv, BaseInv, TypeOK
<1>2. PICK p \in Packets : p = Head(inbound)
  BY <1>1
<1>3. PICK s \in RequestIds : s = p.id
  BY <1>2 DEF Packets
<1>4. UNCHANGED <<current_read_packet, current_write_packet, writer, writing, caller,
                  writer_queue>>
  BY DEF ReaderReadPacket, writerVars, callerVars
<1>5. CASE s \in active_request_streams
  <2>1. /\ reader_queue' = [reader_queue EXCEPT ![s] = Append(@, p)]
        /\ reader' = "acquire"
        /\ free_packets' = free_packets
    BY <1>2, <1>3, <1>5 DEF ReaderReadPacket
  <2>2. /\ reader_queue'[s] = Append(reader_queue[s], p)
        /\ \A r \in RequestIds \ {s} : reader_queue'[r] = reader_queue[r]
    BY <1>1, <2>1
  <2>3. Len(reader_queue'[s]) = Len(reader_queue[s]) + 1 /\ Len(reader_queue[s]) \in Nat
    BY <1>1, <2>2
  <2>4. HeldPackets(s)' = HeldPackets(s) + 1
    <3>1. PICK n \in Nat, w \in {0, 1}, r \in {0, 1} :
               /\ HeldPackets(s) = n + w + r
               /\ n = Len(reader_queue[s])
               /\ w = 0 <=> current_write_packet[s] = "none"
               /\ r = 0 <=> current_read_packet[s] = NULL
      BY HeldOf DEF PacketInv, BaseInv
    <3>2. PICK m \in Nat, v \in {0, 1}, q \in {0, 1} :
               /\ HeldPackets(s)' = m + v + q
               /\ m = Len(reader_queue'[s])
               /\ v = 0 <=> current_write_packet'[s] = "none"
               /\ q = 0 <=> current_read_packet'[s] = NULL
      BY HeldOfNext DEF BaseInv
    <3>3. m = n + 1 /\ q = r /\ v = w
      BY <1>4, <2>3, <3>1, <3>2
    <3>4. QED
      BY <3>1, <3>2, <3>3
  <2>5. ReaderPackets = 1 /\ ReaderPackets' = 0 /\ HeldPackets(s) \in Nat
    BY <1>1, <2>1, HeldPacketsType DEF ReaderPackets, PacketInv, BaseInv
  <2>6. free_packets' + HeldPackets(s)' + ReaderPackets' =
          free_packets + HeldPackets(s) + ReaderPackets
    BY <1>1, <2>1, <2>4, <2>5
  <2>7. PacketsConserved'
    BY <1>4, <2>2, <2>6, StreamAndPoolBalance
  <2>8. QED
    BY <1>4, <2>7 DEF PacketInv, WriteHolders
<1>6. CASE s \notin active_request_streams
  <2>1. reader' = "stop_all" /\ free_packets' = free_packets + 1 /\ UNCHANGED reader_queue
    BY <1>2, <1>3, <1>6 DEF ReaderReadPacket
  <2>2. QED
    BY <1>1, <1>4, <2>1, ReaderPacketFreed DEF streamVars
<1>7. QED
  BY <1>5, <1>6

LEMMA ReaderFailsPackets ==
    ASSUME PacketInv, BaseInv', ReaderFails
    PROVE  WriteHolders' /\ PacketsConserved'
<1>1. /\ reader = "read" /\ reader' = "stop_all"
      /\ free_packets' = free_packets + 1
      /\ UNCHANGED <<streamVars, writer, writing, caller, writer_queue>>
  BY DEF ReaderFails, writerVars, callerVars
<1>2. QED
  BY <1>1, ReaderPacketFreed

(***************************************************************************)
(* The loop of stop_all_request_streams takes one packet from the pool for *)
(* each stream it disconnects, the one it waited for included.             *)
(***************************************************************************)
LEMMA DisconnectPackets ==
    ASSUME PacketInv, BaseInv', NEW first \in Nat, NEW captured \in SUBSET RequestIds,
           \A s \in captured : s < first,
           reader \in {"stop_all", "disconnect"},
           DisconnectFrom(first, captured),
           UNCHANGED <<current_read_packet, current_write_packet, writer_queue, writing>>
    PROVE  PacketsConserved'
<1>1. PICK served \in SUBSET ActiveFrom(first) :
          /\ free_packets' = free_packets - Cardinality(captured) - Cardinality(served)
          /\ reader_queue' = [s \in RequestIds |->
               IF s \in served \cup captured
                 THEN Append(reader_queue[s], Packet(s, "END", 0))
                 ELSE reader_queue[s]]
          /\ reader' \in {"wait_streams", "stop_writer", "disconnect"}
  BY DEF DisconnectFrom
<1>2. served \subseteq RequestIds /\ \A s \in served : s >= first
  BY DEF ActiveFrom, PacketInv, BaseInv, TypeOK
<1>3. served \cap captured = {}
  <2>1. ASSUME NEW s \in served, s \in captured PROVE FALSE
    <3>1. s < first /\ s >= first /\ s \in Nat
      BY <1>2, <2>1, RequestIdsFinite
    <3>2. QED
      BY <3>1
  <2>2. QED
    BY <2>1
<1>4. /\ IsFiniteSet(served) /\ IsFiniteSet(captured)
      /\ Cardinality(served) \in Nat /\ Cardinality(captured) \in Nat
  BY <1>2, FS_Subset, FS_CardinalityType, RequestIdsFinite
<1> DEFINE T == served \cup captured
<1>5. T \in SUBSET RequestIds /\ Cardinality(T) = Cardinality(served) + Cardinality(captured)
  <2>1. Cardinality(T) =
          Cardinality(served) + Cardinality(captured) - Cardinality(served \cap captured)
    BY <1>4, FS_Union
  <2>2. Cardinality(served \cap captured) = 0
    BY <1>3, FS_EmptySet
  <2>3. QED
    BY <1>2, <1>4, <2>1, <2>2
<1>6. \A s \in RequestIds : held'[s] = IF s \in T THEN held[s] + 1 ELSE held[s]
  <2> SUFFICES ASSUME NEW s \in RequestIds
               PROVE  held'[s] = IF s \in T THEN held[s] + 1 ELSE held[s]
    OBVIOUS
  <2>1. held[s] = HeldPackets(s) /\ held'[s] = HeldPackets(s)'
    BY DEF held
  <2>2. reader_queue[s] \in Seq(Packets) /\ Len(reader_queue[s]) \in Nat
    BY DEF PacketInv, BaseInv, TypeOK
  <2>3. Len(reader_queue'[s]) =
          IF s \in T THEN Len(reader_queue[s]) + 1 ELSE Len(reader_queue[s])
    <3>1. Packet(s, "END", 0) \in Packets
      BY PacketType, ClientAssumption DEF PacketTypes
    <3>2. Len(Append(reader_queue[s], Packet(s, "END", 0))) = Len(reader_queue[s]) + 1
      BY <2>2, <3>1
    <3>3. QED
      BY <1>1, <3>2
  <2>4. PICK n \in Nat, w \in {0, 1}, r \in {0, 1} :
             /\ HeldPackets(s) = n + w + r
             /\ n = Len(reader_queue[s])
             /\ w = 0 <=> current_write_packet[s] = "none"
             /\ r = 0 <=> current_read_packet[s] = NULL
    BY HeldOf DEF PacketInv, BaseInv
  <2>5. PICK m \in Nat, v \in {0, 1}, q \in {0, 1} :
             /\ HeldPackets(s)' = m + v + q
             /\ m = Len(reader_queue'[s])
             /\ v = 0 <=> current_write_packet'[s] = "none"
             /\ q = 0 <=> current_read_packet'[s] = NULL
    BY HeldOfNext DEF BaseInv
  <2>6. v = w /\ q = r
    BY <2>4, <2>5
  <2> HIDE DEF T
  <2>7. m = IF s \in T THEN n + 1 ELSE n
    BY <2>3, <2>4, <2>5
  <2>8. QED
    BY <2>1, <2>4, <2>5, <2>6, <2>7
<1>7. held \in [RequestIds -> Nat] /\ held' \in [RequestIds -> Nat]
  BY HeldTypes, HeldTypesNext DEF PacketInv, BaseInv
<1> HIDE DEF T
<1>8. Cardinality(StreamPackets') = Cardinality(StreamPackets) + Cardinality(T)
  <2>1. \A h, g \in [RequestIds -> Nat] : \A U \in SUBSET RequestIds :
          (\A s \in RequestIds : g[s] = IF s \in U THEN h[s] + 1 ELSE h[s]) =>
            Cardinality(Places(RequestIds, g)) =
              Cardinality(Places(RequestIds, h)) + Cardinality(U)
    BY PlacesManyGrow, RequestIdsFinite
  <2>2. Cardinality(Places(RequestIds, held')) =
          Cardinality(Places(RequestIds, held)) + Cardinality(T)
    BY <1>5, <1>6, <1>7, <2>1
  <2>3. QED
    BY <2>2, StreamPacketsPlaces, StreamPacketsPlacesNext
<1>9. /\ QueuedPackets' = QueuedPackets /\ WriterPackets' = WriterPackets
      /\ ReaderPackets = 0 /\ ReaderPackets' = 0
  BY <1>1 DEF QueuedPackets, WriterPackets, ReaderPackets
<1>10. free_packets' + Cardinality(StreamPackets') + Cardinality(QueuedPackets')
         + ReaderPackets' + WriterPackets' =
       free_packets + Cardinality(StreamPackets) + Cardinality(QueuedPackets)
         + ReaderPackets + WriterPackets
  <2>1. free_packets' = free_packets - Cardinality(captured) - Cardinality(served)
    BY <1>1
  <2>2. QED
    BY <1>4, <1>5, <1>8, <1>9, <2>1, CountTypes DEF PacketInv
<1>11. QED
  BY <1>10, Balance

LEMMA StopAllPackets ==
    ASSUME PacketInv, BaseInv', StopAllRequestStreams
    PROVE  WriteHolders' /\ PacketsConserved'
<1>1. /\ UNCHANGED <<current_read_packet, current_write_packet, writer_queue, writing,
                     writer, caller>>
  BY DEF StopAllRequestStreams, writerVars, callerVars
<1>2. WriteHolders'
  BY <1>1 DEF PacketInv, WriteHolders
<1>3. CASE reader = "stop_all" /\ DisconnectFrom(0, {})
  BY <1>1, <1>2, <1>3, DisconnectPackets
<1>4. CASE reader = "disconnect" /\ DisconnectFrom(disconnecting + 1, {disconnecting})
  <2>1. disconnecting \in RequestIds /\ disconnecting \in Nat
    BY RequestIdsFinite DEF PacketInv, BaseInv, TypeOK
  <2>2. /\ disconnecting + 1 \in Nat /\ {disconnecting} \in SUBSET RequestIds
        /\ \A s \in {disconnecting} : s < disconnecting + 1
    BY <2>1
  <2>3. QED
    BY <1>1, <1>2, <1>4, <2>2, DisconnectPackets
<1>5. QED
  BY <1>3, <1>4 DEF StopAllRequestStreams

LEMMA StopStreamWriterPackets ==
    ASSUME PacketInv, BaseInv', StopStreamWriter
    PROVE  WriteHolders' /\ PacketsConserved'
<1>1. /\ reader \in {"wait_streams", "stop_writer"} /\ reader' = "wait_writer"
      /\ writer_queue' = Append(writer_queue, NULL)
      /\ UNCHANGED <<streamVars, writer, writing, caller, free_packets>>
  BY DEF StopStreamWriter, writerVars, callerVars
<1>2. WriteHolders'
  BY <1>1 DEF PacketInv, WriteHolders, streamVars
<1>3. Cardinality(QueuedPackets') = Cardinality(QueuedPackets)
  <2>1. Cardinality(QueuedPackets') = Cardinality(QueuedPackets) + 0
    BY <1>1, PacketQueued DEF PacketInv
  <2>2. QED
    BY <2>1, CountTypes DEF PacketInv
<1>4. /\ StreamPackets' = StreamPackets
      /\ WriterPackets' = WriterPackets
      /\ ReaderPackets' = ReaderPackets
  BY <1>1, NoStreamChanges DEF WriterPackets, ReaderPackets
<1>5. QED
  BY <1>1, <1>2, <1>3, <1>4 DEF PacketInv, PacketsConserved

LEMMA ConnectionPackets ==
    ASSUME PacketInv, BaseInv', ProcessStream \/ ProcessStreamReturns
    PROVE  WriteHolders' /\ PacketsConserved'
<1>1. /\ UNCHANGED <<reader_queue, current_read_packet, current_write_packet,
                     writer_queue, free_packets, writing, caller>>
      /\ reader # "read" /\ reader' # "read"
      /\ writer' = writer \/ writer' = "get"
  BY DEF ProcessStream, ProcessStreamReturns, streamVars, callerVars
<1>2. writing' = NULL \/ writer' = "write"
  <2>1. CASE ProcessStream
    <3>1. writer # "write"
      BY <2>1 DEF ProcessStream, PacketInv, WriterRuns
    <3>2. QED
      BY <1>1, <3>1 DEF PacketInv, WriteHolders
  <2>2. CASE ProcessStreamReturns
    BY <1>1, <2>2 DEF PacketInv, WriteHolders, ProcessStreamReturns
  <2>3. QED
    BY <2>1, <2>2
<1>3. ReaderPackets' = ReaderPackets
  BY <1>1 DEF ReaderPackets
<1>4. QED
  BY <1>1, <1>2, <1>3, PacketsStay DEF PacketInv, WriteHolders

-----------------------------------------------------------------------------
(***************************************************************************)
(* The writer fiber moves packets                                          *)
(***************************************************************************)

LEMMA WriterGetPackets ==
    ASSUME PacketInv, BaseInv', WriterGetPacket
    PROVE  WriteHolders' /\ PacketsConserved'
<1>1. /\ writer = "get"
      /\ writer_queue # <<>>
      /\ writer_queue' = Tail(writer_queue)
      /\ writing' = Head(writer_queue)
      /\ Head(writer_queue) # NULL => writer' = "write"
      /\ UNCHANGED <<streamVars, reader, caller, free_packets>>
  BY DEF WriterGetPacket, readerVars, callerVars
<1>2. writing = NULL
  BY <1>1 DEF PacketInv, WriteHolders
<1>3. WriteHolders'
  BY <1>1 DEF PacketInv, WriteHolders, streamVars
<1>4. /\ StreamPackets' = StreamPackets
      /\ ReaderPackets' = ReaderPackets
      /\ WriterPackets = 0
      /\ WriterPackets' = IF Head(writer_queue) = NULL THEN 0 ELSE 1
  BY <1>1, <1>2, NoStreamChanges DEF WriterPackets, ReaderPackets
<1>5. Cardinality(QueuedPackets) = Cardinality(QueuedPackets') + WriterPackets'
  BY <1>1, <1>4, PacketDequeued DEF PacketInv
<1>6. free_packets' + Cardinality(StreamPackets') + Cardinality(QueuedPackets')
        + ReaderPackets' + WriterPackets' =
      free_packets + Cardinality(StreamPackets) + Cardinality(QueuedPackets)
        + ReaderPackets + WriterPackets
  <2>1. WriterPackets = 0
    BY <1>4
  <2>2. QED
    BY <1>1, <1>4, <1>5, <2>1, CountTypes DEF PacketInv
<1>7. QED
  BY <1>3, <1>6, Balance

LEMMA WriterWritePackets ==
    ASSUME PacketInv, BaseInv', WriterWritePacket
    PROVE  WriteHolders' /\ PacketsConserved'
<1>1. /\ writer = "write"
      /\ free_packets' = free_packets + 1
      /\ writing' = NULL
      /\ UNCHANGED <<streamVars, reader, caller, writer_queue>>
  BY DEF WriterWritePacket, readerVars, callerVars
<1>2. writing # NULL
  BY <1>1, NullIsNoPacket DEF PacketInv, BaseInv, HoldersHold
<1>3. WriteHolders'
  BY <1>1 DEF PacketInv, WriteHolders, streamVars
<1>4. /\ StreamPackets' = StreamPackets
      /\ ReaderPackets' = ReaderPackets
      /\ QueuedPackets' = QueuedPackets
      /\ WriterPackets = 1 /\ WriterPackets' = 0
  BY <1>1, <1>2, NoStreamChanges DEF WriterPackets, ReaderPackets, QueuedPackets
<1>5. free_packets' + Cardinality(StreamPackets') + Cardinality(QueuedPackets')
        + ReaderPackets' + WriterPackets' =
      free_packets + Cardinality(StreamPackets) + Cardinality(QueuedPackets)
        + ReaderPackets + WriterPackets
  BY <1>1, <1>4, CountTypes DEF PacketInv
<1>6. QED
  BY <1>3, <1>5, Balance

LEMMA WriterFlushPackets ==
    ASSUME PacketInv, BaseInv', WriterFlush
    PROVE  WriteHolders' /\ PacketsConserved'
<1>1. /\ writer = "flush" /\ writing' = writing
      /\ UNCHANGED <<streamVars, reader, caller, writer_queue, free_packets>>
  BY DEF WriterFlush, readerVars, callerVars
<1>2. writing = NULL
  BY <1>1 DEF PacketInv, WriteHolders
<1>3. WriteHolders'
  BY <1>1, <1>2 DEF PacketInv, WriteHolders, streamVars
<1>4. ReaderPackets' = ReaderPackets
  BY <1>1 DEF ReaderPackets
<1>5. QED
  BY <1>1, <1>3, <1>4, PacketsStay DEF streamVars

LEMMA WriterSkipPackets ==
    ASSUME PacketInv, BaseInv', WriterSkipPacket
    PROVE  WriteHolders' /\ PacketsConserved'
<1>1. /\ writer = "skip"
      /\ writer_queue # <<>>
      /\ writer_queue' = Tail(writer_queue)
      /\ UNCHANGED <<streamVars, reader, caller, writing>>
  BY DEF WriterSkipPacket, readerVars, callerVars
<1> DEFINE a == IF Head(writer_queue) = NULL THEN 0 ELSE 1
<1>2. a \in Nat /\ free_packets' = free_packets + a
  <2>1. free_packets \in Nat
    BY DEF PacketInv, BaseInv, TypeOK
  <2>2. QED
    BY <2>1 DEF WriterSkipPacket
<1>3. writing = NULL
  BY <1>1 DEF PacketInv, WriteHolders
<1>4. WriteHolders'
  BY <1>1, <1>3 DEF PacketInv, WriteHolders, streamVars
<1>5. /\ StreamPackets' = StreamPackets
      /\ ReaderPackets' = ReaderPackets
      /\ WriterPackets' = WriterPackets
  BY <1>1, NoStreamChanges DEF WriterPackets, ReaderPackets
<1>6. Cardinality(QueuedPackets) = Cardinality(QueuedPackets') + a
  BY <1>1, PacketDequeued DEF PacketInv
<1> HIDE DEF a
<1>7. free_packets' + Cardinality(StreamPackets') + Cardinality(QueuedPackets')
        + ReaderPackets' + WriterPackets' =
      free_packets + Cardinality(StreamPackets) + Cardinality(QueuedPackets)
        + ReaderPackets + WriterPackets
  BY <1>2, <1>5, <1>6, CountTypes DEF PacketInv
<1>8. QED
  BY <1>4, <1>7, Balance

-----------------------------------------------------------------------------

LEMMA InitPackets == Init => PacketInv
<1> SUFFICES ASSUME Init PROVE PacketInv
  OBVIOUS
<1>1. BaseInv
  BY InitBase
<1>2. WriteHolders
  BY DEF Init, WriteHolders
<1>3. Cardinality(StreamPackets) = 0
  <2>1. \A s \in RequestIds : held[s] = 0
    <3>1. ASSUME NEW s \in RequestIds PROVE held[s] = 0
      <4>1. /\ Len(reader_queue[s]) = 0 /\ current_write_packet[s] = "none"
            /\ current_read_packet[s] = NULL
        BY DEF Init
      <4>2. HeldPackets(s) = 0
        BY <4>1 DEF HeldPackets
      <4>3. QED
        BY <4>2 DEF held
    <3>2. QED
      BY <3>1
  <2>2. held \in [RequestIds -> Nat]
    BY <1>1, HeldTypes DEF BaseInv
  <2>3. QED
    BY <2>1, <2>2, PlacesNone, StreamPacketsPlaces
<1>4. Cardinality(QueuedPackets) = 0
  <2>1. QueuedPackets = {}
    BY DEF Init, QueuedPackets
  <2>2. QED
    BY <2>1, FS_EmptySet
<1>5. ReaderPackets = 0 /\ WriterPackets = 0 /\ free_packets = MaxPackets
  BY DEF Init, ReaderPackets, WriterPackets
<1>6. PacketsConserved
  BY <1>3, <1>4, <1>5, ClientAssumption DEF PacketsConserved
<1>7. WriterRuns
  BY DEF Init, WriterRuns
<1>8. QED
  BY <1>1, <1>2, <1>6, <1>7 DEF PacketInv

LEMMA StepWriterRuns ==
    ASSUME BaseInv, WriterRuns, [Next]_vars
    PROVE  WriterRuns'
<1>1. ASSUME UNCHANGED <<writer, writer_stop_event>>, reader = "idle" <=> reader' = "idle"
      PROVE  WriterRuns'
  BY <1>1 DEF WriterRuns
<1>2. CASE ProcessStream
  BY <1>2 DEF ProcessStream, WriterRuns
<1>3. CASE ProcessStreamReturns
  BY <1>3 DEF ProcessStreamReturns, WriterRuns
<1>4. CASE WriterGetPacket \/ WriterSkipPacket
  <2>1. /\ writer # "none" /\ reader' = reader
        /\ \/ writer' = "none" /\ writer_stop_event' = TRUE
           \/ writer' # "none" /\ writer_stop_event' = writer_stop_event
    BY <1>4 DEF WriterGetPacket, WriterSkipPacket, readerVars
  <2>2. QED
    BY <2>1 DEF WriterRuns
<1>5. CASE WriterWritePacket \/ WriterFlush
  <2>1. /\ writer # "none" /\ reader' = reader
        /\ writer' # "none" /\ writer_stop_event' = writer_stop_event
    BY <1>5 DEF WriterWritePacket, WriterFlush, AfterWrite, readerVars
  <2>2. QED
    BY <2>1 DEF WriterRuns
<1>6. CASE \/ ReaderAcquirePacket \/ ReaderReadPacket \/ ReaderFails
           \/ StopAllRequestStreams \/ StopStreamWriter
  <2>1. /\ UNCHANGED <<writer, writer_stop_event>>
        /\ reader # "idle" /\ reader' # "idle"
    BY <1>6 DEF ReaderAcquirePacket, ReaderReadPacket, ReaderFails, StopAllRequestStreams,
       DisconnectFrom, StopStreamWriter, writerVars
  <2>2. QED
    BY <1>1, <2>1
<1>7. ASSUME NEW c \in Callers, CallerStep(c) PROVE WriterRuns'
  <2>1. UNCHANGED <<reader, writer, writer_stop_event>>
    BY <1>7 DEF CallerStep, CreateRequestStream, GetPooledStream, GetWritePacket, WritePacket,
       Flush, QueueWritePacket, ReadPacket, CallSucceeds, CallFails, ReadTimeout,
       readerVars, writerVars
  <2>2. QED
    BY <1>1, <2>1
<1>8. CASE ServerStep \/ LinkBreaks \/ StopRequested \/ UNCHANGED vars
  <2>1. UNCHANGED <<reader, writer, writer_stop_event>>
    BY <1>8 DEF ServerStep, ServerReceives, ServerSends, ServerSendsGarbage, LinkBreaks,
       StopRequested, vars, readerVars, writerVars
  <2>2. QED
    BY <1>1, <2>1
<1>9. QED
  BY <1>2, <1>3, <1>4, <1>5, <1>6, <1>7, <1>8 DEF Next, ReaderStep, WriterStep, Terminated

LEMMA StepPackets ==
    ASSUME PacketInv, [Next]_vars
    PROVE  PacketInv'
<1>0. BaseInv'
  BY StepBase DEF PacketInv
<1>1. ASSUME NEW c \in Callers, CallerStep(c) PROVE WriteHolders' /\ PacketsConserved'
  BY <1>0, <1>1, CreatePackets, GetWritePacketPackets, WritePackets, ReadPacketPackets,
     CallEndsPackets DEF CallerStep
<1>2. ASSUME ReaderStep PROVE WriteHolders' /\ PacketsConserved'
  BY <1>0, <1>2, ConnectionPackets, ReaderPacketTaken, ReaderReadPackets, ReaderFailsPackets,
     StopAllPackets, StopStreamWriterPackets DEF ReaderStep
<1>3. ASSUME WriterStep PROVE WriteHolders' /\ PacketsConserved'
  BY <1>0, <1>3, WriterGetPackets, WriterWritePackets, WriterFlushPackets, WriterSkipPackets
     DEF WriterStep
<1>4. ASSUME ServerStep \/ LinkBreaks \/ StopRequested \/ UNCHANGED vars PROVE WriteHolders' /\ PacketsConserved'
  <2>1. /\ UNCHANGED <<reader_queue, current_read_packet, current_write_packet,
                       writer_queue, free_packets, writing>>
        /\ UNCHANGED <<reader, writer, caller>>
    BY <1>4 DEF ServerStep, ServerReceives, ServerSends, ServerSendsGarbage, LinkBreaks,
       StopRequested, vars, streamVars, readerVars, writerVars, callerVars
  <2>2. ReaderPackets' = ReaderPackets
    BY <2>1 DEF ReaderPackets
  <2>3. WriteHolders'
    BY <2>1 DEF PacketInv, WriteHolders
  <2>4. QED
    BY <1>0, <2>1, <2>2, <2>3, PacketsStay
<1>5. WriteHolders' /\ PacketsConserved'
  BY <1>1, <1>2, <1>3, <1>4 DEF Next, Terminated
<1>6. WriterRuns'
  BY StepWriterRuns DEF PacketInv
<1>7. QED
  BY <1>0, <1>5, <1>6 DEF PacketInv

\* The pool of packets neither loses nor invents one: whatever the callers, the
\* reader fiber and the writer fiber do, through errors, timeouts, stops and
\* restarts, each of the MAX_PACKETS_CNT packets is free, queued or held once.
THEOREM PacketsKept == Spec => []PacketsConserved
<1>1. PacketInv => PacketsConserved
  BY DEF PacketInv
<1>2. QED
  BY <1>1, InitPackets, StepPackets, PTL DEF Spec

-----------------------------------------------------------------------------
(***************************************************************************)
(* The write buffer                                                        *)
(***************************************************************************)

LEMMA StepUnflushed ==
    ASSUME BaseInv, NothingLeftUnflushed, [Next]_vars
    PROVE  NothingLeftUnflushed'
<1>0. writer_queue \in Seq(Packets \cup {NULL})
  BY DEF BaseInv, TypeOK
<1>1. ASSUME NEW p \in Packets \cup {NULL} PROVE Append(writer_queue, p) # <<>>
  <2>1. Len(Append(writer_queue, p)) = Len(writer_queue) + 1 /\ Len(writer_queue) \in Nat
    BY <1>0
  <2>2. Len(<<>>) = 0
    OBVIOUS
  <2>3. QED
    BY <2>1, <2>2
<1>2. ASSUME UNCHANGED <<writer, unflushed>>,
             writer_queue' = writer_queue \/ writer_queue' # <<>>
      PROVE  NothingLeftUnflushed'
  BY <1>2 DEF NothingLeftUnflushed
<1>3. CASE WriterStep
  <2>1. CASE WriterGetPacket \/ WriterSkipPacket
    BY <2>1 DEF WriterGetPacket, WriterSkipPacket, NothingLeftUnflushed
  <2>2. CASE WriterWritePacket
    BY <2>2 DEF WriterWritePacket, AfterWrite, NothingLeftUnflushed
  <2>3. CASE WriterFlush
    BY <2>3 DEF WriterFlush, NothingLeftUnflushed
  <2>4. QED
    BY <1>3, <2>1, <2>2, <2>3 DEF WriterStep
<1>4. CASE ProcessStream
  BY <1>4 DEF ProcessStream, NothingLeftUnflushed
<1>5. CASE StopStreamWriter
  <2>1. UNCHANGED <<writer, unflushed>> /\ writer_queue' = Append(writer_queue, NULL)
    BY <1>5 DEF StopStreamWriter, writerVars
  <2>2. QED
    BY <1>1, <1>2, <2>1
<1>6. CASE \/ ReaderAcquirePacket \/ ReaderReadPacket \/ ReaderFails
           \/ StopAllRequestStreams \/ ProcessStreamReturns
  <2>1. UNCHANGED <<writer, unflushed, writer_queue>>
    BY <1>6 DEF ReaderAcquirePacket, ReaderReadPacket, ReaderFails, StopAllRequestStreams,
       ProcessStreamReturns, writerVars
  <2>2. QED
    BY <1>2, <2>1
<1>7. ASSUME NEW c \in Callers, CallerStep(c) PROVE NothingLeftUnflushed'
  <2>1. CASE WritePacket(c) \/ Flush(c)
    <3>1. /\ UNCHANGED <<writer, unflushed>>
          /\ \E t \in PacketTypes :
               writer_queue' = Append(writer_queue, Packet(caller[c].stream, t, caller[c].call))
      <4>1. current_write_packet[caller[c].stream] \in {"START", "MIDDLE"}
        BY <2>1 DEF WritePacket, Flush, BaseInv, HoldersHold
      <4>2. QED
        BY <2>1, <4>1 DEF WritePacket, Flush, QueueWritePacket, writerVars, PacketTypes
    <3>2. caller[c].stream \in RequestIds /\ caller[c].call \in 0 .. MaxCalls
      BY DEF BaseInv, TypeOK, CallerRecords
    <3>3. writer_queue' # <<>>
      BY <1>1, <3>1, <3>2, PacketType
    <3>4. QED
      BY <1>2, <3>1, <3>3
  <2>2. CASE \/ CreateRequestStream(c) \/ GetPooledStream(c) \/ GetWritePacket(c)
             \/ ReadPacket(c) \/ CallSucceeds(c) \/ CallFails(c) \/ ReadTimeout(c)
    <3>1. UNCHANGED <<writer, unflushed, writer_queue>>
      BY <2>2 DEF CreateRequestStream, GetPooledStream, GetWritePacket, ReadPacket,
         CallSucceeds, CallFails, ReadTimeout, writerVars
    <3>2. QED
      BY <1>2, <3>1
  <2>3. QED
    BY <1>7, <2>1, <2>2 DEF CallerStep
<1>8. CASE ServerStep \/ LinkBreaks \/ StopRequested \/ UNCHANGED vars
  <2>1. UNCHANGED <<writer, unflushed, writer_queue>>
    BY <1>8 DEF ServerStep, ServerReceives, ServerSends, ServerSendsGarbage, LinkBreaks,
       StopRequested, vars, writerVars
  <2>2. QED
    BY <1>2, <2>1
<1>9. QED
  BY <1>3, <1>4, <1>5, <1>6, <1>7, <1>8 DEF Next, ReaderStep, Terminated

\* The writer fiber never waits for a packet while requests sit in the buffer of
\* the connection: the deadlock that the comment in stream_writer_func warns of
\* (the server waits for a request that is not sent, the client for its answer).
THEOREM RequestsAreFlushed == Spec => []NothingLeftUnflushed
<1>1. Init => NothingLeftUnflushed
  BY DEF Init, NothingLeftUnflushed
<1>2. QED
  BY <1>1, InitBase, StepBase, StepUnflushed, PTL DEF Spec

-----------------------------------------------------------------------------
(***************************************************************************)
(* What a call leaves in a stream that goes back to the pool: nothing.     *)
(* stop_all_request_streams looks a stream up, waits for a packet and then *)
(* uses the stream: if the stream has been given back meanwhile, the END   *)
(* packet goes into the queue of a pooled stream.  No other packet can get *)
(* there.                                                                  *)
(***************************************************************************)

\* the packets a step may leave in a pooled stream
OnlyEnds(s, q) == Range(q) \subseteq {Packet(s, "END", 0)}

LEMMA OnlyEndsEmpty == \A s : OnlyEnds(s, <<>>)
BY DEF OnlyEnds, Range

LEMMA OnlyEndsAppend ==
    ASSUME NEW s, NEW q \in Seq(Packets), OnlyEnds(s, q),
           Packet(s, "END", 0) \in Packets
    PROVE  OnlyEnds(s, Append(q, Packet(s, "END", 0)))
<1> DEFINE p == Packet(s, "END", 0)
           r == Append(q, p)
<1>1. /\ Len(q) \in Nat /\ DOMAIN q = 1 .. Len(q) /\ DOMAIN r = 1 .. Len(q) + 1
      /\ r[Len(q) + 1] = p /\ \A i \in 1 .. Len(q) : r[i] = q[i]
  OBVIOUS
<1>2. \A i \in 1 .. Len(q) : q[i] = p
  BY <1>1 DEF OnlyEnds, Range
<1>3. \A i \in 1 .. Len(q) + 1 : r[i] = p
  <2> HIDE DEF p, r
  <2>1. \A i \in 1 .. Len(q) + 1 : i \in 1 .. Len(q) \/ i = Len(q) + 1
    BY <1>1
  <2>2. QED
    BY <1>1, <1>2, <2>1
<1> HIDE DEF p, r
<1>4. Range(r) \subseteq {p}
  BY <1>1, <1>3 DEF Range
<1>5. QED
  BY <1>4 DEF OnlyEnds, p, r

\* A step that touches the packets of active streams only, but for the END packet
\* of a late disconnect, and takes no stream back.
LEMMA NoDataStays ==
    ASSUME BaseInv, PooledStreamsHoldNoData,
           active_request_streams \subseteq active_request_streams',
           \A s \in RequestIds \ active_request_streams :
              /\ reader_queue'[s] \in {reader_queue[s],
                                       Append(reader_queue[s], Packet(s, "END", 0))}
              /\ current_read_packet'[s] = current_read_packet[s]
              /\ current_write_packet'[s] = current_write_packet[s]
    PROVE  PooledStreamsHoldNoData'
<1> SUFFICES ASSUME NEW s \in RequestIds, s \notin active_request_streams
             PROVE  /\ OnlyEnds(s, reader_queue'[s])
                    /\ current_read_packet'[s] = NULL
                    /\ current_write_packet'[s] = "none"
  BY DEF PooledStreamsHoldNoData, OnlyEnds
<1>1. /\ OnlyEnds(s, reader_queue[s])
      /\ current_read_packet[s] = NULL
      /\ current_write_packet[s] = "none"
  BY DEF PooledStreamsHoldNoData, OnlyEnds
<1>2. reader_queue[s] \in Seq(Packets) /\ Packet(s, "END", 0) \in Packets
  BY PacketType, ClientAssumption DEF BaseInv, TypeOK, PacketTypes
<1>3. OnlyEnds(s, Append(reader_queue[s], Packet(s, "END", 0)))
  BY <1>1, <1>2, OnlyEndsAppend
<1>4. QED
  BY <1>1, <1>3

LEMMA DisconnectAppends ==
    ASSUME NEW first, NEW captured, DisconnectFrom(first, captured)
    PROVE  \A s \in RequestIds :
              reader_queue'[s] \in {reader_queue[s],
                                   Append(reader_queue[s], Packet(s, "END", 0))}
<1>1. PICK served \in SUBSET ActiveFrom(first) :
          reader_queue' = [s \in RequestIds |->
               IF s \in served \cup captured
                 THEN Append(reader_queue[s], Packet(s, "END", 0))
                 ELSE reader_queue[s]]
  BY DEF DisconnectFrom
<1>2. QED
  BY <1>1

LEMMA StepNoData ==
    ASSUME BaseInv, PooledStreamsHoldNoData, [Next]_vars
    PROVE  PooledStreamsHoldNoData'
<1>0. /\ caller \in [Callers -> CallerRecords]
      /\ reader_queue \in [RequestIds -> Seq(Packets)]
      /\ current_read_packet \in [RequestIds -> Packets \cup {NULL}]
      /\ current_write_packet \in [RequestIds -> {"none", "START", "MIDDLE", "END"}]
  BY DEF BaseInv, TypeOK
<1>1. ASSUME NEW c \in Callers, CallerStep(c) PROVE PooledStreamsHoldNoData'
  <2>1. CASE CreateRequestStream(c) \/ GetPooledStream(c)
    <3>1. /\ UNCHANGED <<reader_queue, current_read_packet, current_write_packet>>
          /\ active_request_streams \subseteq active_request_streams'
      BY <2>1 DEF CreateRequestStream, GetPooledStream, AcquireRequestStream, streamVars, poolVars
    <3>2. QED
      BY <3>1, NoDataStays
  <2>2. CASE HasStream(c)
    <3>0. PICK s \in RequestIds : s = caller[c].stream
      BY <1>0 DEF CallerRecords
    <3>1. s \in active_request_streams
      BY <2>2, <3>0 DEF BaseInv, StreamsHeldOnce
    <3>2. CASE GetWritePacket(c) \/ WritePacket(c) \/ Flush(c) \/ ReadPacket(c)
      <4>1. active_request_streams' = active_request_streams
        BY <3>2 DEF GetWritePacket, WritePacket, Flush, QueueWritePacket, ReadPacket, poolVars
      <4>2. CASE GetWritePacket(c) \/ WritePacket(c) \/ Flush(c)
        <5>1. /\ UNCHANGED <<reader_queue, current_read_packet>>
              /\ \E t : current_write_packet' = [current_write_packet EXCEPT ![s] = t]
          BY <3>0, <4>2 DEF GetWritePacket, WritePacket, Flush, QueueWritePacket
        <5>2. \A r \in RequestIds \ {s} : current_write_packet'[r] = current_write_packet[r]
          BY <1>0, <5>1
        <5>3. QED
          BY <3>1, <4>1, <5>1, <5>2, NoDataStays
      <4>3. CASE ReadPacket(c)
        <5>1. /\ current_write_packet' = current_write_packet
              /\ reader_queue' = [reader_queue EXCEPT ![s] = Tail(@)]
              /\ current_read_packet' = [current_read_packet EXCEPT ![s] = NextPacket(c)]
          BY <3>0, <4>3 DEF ReadPacket
        <5>2. \A r \in RequestIds \ {s} : /\ reader_queue'[r] = reader_queue[r]
                                          /\ current_read_packet'[r] = current_read_packet[r]
          BY <1>0, <5>1
        <5>3. QED
          BY <3>1, <4>1, <5>1, <5>2, NoDataStays
      <4>4. QED
        BY <3>2, <4>2, <4>3
    <3>3. CASE CallSucceeds(c) \/ CallFails(c) \/ ReadTimeout(c)
      <4>1. /\ current_write_packet' = [current_write_packet EXCEPT ![s] = "none"]
            /\ current_read_packet' = [current_read_packet EXCEPT ![s] = NULL]
            /\ reader_queue' = [reader_queue EXCEPT ![s] = <<>>]
            /\ active_request_streams' = active_request_streams \ {s}
        BY <3>0, <3>3 DEF CallSucceeds, CallFails, ReadTimeout, ReleaseRequestStream, ShutdownStream
      <4>2. /\ reader_queue'[s] = <<>>
            /\ current_read_packet'[s] = NULL
            /\ current_write_packet'[s] = "none"
            /\ \A r \in RequestIds \ {s} :
                 /\ reader_queue'[r] = reader_queue[r]
                 /\ current_read_packet'[r] = current_read_packet[r]
                 /\ current_write_packet'[r] = current_write_packet[r]
        BY <1>0, <4>1
      <4>3. QED
        BY <4>1, <4>2, OnlyEndsEmpty DEF PooledStreamsHoldNoData, OnlyEnds
    <3>4. QED
      BY <1>1, <2>1, <3>2, <3>3 DEF CallerStep
  <2>3. CreateRequestStream(c) \/ GetPooledStream(c) \/ HasStream(c)
    BY <1>1 DEF CallerStep, GetWritePacket, WritePacket, Flush, ReadPacket, CallSucceeds,
       CallFails, ReadTimeout, CanRead, HasStream
  <2>4. QED
    BY <2>1, <2>2, <2>3
<1>2. CASE StopAllRequestStreams
  <2>1. /\ UNCHANGED <<active_request_streams, current_read_packet, current_write_packet>>
        /\ \E first, captured : DisconnectFrom(first, captured)
    BY <1>2 DEF StopAllRequestStreams, poolVars
  <2>2. \A s \in RequestIds :
          reader_queue'[s] \in {reader_queue[s],
                               Append(reader_queue[s], Packet(s, "END", 0))}
    BY <2>1, DisconnectAppends
  <2>3. QED
    BY <2>1, <2>2, NoDataStays
<1>3. CASE ReaderReadPacket
  <2>1. /\ UNCHANGED <<active_request_streams, current_read_packet, current_write_packet>>
        /\ \/ /\ Head(inbound).id \in active_request_streams
              /\ reader_queue' =
                   [reader_queue EXCEPT ![Head(inbound).id] = Append(@, Head(inbound))]
           \/ UNCHANGED reader_queue
    BY <1>3 DEF ReaderReadPacket, poolVars
  <2>2. \A s \in RequestIds \ active_request_streams : reader_queue'[s] = reader_queue[s]
    BY <1>0, <2>1
  <2>3. QED
    BY <2>1, <2>2, NoDataStays
<1>4. CASE \/ ProcessStream \/ ReaderAcquirePacket \/ ReaderFails \/ StopStreamWriter
           \/ ProcessStreamReturns
  <2>1. UNCHANGED <<active_request_streams, reader_queue, current_read_packet,
                    current_write_packet>>
    BY <1>4 DEF ProcessStream, ReaderAcquirePacket, ReaderFails, StopStreamWriter,
       ProcessStreamReturns, streamVars, poolVars
  <2>2. QED
    BY <2>1, NoDataStays
<1>5. CASE WriterStep \/ ServerStep \/ LinkBreaks \/ StopRequested \/ UNCHANGED vars
  <2>1. UNCHANGED <<active_request_streams, reader_queue, current_read_packet,
                    current_write_packet>>
    BY <1>5 DEF WriterStep, WriterGetPacket, WriterWritePacket, WriterFlush, WriterSkipPacket,
       ServerStep, ServerReceives, ServerSends, ServerSendsGarbage, LinkBreaks,
       StopRequested, vars, streamVars, poolVars
  <2>2. QED
    BY <2>1, NoDataStays
<1>6. QED
  BY <1>1, <1>2, <1>3, <1>4, <1>5 DEF Next, ReaderStep, Terminated

\* However a call ends - answered, failed, timed out, in the middle of writing -
\* it leaves no data in its stream for the next call, for any number of callers,
\* streams and packets: mrpc_packet_stream_shutdown gives everything back, and
\* only the END packet of a disconnect that waited too long comes later.
THEOREM PooledNoData == Spec => []PooledStreamsHoldNoData
<1>1. Init => PooledStreamsHoldNoData
  BY OnlyEndsEmpty DEF Init, PooledStreamsHoldNoData, OnlyEnds
<1>2. BaseInv /\ PooledStreamsHoldNoData /\ [Next]_vars => PooledStreamsHoldNoData'
  BY StepNoData
<1>3. Spec => []BaseInv
  BY InitBase, StepBase, PTL DEF Spec
<1>4. QED
  BY <1>1, <1>2, <1>3, PTL DEF Spec

-----------------------------------------------------------------------------
(***************************************************************************)
(* What holds of the client stream processor across connections when there *)
(* are no more callers than request streams: the reader fiber, the writer  *)
(* fiber, the state and the two stop events never disagree; the processor  *)
(* implements StreamProcessorLifecycle; and a packet carries data of       *)
(* nobody but the call that holds its stream.  (With more callers one of   *)
(* them may wait in the pool for a stream while the connection is being    *)
(* stopped and gets one then: NoStreamWhileStopping fails, and what it     *)
(* queues after the NULL packet is left for the next connection.  The      *)
(* hypothesis cannot be dropped.)                                          *)
(***************************************************************************)

FewCallers == IsFiniteSet(Callers) /\ Cardinality(Callers) <= MaxStreams

NobodyWaits == \A c \in Callers : caller[c].pc # "pool"

StopInv == BaseInv /\ FibersAgree /\ NobodyWaits /\ StreamsOfThisConnection

-----------------------------------------------------------------------------
(***************************************************************************)
(* Facts that follow from StopInv                                          *)
(***************************************************************************)

\* While a stream is active the connection is being processed, the writer
\* fiber runs and has not been told to stop.
LEMMA ActiveStream ==
    ASSUME StopInv, NEW c \in Callers, HasStream(c)
    PROVE  /\ caller[c].stream \in active_request_streams
           /\ reader \notin {"idle", "wait_writer"}
           /\ writer # "none"
           /\ request_streams_stop_event = FALSE
           /\ \A i \in 1 .. Len(writer_queue) : writer_queue[i] # NULL
<1>1. caller[c].stream \in active_request_streams
  BY DEF StopInv, BaseInv, StreamsHeldOnce
<1>2. reader \notin {"idle", "wait_writer"}
  BY <1>1 DEF StopInv, FibersAgree
<1>3. writer # "none" /\ \A i \in 1 .. Len(writer_queue) : writer_queue[i] # NULL
  BY <1>2 DEF StopInv, FibersAgree
<1>4. request_streams_stop_event = FALSE
  BY <1>1 DEF StopInv, FibersAgree, BaseInv, TypeOK
<1>5. QED
  BY <1>1, <1>2, <1>3, <1>4

\* Without active streams nobody has one.
LEMMA NoActiveStream ==
    ASSUME StopInv, active_request_streams = {}, NEW c \in Callers
    PROVE  ~HasStream(c)
BY DEF StopInv, BaseInv, StreamsHeldOnce

\* Few callers never use up the pool: one that has no stream finds one.
LEMMA PoolSuffices ==
    ASSUME FewCallers, StopInv, NEW c \in Callers, ~HasStream(c)
    PROVE  active_request_streams # RequestIds
<1> DEFINE H == {d \in Callers : HasStream(d)}
           f == [d \in H |-> caller[d].stream]
<1>1. H \subseteq Callers \ {c}
  OBVIOUS
<1>2. /\ IsFiniteSet(Callers \ {c})
      /\ Cardinality(Callers \ {c}) = Cardinality(Callers) - 1
      /\ Cardinality(Callers) \in Nat
  BY FS_RemoveElement, FS_CardinalityType DEF FewCallers
<1>3. /\ IsFiniteSet(H)
      /\ Cardinality(H) <= Cardinality(Callers \ {c})
      /\ Cardinality(H) \in Nat
  BY <1>1, <1>2, FS_Subset, FS_CardinalityType
<1>4. f \in Surjection(H, active_request_streams)
  <2>1. active_request_streams = {caller[d].stream : d \in H}
    BY DEF StopInv, BaseInv, StreamsHeldOnce
  <2> HIDE DEF H
  <2>2. f \in [H -> active_request_streams]
    BY <2>1
  <2>3. \A s \in active_request_streams : \E d \in H : f[d] = s
    BY <2>1
  <2>4. QED
    BY <2>2, <2>3 DEF Surjection
<1>5. Cardinality(active_request_streams) <= Cardinality(H)
  BY <1>3, <1>4, FS_Surjection
<1>6. Cardinality(active_request_streams) \in Nat
  BY <1>3, <1>4, FS_Surjection, FS_CardinalityType
<1>7. Cardinality(active_request_streams) < MaxStreams
  BY <1>2, <1>3, <1>5, <1>6, ClientAssumption DEF FewCallers
<1>8. QED
  BY <1>6, <1>7, RequestIdsFinite, ClientAssumption

\* Steps that change neither the active streams nor the stop protocol, except
\* that they may initiate the stop.
LEMMA ProtocolAlone ==
    ASSUME StopInv, BaseInv',
           UNCHANGED <<reader, connections, writer_stop_event, writer_queue,
                       active_request_streams, request_streams_stop_event>>,
           state' \in {state, "STOP_INITIATED"},
           writer' = "none" <=> writer = "none",
           \A c \in Callers :
              /\ caller'[c].pc # "pool"
              /\ HasStream(c)' => /\ HasStream(c)
                                  /\ caller'[c].connection = caller[c].connection
    PROVE  StopInv'
<1>1. FibersAgree'
  BY DEF StopInv, FibersAgree
<1>2. NobodyWaits' /\ StreamsOfThisConnection'
  BY DEF StopInv, NobodyWaits, StreamsOfThisConnection
<1>3. QED
  BY <1>1, <1>2 DEF StopInv

\* The same for steps that leave the callers alone as well.
LEMMA ProtocolAndCallersAlone ==
    ASSUME StopInv, BaseInv',
           UNCHANGED <<caller, reader, connections, writer_stop_event, writer_queue,
                       active_request_streams, request_streams_stop_event>>,
           state' \in {state, "STOP_INITIATED"},
           writer' = "none" <=> writer = "none"
    PROVE  StopInv'
<1>1. \A c \in Callers :
        /\ caller'[c].pc # "pool"
        /\ HasStream(c)' => /\ HasStream(c)
                            /\ caller'[c].connection = caller[c].connection
  BY DEF StopInv, NobodyWaits, HasStream
<1>2. QED
  BY <1>1, ProtocolAlone

\* Steps of the reader fiber: the callers and the connection stay.
LEMMA ReaderMoves ==
    ASSUME StopInv, BaseInv', FibersAgree', UNCHANGED <<caller, connections>>,
           reader' = "idle" => active_request_streams = {}
    PROVE  StopInv'
<1>1. NobodyWaits' /\ StreamsOfThisConnection'
  BY NoActiveStream DEF StopInv, NobodyWaits, StreamsOfThisConnection, HasStream
<1>2. QED
  BY <1>1 DEF StopInv

-----------------------------------------------------------------------------
(***************************************************************************)
(* Steps of the callers                                                    *)
(***************************************************************************)

LEMMA CreateRequestStreamStops ==
    ASSUME FewCallers, StopInv, NEW c \in Callers, CreateRequestStream(c)
    PROVE  StopInv'
<1> USE DEF streamVars, readerVars, writerVars, peerVars, stateVars
<1>1. BaseInv'
  BY CreateRequestStreamStep DEF StopInv
<1>2. active_request_streams # RequestIds
  BY PoolSuffices DEF CreateRequestStream, HasStream
<1>3. PICK k \in 1 .. MaxRequestPackets, s \in RequestIds \ active_request_streams :
        /\ AcquireRequestStream(c, s)
        /\ caller' = [caller EXCEPT ![c] =
             [pc |-> "write_first", stream |-> s, call |-> calls + 1,
              left |-> k, connection |-> connections]]
  BY <1>2 DEF CreateRequestStream
<1>4. reader \in {"acquire", "read"}
  BY DEF StopInv, FibersAgree, CreateRequestStream, BaseInv, TypeOK, ReaderStates
<1>5. request_streams_stop_event' = FALSE /\ active_request_streams' # {}
  <2>1. active_request_streams_cnt + 1 = 1 \/ active_request_streams # {}
    <3>1. /\ active_request_streams_cnt = Cardinality(active_request_streams)
          /\ Cardinality({}) = 0
      BY FS_EmptySet DEF StopInv, BaseInv, StreamsHeldOnce
    <3>2. QED
      BY <3>1
  <2>2. active_request_streams # {} => request_streams_stop_event = FALSE
    BY DEF StopInv, FibersAgree, BaseInv, TypeOK
  <2>3. QED
    BY <1>3, <1>4, <2>1, <2>2 DEF AcquireRequestStream
<1>6. FibersAgree'
  BY <1>4, <1>5 DEF StopInv, FibersAgree, CreateRequestStream
<1>7. NobodyWaits' /\ StreamsOfThisConnection'
  <2>1. /\ caller'[c].pc = "write_first" /\ caller'[c].connection = connections
        /\ \A d \in Callers \ {c} : caller'[d] = caller[d]
    BY <1>3 DEF StopInv, BaseInv, TypeOK
  <2>2. connections' = connections /\ reader' = reader
    BY DEF CreateRequestStream
  <2>3. QED
    BY <1>4, <2>1, <2>2 DEF StopInv, NobodyWaits, StreamsOfThisConnection, HasStream
<1>8. QED
  BY <1>1, <1>6, <1>7 DEF StopInv

\* What a caller does between getting and deleting its stream changes, of all
\* that the stop protocol looks at, only the writer queue.
LEMMA GetWritePacketStops ==
    ASSUME StopInv, NEW c \in Callers, GetWritePacket(c)
    PROVE  StopInv'
<1> USE DEF poolVars, readerVars, writerVars, stateVars
<1>1. BaseInv'
  BY GetWritePacketStep DEF StopInv
<1>2. /\ caller \in [Callers -> CallerRecords]
      /\ caller[c].pc \in {"write_first", "write_next", "flush_end"}
      /\ \E p \in {"read", "write"} : caller' = [caller EXCEPT ![c].pc = p]
  BY DEF GetWritePacket, StopInv, BaseInv, TypeOK
<1>3. /\ caller'[c].pc \in {"read", "write"}
      /\ caller'[c].connection = caller[c].connection
      /\ \A d \in Callers \ {c} : caller'[d] = caller[d]
  BY <1>2 DEF CallerRecords
<1>4. \A d \in Callers :
         /\ caller'[d].pc # "pool"
         /\ HasStream(d)' => /\ HasStream(d)
                             /\ caller'[d].connection = caller[d].connection
  BY <1>2, <1>3 DEF HasStream, StopInv, NobodyWaits
<1>5. QED
  BY <1>1, <1>4, ProtocolAlone DEF GetWritePacket

LEMMA QueueWritePacketStops ==
    ASSUME StopInv, BaseInv', NEW c \in Callers, caller[c].pc = "write",
           NEW t \in PacketTypes, NEW u,
           NEW w \in {"write_next", "flush_end"}, NEW next \in {"write", "read"},
           QueueWritePacket(c, t, u, w, next)
    PROVE  StopInv'
<1> USE DEF poolVars, readerVars, writerVars, stateVars
<1> DEFINE p == Packet(caller[c].stream, t, caller[c].call)
<1>1. /\ HasStream(c)
      /\ caller \in [Callers -> CallerRecords]
      /\ writer_queue \in Seq(Packets \cup {NULL})
  BY DEF HasStream, StopInv, BaseInv, TypeOK
<1>2. p \in Packets /\ p # NULL
  <2>1. caller[c].stream \in RequestIds /\ caller[c].call \in 0 .. MaxCalls
    BY <1>1 DEF CallerRecords
  <2>2. QED
    BY <2>1, PacketType, NullIsNoPacket
<1>3. /\ writer_queue' = Append(writer_queue, p)
      /\ UNCHANGED <<stateVars, poolVars, readerVars, writerVars>>
  BY DEF QueueWritePacket
<1>4. /\ active_request_streams # {}
      /\ reader \notin {"idle", "wait_writer"}
      /\ writer # "none"
      /\ \A i \in 1 .. Len(writer_queue) : writer_queue[i] # NULL
  BY <1>1, ActiveStream
<1>5. \A i \in 1 .. Len(writer_queue') : writer_queue'[i] # NULL
  <2> HIDE DEF p
  <2>1. QED
    BY <1>1, <1>2, <1>3, <1>4
<1>6. FibersAgree'
  BY <1>3, <1>4, <1>5 DEF StopInv, FibersAgree
<1>7. /\ caller'[c].pc \in {"write_next", "flush_end", "write", "read"}
      /\ caller'[c].connection = caller[c].connection
      /\ \A d \in Callers \ {c} : caller'[d] = caller[d]
  BY <1>1 DEF QueueWritePacket, CallerRecords
<1>8. NobodyWaits' /\ StreamsOfThisConnection'
  BY <1>1, <1>3, <1>7 DEF StopInv, NobodyWaits, StreamsOfThisConnection, HasStream
<1>9. QED
  BY <1>6, <1>8 DEF StopInv

LEMMA WriteStops ==
    ASSUME StopInv, NEW c \in Callers, WritePacket(c) \/ Flush(c)
    PROVE  StopInv'
<1>1. BaseInv'
  BY WritePacketStep, FlushStep DEF StopInv
<1>2. CASE WritePacket(c)
  <2>1. current_write_packet[caller[c].stream] \in PacketTypes
    BY <1>2 DEF WritePacket, StopInv, BaseInv, HoldersHold, PacketTypes
  <2>2. QED
    BY <1>1, <1>2, <2>1, QueueWritePacketStops DEF WritePacket
<1>3. CASE Flush(c)
  BY <1>1, <1>3, QueueWritePacketStops DEF Flush, PacketTypes
<1>4. QED
  BY <1>2, <1>3

LEMMA CallEndsStops ==
    ASSUME StopInv, NEW c \in Callers,
           CallSucceeds(c) \/ CallFails(c) \/ ReadTimeout(c)
    PROVE  StopInv'
<1> USE DEF readerVars, writerVars
<1>1. /\ HasStream(c)
      /\ ReleaseRequestStream(c)
      /\ UNCHANGED <<readerVars, writerVars, writer_queue>>
      /\ state' \in {state, "STOP_INITIATED"}
  BY DEF CallSucceeds, CallFails, ReadTimeout, CanRead, HasStream, stateVars, StopAsync
<1>2. BaseInv'
  BY CallEndsStep DEF StopInv
<1>3. /\ reader \notin {"idle", "wait_writer"}
      /\ request_streams_stop_event = FALSE
  BY <1>1, ActiveStream
<1>4. request_streams_stop_event' = (active_request_streams' = {})
  BY <1>1, <1>3, HolderGone DEF StopInv
<1>5. FibersAgree'
  BY <1>1, <1>3, <1>4 DEF StopInv, FibersAgree
<1>6. /\ caller'[c].pc = "idle"
      /\ \A d \in Callers \ {c} : caller'[d] = caller[d]
  BY <1>1 DEF ReleaseRequestStream, IdleCaller, StopInv, BaseInv, TypeOK
<1>7. NobodyWaits' /\ StreamsOfThisConnection'
  BY <1>1, <1>6 DEF StopInv, NobodyWaits, StreamsOfThisConnection, HasStream
<1>8. QED
  BY <1>2, <1>5, <1>7 DEF StopInv

LEMMA CallerStops ==
    ASSUME FewCallers, StopInv, NEW c \in Callers, CallerStep(c)
    PROVE  StopInv'
<1>1. CASE ReadPacket(c)
  <2>1. BaseInv'
    BY <1>1, ReadPacketStep DEF StopInv
  <2>2. QED
    BY <1>1, <2>1, ProtocolAndCallersAlone
    DEF ReadPacket, stateVars, poolVars, readerVars, writerVars, callerVars
<1>2. ~GetPooledStream(c)
  BY DEF GetPooledStream, StopInv, NobodyWaits
<1>3. QED
  BY <1>1, <1>2, CreateRequestStreamStops, GetWritePacketStops, WriteStops,
     CallEndsStops DEF CallerStep

-----------------------------------------------------------------------------
(***************************************************************************)
(* Steps of the reader fiber                                               *)
(***************************************************************************)

LEMMA ProcessStreamStops ==
    ASSUME StopInv, ProcessStream
    PROVE  StopInv'
<1> USE DEF callerVars
<1>1. BaseInv'
  BY ProcessStreamStep DEF StopInv
<1>2. FibersAgree'
  BY DEF StopInv, FibersAgree, ProcessStream
<1>3. \A c \in Callers : ~HasStream(c)
  BY NoActiveStream DEF StopInv, FibersAgree, ProcessStream
<1>4. NobodyWaits' /\ StreamsOfThisConnection'
  BY <1>3 DEF StopInv, NobodyWaits, StreamsOfThisConnection, HasStream, ProcessStream
<1>5. QED
  BY <1>1, <1>2, <1>4 DEF StopInv

\* the reader fiber reads, fails and disconnects the streams
LEMMA ReaderReadsStops ==
    ASSUME StopInv,
           ReaderAcquirePacket \/ ReaderReadPacket \/ ReaderFails
             \/ StopAllRequestStreams
    PROVE  StopInv'
<1> USE DEF poolVars, writerVars, callerVars, stateVars
<1>1. BaseInv'
  BY ReaderAcquirePacketStep, ReaderReadPacketStep, ReaderFailsStep,
     StopAllRequestStreamsStep DEF StopInv
<1>2. /\ UNCHANGED <<active_request_streams, request_streams_stop_event, writer,
                     writer_stop_event, writer_queue, caller, connections>>
      /\ reader \notin {"idle", "wait_streams", "wait_writer"}
      /\ \/ reader' \in {"acquire", "read"} /\ reader \in {"acquire", "read"}
              /\ state' = state
         \/ reader' \in {"stop_all", "disconnect", "wait_streams"}
              /\ state' = "STOP_INITIATED"
         \/ reader' = "stop_writer" /\ request_streams_stop_event
              /\ state' = "STOP_INITIATED"
  <2>1. CASE ReaderAcquirePacket
    BY <2>1 DEF ReaderAcquirePacket
  <2>2. CASE ReaderReadPacket
    BY <2>2 DEF ReaderReadPacket, StopAsync
  <2>3. CASE ReaderFails
    BY <2>3 DEF ReaderFails, StopAsync
  <2>4. CASE StopAllRequestStreams
    <3>1. \/ reader' \in {"disconnect", "wait_streams"}
          \/ reader' = "stop_writer" /\ request_streams_stop_event
      BY <2>4 DEF StopAllRequestStreams, DisconnectFrom
    <3>2. reader \in {"stop_all", "disconnect"} /\ state' = state
      BY <2>4 DEF StopAllRequestStreams
    <3>3. state = "STOP_INITIATED"
      BY <3>2 DEF StopInv, FibersAgree
    <3>4. QED
      BY <2>4, <3>1, <3>2, <3>3 DEF StopAllRequestStreams
  <2>5. QED
    BY <2>1, <2>2, <2>3, <2>4
<1>3. FibersAgree'
  BY <1>2 DEF StopInv, FibersAgree
<1>4. QED
  BY <1>1, <1>2, <1>3, ReaderMoves

LEMMA StopStreamWriterStops ==
    ASSUME StopInv, StopStreamWriter
    PROVE  StopInv'
<1> USE DEF writerVars, callerVars, stateVars
<1>1. BaseInv'
  BY StopStreamWriterStep DEF StopInv
<1>2. /\ writer_queue' = Append(writer_queue, NULL)
      /\ writer_queue \in Seq(Packets \cup {NULL})
      /\ \A i \in 1 .. Len(writer_queue) : writer_queue[i] # NULL
      /\ writer # "none" /\ active_request_streams = {}
      /\ state = "STOP_INITIATED"
  BY DEF StopStreamWriter, StopInv, FibersAgree, BaseInv, TypeOK
<1>3. /\ \A i \in 1 .. Len(writer_queue') :
            writer_queue'[i] = NULL => i = Len(writer_queue')
      /\ writer_queue' # <<>> /\ writer_queue'[Len(writer_queue')] = NULL
  BY <1>2
<1>4. FibersAgree'
  BY <1>2, <1>3 DEF StopInv, FibersAgree, StopStreamWriter
<1>5. QED
  BY <1>1, <1>4, ReaderMoves DEF StopStreamWriter

LEMMA ProcessStreamReturnsStops ==
    ASSUME StopInv, ProcessStreamReturns
    PROVE  StopInv'
<1> USE DEF poolVars, callerVars
<1>1. BaseInv'
  BY ProcessStreamReturnsStep DEF StopInv
<1>2. FibersAgree' /\ active_request_streams = {}
  BY DEF StopInv, FibersAgree, ProcessStreamReturns
<1>3. QED
  BY <1>1, <1>2, ReaderMoves DEF ProcessStreamReturns

-----------------------------------------------------------------------------
(***************************************************************************)
(* Steps of the writer fiber                                               *)
(***************************************************************************)

\* Head and tail of a sequence, index by index.
LEMMA HeadAndTail ==
    ASSUME NEW S, NEW q \in Seq(S), q # <<>>
    PROVE  /\ Len(q) \in Nat \ {0}
           /\ Head(q) = q[1]
           /\ Len(Tail(q)) = Len(q) - 1
           /\ \A i \in 1 .. Len(q) - 1 : Tail(q)[i] = q[i + 1]
           /\ Len(q) = 1 => Tail(q) = <<>>
           /\ Len(q) # 1 => Tail(q) # <<>>
<1>1. Len(q) \in Nat \ {0} /\ Head(q) = q[1]
  OBVIOUS
<1>2. /\ Tail(q) \in Seq(S)
      /\ Len(Tail(q)) = Len(q) - 1
      /\ \A i \in 1 .. Len(q) - 1 : Tail(q)[i] = q[i + 1]
  BY HeadTailProperties
<1>3. Tail(q) = <<>> <=> Len(Tail(q)) = 0
  BY <1>2, EmptySeq
<1>4. QED
  BY <1>1, <1>2, <1>3

\* A value that can only be the last entry of a sequence, before and after the
\* first entry is taken.
LEMMA LastOfTail ==
    ASSUME NEW S, NEW q \in Seq(S), q # <<>>, NEW v,
           \A i \in 1 .. Len(q) : q[i] = v => i = Len(q)
    PROVE  /\ Head(q) = v => Tail(q) = <<>>
           /\ \A i \in 1 .. Len(Tail(q)) : Tail(q)[i] = v => i = Len(Tail(q))
           /\ Head(q) # v /\ q[Len(q)] = v =>
                Tail(q) # <<>> /\ Tail(q)[Len(Tail(q))] = v
<1> DEFINE n == Len(q)
           t == Tail(q)
<1>1. /\ n \in Nat \ {0}
      /\ Head(q) = q[1]
      /\ Len(t) = n - 1
      /\ \A i \in 1 .. n - 1 : t[i] = q[i + 1]
      /\ n = 1 => t = <<>>
      /\ n # 1 => t # <<>>
  BY HeadAndTail
<1>2. \A i \in 1 .. n : q[i] = v => i = n
  OBVIOUS
<1> HIDE DEF n, t
<1>3. Head(q) = v => t = <<>>
  BY <1>1, <1>2
<1>4. \A i \in 1 .. Len(t) : t[i] = v => i = Len(t)
  <2> TAKE i \in 1 .. Len(t)
  <2>1. i \in 1 .. n - 1 /\ i + 1 \in 1 .. n
    BY <1>1
  <2>2. QED
    BY <1>1, <1>2, <2>1
<1>5. ASSUME Head(q) # v, q[n] = v
      PROVE  t # <<>> /\ t[Len(t)] = v
  <2>1. n # 1
    BY <1>1, <1>5
  <2>2. Len(t) \in 1 .. n - 1 /\ Len(t) + 1 = n
    BY <1>1, <2>1
  <2>3. t[Len(t)] = q[Len(t) + 1]
    BY <1>1, <2>2
  <2>4. QED
    BY <1>1, <1>5, <2>1, <2>2, <2>3
<1>6. QED
  BY <1>3, <1>4, <1>5 DEF n, t

\* The packet the writer fiber takes is the NULL packet only if nothing is
\* left behind it.
LEMMA TakePacket ==
    ASSUME StopInv, writer_queue # <<>>
    PROVE  /\ Head(writer_queue) = NULL =>
                Tail(writer_queue) = <<>> /\ reader = "wait_writer"
           /\ \A i \in 1 .. Len(Tail(writer_queue)) :
                Tail(writer_queue)[i] = NULL =>
                    i = Len(Tail(writer_queue)) /\ reader = "wait_writer"
           /\ reader = "wait_writer" /\ Head(writer_queue) # NULL /\ writer # "none" =>
                /\ Tail(writer_queue) # <<>>
                /\ Tail(writer_queue)[Len(Tail(writer_queue))] = NULL
<1> DEFINE q == writer_queue
<1>1. /\ q \in Seq(Packets \cup {NULL})
      /\ \A i \in 1 .. Len(q) : q[i] = NULL => i = Len(q) /\ reader = "wait_writer"
      /\ reader = "wait_writer" /\ writer # "none" => q[Len(q)] = NULL
  BY DEF StopInv, FibersAgree, BaseInv, TypeOK
<1>2. /\ Head(q) = NULL => Tail(q) = <<>>
      /\ \A i \in 1 .. Len(Tail(q)) : Tail(q)[i] = NULL => i = Len(Tail(q))
      /\ Head(q) # NULL /\ q[Len(q)] = NULL =>
           Tail(q) # <<>> /\ Tail(q)[Len(Tail(q))] = NULL
  BY <1>1, LastOfTail
<1>3. /\ Len(q) \in Nat \ {0} /\ Head(q) = q[1] /\ Len(Tail(q)) = Len(q) - 1
      /\ \A i \in 1 .. Len(q) - 1 : Tail(q)[i] = q[i + 1]
  BY <1>1, HeadAndTail
<1> HIDE DEF q
<1>4. Head(q) = NULL => reader = "wait_writer"
  <2>1. 1 \in 1 .. Len(q) /\ Head(q) = q[1]
    BY <1>3
  <2>2. QED
    BY <1>1, <2>1
<1>5. ASSUME NEW i \in 1 .. Len(Tail(q)), Tail(q)[i] = NULL
      PROVE  reader = "wait_writer"
  <2>1. i \in 1 .. Len(q) - 1 /\ i + 1 \in 1 .. Len(q)
    BY <1>3
  <2>2. QED
    BY <1>1, <1>3, <1>5, <2>1
<1>6. QED
  BY <1>1, <1>2, <1>4, <1>5 DEF q

LEMMA WriterTakesStops ==
    ASSUME StopInv, WriterGetPacket \/ WriterSkipPacket
    PROVE  StopInv'
<1> USE DEF poolVars, readerVars, callerVars, stateVars
<1>1. BaseInv'
  BY WriterGetPacketStep, WriterSkipPacketStep DEF StopInv
<1>2. /\ writer_queue # <<>> /\ writer_queue' = Tail(writer_queue)
      /\ writer # "none"
      /\ IF Head(writer_queue) = NULL
           THEN writer' = "none" /\ writer_stop_event' = TRUE
           ELSE writer' # "none" /\ UNCHANGED writer_stop_event
      /\ UNCHANGED <<state, active_request_streams, request_streams_stop_event,
                     reader, connections, caller>>
  BY DEF WriterGetPacket, WriterSkipPacket
<1>3. FibersAgree'
  <2>1. CASE Head(writer_queue) = NULL
    <3>1. writer_queue' = <<>> /\ reader = "wait_writer"
      BY <1>2, <2>1, TakePacket
    <3>2. \A i \in 1 .. Len(writer_queue') : FALSE
      BY <3>1
    <3>3. QED
      BY <1>2, <2>1, <3>1, <3>2 DEF StopInv, FibersAgree
  <2>2. CASE Head(writer_queue) # NULL
    <3>1. /\ \A i \in 1 .. Len(writer_queue') :
               writer_queue'[i] = NULL => i = Len(writer_queue') /\ reader = "wait_writer"
          /\ reader = "wait_writer" =>
               writer_queue' # <<>> /\ writer_queue'[Len(writer_queue')] = NULL
      BY <1>2, <2>2, TakePacket
    <3>2. QED
      BY <1>2, <2>2, <3>1 DEF StopInv, FibersAgree
  <2>3. QED
    BY <2>1, <2>2
<1>4. NobodyWaits' /\ StreamsOfThisConnection'
  BY <1>2 DEF StopInv, NobodyWaits, StreamsOfThisConnection, HasStream
<1>5. QED
  BY <1>1, <1>3, <1>4 DEF StopInv

LEMMA WriterWritesStops ==
    ASSUME StopInv, WriterWritePacket \/ WriterFlush
    PROVE  StopInv'
<1> USE DEF poolVars, readerVars, callerVars, stateVars
<1>1. BaseInv'
  BY WriterWritePacketStep, WriterFlushStep DEF StopInv
<1>2. /\ UNCHANGED <<caller, reader, connections, writer_stop_event, writer_queue,
                     active_request_streams, request_streams_stop_event>>
      /\ state' \in {state, "STOP_INITIATED"}
      /\ writer' # "none" /\ writer # "none"
  BY DEF WriterWritePacket, WriterFlush, StopAsync, AfterWrite
<1>3. QED
  BY <1>1, <1>2, ProtocolAndCallersAlone

-----------------------------------------------------------------------------
(***************************************************************************)
(* The theorems                                                            *)
(***************************************************************************)

LEMMA InitStops == Init => StopInv
<1> SUFFICES ASSUME Init PROVE StopInv
  OBVIOUS
<1>1. BaseInv
  BY InitBase
<1>2. FibersAgree
  BY DEF Init, FibersAgree
<1>3. NobodyWaits /\ StreamsOfThisConnection
  BY DEF Init, IdleCaller, NobodyWaits, StreamsOfThisConnection, HasStream
<1>4. QED
  BY <1>1, <1>2, <1>3 DEF StopInv

LEMMA StepStops ==
    ASSUME FewCallers, StopInv, [Next]_vars
    PROVE  StopInv'
<1>1. ASSUME NEW c \in Callers, CallerStep(c)
      PROVE  StopInv'
  BY <1>1, CallerStops
<1>2. CASE ReaderStep
  BY <1>2, ProcessStreamStops, ReaderReadsStops, StopStreamWriterStops,
     ProcessStreamReturnsStops DEF ReaderStep
<1>3. CASE WriterStep
  BY <1>3, WriterTakesStops, WriterWritesStops DEF WriterStep
<1>4. CASE ServerStep \/ LinkBreaks \/ StopRequested \/ UNCHANGED vars
  <2> USE DEF poolVars, readerVars, writerVars, callerVars, stateVars
  <2>1. BaseInv'
    BY <1>4, StepBase DEF StopInv
  <2>2. /\ UNCHANGED <<caller, reader, connections, writer, writer_stop_event,
                       writer_queue, active_request_streams,
                       request_streams_stop_event>>
        /\ state' \in {state, "STOP_INITIATED"}
    BY <1>4 DEF ServerStep, ServerReceives, ServerSends, ServerSendsGarbage,
                LinkBreaks, StopRequested, StopAsync, vars
  <2>3. QED
    BY <2>1, <2>2, ProtocolAndCallersAlone
<1>5. QED
  BY <1>1, <1>2, <1>3, <1>4 DEF Next, Terminated

\* How the two fibers, the state and the stop events of the client stream
\* processor go together, for any number of streams, packets, calls and
\* connections, as long as callers never wait for a stream.
THEOREM StopProtocol ==
    ASSUME FewCallers
    PROVE  Spec => []FibersAgree
<1>1. StopInv => FibersAgree
  BY DEF StopInv
<1>2. QED
  BY <1>1, InitStops, StepStops, PTL DEF Spec

\* The last release of a stream is never missed and never announced early.
THEOREM StopEventCorrect ==
    ASSUME FewCallers
    PROVE  Spec => []StopEventTruthful
<1>1. StopInv => StopEventTruthful
  BY DEF StopInv, FibersAgree, StopEventTruthful
<1>2. QED
  BY <1>1, InitStops, StepStops, PTL DEF Spec

\* No packet follows the NULL packet that ends the writer fiber.
THEOREM SentinelCorrect ==
    ASSUME FewCallers
    PROVE  Spec => []SentinelLast
<1>1. StopInv => SentinelLast
  BY DEF StopInv, FibersAgree, SentinelLast
<1>2. QED
  BY <1>1, InitStops, StepStops, PTL DEF Spec

\* No fiber is about to run into one of the assertions on the state, the streams
\* and the writer queue: those of process_stream, stop_async,
\* stop_all_request_streams, stream_writer_func, skip_writer_queue_packets and of
\* the functions that acquire and release streams and packets.
THEOREM AssertionsCorrect ==
    ASSUME FewCallers
    PROVE  Spec => []AssertionsHold
<1>1. StopInv => AssertionsHold
  <2> SUFFICES ASSUME StopInv PROVE AssertionsHold
    OBVIOUS
  <2>1. active_request_streams = {} => active_request_streams_cnt = 0
    BY FS_EmptySet DEF StopInv, BaseInv, StreamsHeldOnce
  <2>2. reader = "idle" => active_request_streams_cnt = 0 /\ state # "WORKING"
    BY <2>1 DEF StopInv, FibersAgree
  <2>3. reader = "wait_streams" /\ request_streams_stop_event =>
          active_request_streams_cnt = 0
    BY <2>1 DEF StopInv, FibersAgree
  <2>4. writer \in {"get", "skip"} /\ writer_queue # <<>> =>
          (Head(writer_queue) = NULL =>
             Len(writer_queue) = 1 /\ state = "STOP_INITIATED")
    <3>1. writer_queue \in Seq(Packets \cup {NULL})
      BY DEF StopInv, BaseInv, TypeOK
    <3>2. writer_queue # <<>> =>
            1 \in 1 .. Len(writer_queue) /\ Head(writer_queue) = writer_queue[1]
      BY <3>1
    <3>3. QED
      BY <3>2 DEF StopInv, FibersAgree
  <2>5. writer # "none" => state # "STOPPED"
    BY DEF StopInv, FibersAgree
  <2>6. (\E c \in Callers : HasStream(c)) => state # "STOPPED"
    BY ActiveStream DEF StopInv, FibersAgree
  <2>7. QED
    BY <2>2, <2>3, <2>4, <2>5, <2>6 DEF AssertionsHold
<1>2. QED
  BY <1>1, InitStops, StepStops, PTL DEF Spec

\* No stream outlives its connection, so that a caller never resets a
\* connection other than the one that failed it.
THEOREM NoStreamSurvives ==
    ASSUME FewCallers
    PROVE  Spec => []StreamsOfThisConnection
<1>1. StopInv => StreamsOfThisConnection
  BY DEF StopInv
<1>2. QED
  BY <1>1, InitStops, StepStops, PTL DEF Spec

-----------------------------------------------------------------------------
(***************************************************************************)
(* The stream processor implements StreamProcessorLifecycle                *)
(***************************************************************************)

\* Steps that only the inside of the stream processor notices, or that initiate
\* the stop.
LEMMA InsideStep ==
    ASSUME state' \in {state, "STOP_INITIATED"},
           active_request_streams' = active_request_streams,
           reader' # "idle" <=> reader # "idle"
    PROVE  [Lifecycle!Next]_(Lifecycle!lifeVars)
<1>1. (reader # "idle")' = (reader # "idle")
  OBVIOUS
<1>2. CASE state' = state
  BY <1>1, <1>2 DEF Lifecycle!lifeVars
<1>3. CASE state' = "STOP_INITIATED"
  BY <1>1, <1>3 DEF Lifecycle!Next, Lifecycle!StopAsync
<1>4. QED
  BY <1>2, <1>3

LEMMA CreateRefines ==
    ASSUME FewCallers, StopInv, NEW c \in Callers, CreateRequestStream(c)
    PROVE  Lifecycle!Next
<1>1. active_request_streams # RequestIds
  BY PoolSuffices DEF CreateRequestStream, HasStream
<1>2. PICK s \in RequestIds \ active_request_streams : AcquireRequestStream(c, s)
  BY <1>1 DEF CreateRequestStream
<1>3. state = "WORKING" /\ UNCHANGED <<state, reader # "idle">>
  BY DEF CreateRequestStream, stateVars, readerVars
<1>4. Lifecycle!AcquireStream(s)
  BY <1>2, <1>3 DEF Lifecycle!AcquireStream, AcquireRequestStream
<1>5. QED
  BY <1>2, <1>4 DEF Lifecycle!Next

LEMMA CallEndsRefines ==
    ASSUME StopInv, NEW c \in Callers,
           CallSucceeds(c) \/ CallFails(c) \/ ReadTimeout(c)
    PROVE  Lifecycle!Next
<1> DEFINE s == caller[c].stream
<1>1. /\ HasStream(c)
      /\ active_request_streams' = active_request_streams \ {s}
      /\ UNCHANGED (reader # "idle")
      /\ state' \in {state, "STOP_INITIATED"}
  BY DEF CallSucceeds, CallFails, ReadTimeout, CanRead, HasStream, stateVars,
         readerVars, StopAsync, ReleaseRequestStream
<1>2. s \in active_request_streams /\ s \in RequestIds
  BY <1>1, ActiveStream DEF StopInv, BaseInv, TypeOK
<1>3. Lifecycle!ReleaseStream(s)
  BY <1>1, <1>2 DEF Lifecycle!ReleaseStream
<1>4. QED
  BY <1>2, <1>3 DEF Lifecycle!Next

LEMMA ConnectionRefines ==
    ASSUME StopInv, ProcessStream \/ ProcessStreamReturns
    PROVE  Lifecycle!Next
<1>1. CASE ProcessStream
  <2>1. active_request_streams' = active_request_streams
    BY <1>1 DEF ProcessStream
  <2>2. CASE state = "STOP_INITIATED" /\ state' = "STOPPED" /\ UNCHANGED reader
    <3>1. Lifecycle!RefuseStream
      BY <1>1, <2>1, <2>2 DEF ProcessStream, Lifecycle!RefuseStream
    <3>2. QED
      BY <3>1 DEF Lifecycle!Next
  <2>3. CASE state = "STOPPED" /\ state' = "WORKING" /\ reader' = "acquire"
    <3>1. Lifecycle!ProcessStream
      BY <1>1, <2>1, <2>3 DEF ProcessStream, Lifecycle!ProcessStream
    <3>2. QED
      BY <3>1 DEF Lifecycle!Next
  <2>4. QED
    BY <1>1, <2>2, <2>3 DEF ProcessStream
<1>2. CASE ProcessStreamReturns
  <2>1. state = "STOP_INITIATED" /\ active_request_streams = {}
    BY <1>2 DEF ProcessStreamReturns, StopInv, FibersAgree
  <2>2. Lifecycle!Finish
    BY <1>2, <2>1 DEF ProcessStreamReturns, poolVars, Lifecycle!Finish
  <2>3. QED
    BY <2>2 DEF Lifecycle!Next
<1>3. QED
  BY <1>1, <1>2

LEMMA StepRefines ==
    ASSUME FewCallers, StopInv, [Next]_vars
    PROVE  [Lifecycle!Next]_(Lifecycle!lifeVars)
<1> USE DEF stateVars, poolVars, readerVars
<1>1. ASSUME NEW c \in Callers, CallerStep(c)
      PROVE  [Lifecycle!Next]_(Lifecycle!lifeVars)
  <2>1. ~GetPooledStream(c)
    BY DEF GetPooledStream, StopInv, NobodyWaits
  <2>2. CASE GetWritePacket(c) \/ WritePacket(c) \/ Flush(c) \/ ReadPacket(c)
    <3>1. UNCHANGED <<state, active_request_streams, reader>>
      BY <2>2 DEF GetWritePacket, WritePacket, Flush, QueueWritePacket, ReadPacket
    <3>2. QED
      BY <3>1, InsideStep
  <2>3. QED
    BY <1>1, <2>1, <2>2, CreateRefines, CallEndsRefines DEF CallerStep
<1>2. CASE ReaderStep
  <2>1. CASE ReaderAcquirePacket \/ ReaderReadPacket \/ ReaderFails
              \/ StopAllRequestStreams \/ StopStreamWriter
    <3>1. /\ state' \in {state, "STOP_INITIATED"}
          /\ active_request_streams' = active_request_streams
      BY <2>1 DEF ReaderAcquirePacket, ReaderReadPacket, ReaderFails,
                  StopAllRequestStreams, StopStreamWriter, StopAsync
    <3>2. reader # "idle" /\ reader' # "idle"
      BY <2>1 DEF ReaderAcquirePacket, ReaderReadPacket, ReaderFails,
                  StopAllRequestStreams, DisconnectFrom, StopStreamWriter
    <3>3. QED
      BY <3>1, <3>2, InsideStep
  <2>2. QED
    BY <1>2, <2>1, ConnectionRefines DEF ReaderStep
<1>3. CASE WriterStep \/ ServerStep \/ LinkBreaks \/ StopRequested \/ UNCHANGED vars
  <2>1. /\ state' \in {state, "STOP_INITIATED"}
        /\ UNCHANGED <<active_request_streams, reader>>
    BY <1>3 DEF WriterStep, WriterGetPacket, WriterWritePacket, WriterFlush,
                WriterSkipPacket, ServerStep, ServerReceives, ServerSends,
                ServerSendsGarbage, LinkBreaks, StopRequested, StopAsync, vars
  <2>2. QED
    BY <2>1, InsideStep
<1>4. QED
  BY <1>1, <1>2, <1>3 DEF Next, Terminated

\* To struct mrpc_client the stream processor is the one of module
\* StreamProcessorLifecycle: it hands out streams only while it works, and
\* process_stream returns only when all of them have been given back.
THEOREM LifecycleImplemented ==
    ASSUME FewCallers
    PROVE  Spec => ImplementsLifecycle
<1>1. Init => Lifecycle!Init
  BY DEF Init, Lifecycle!Init
<1>2. QED
  BY <1>1, InitStops, StepStops, StepRefines, PTL
  DEF Spec, ImplementsLifecycle, Lifecycle!Spec

-----------------------------------------------------------------------------
(***************************************************************************)
(* Whose data a packet carries.  Ids are used again as soon as a stream is *)
(* released, so a packet of an earlier call must not be left anywhere: not *)
(* in a queue, not on the wire, not with the server.  While the processor  *)
(* works that is because a call ends with the last packet of its response, *)
(* which is behind everything else of the call; once the stop has begun    *)
(* nothing is read any more and no id is given out; and a new connection   *)
(* begins with empty queues.                                               *)
(***************************************************************************)

\* the packets of other streams; the packets that carry data for stream s, the
\* last ones of a message, and those of a call other than n
Others(s) == {p \in Packets : p.id # s}
Data(s) == {p \in Packets : p.id = s /\ p.call # 0}
Last(s) == {p \in Data(s) : p.type \in {"SINGLE", "END"}}
Foreign(s, n) == {p \in Data(s) : p.call # n}

CallNumbers == 0 .. MaxCalls

\* caller c makes call n on stream s; it has not yet queued its whole request
Holds(c, s, n) == HasStream(c) /\ caller[c].stream = s /\ caller[c].call = n
Writes(c, s) == /\ HasStream(c) /\ caller[c].stream = s
                /\ caller[c].pc \notin {"flush_end", "read"}

\* where packets can be: with the stream, on their way to the server, on their
\* way back
InStream(s, P) == Occurs(reader_queue[s], P) \/ current_read_packet[s] \in P

Requested(P) ==
    Occurs(outbound, P) \/ Occurs(unflushed, P) \/ writing \in P \/ Occurs(writer_queue, P)

Returning(s, P) == Occurs(inbound, P) \/ Occurs(responses[s], P)

InFlight(s, P) == Requested(P) \/ Returning(s, P)

\* The connection is usable exactly while the processor works.
WorkingLink ==
    /\ state = "WORKING" <=> link \in {"up", "down"}
    /\ link = "none" => reader = "idle"
    /\ writer = "skip" => state # "WORKING"

\* A stream gets packets with its own id only, and so does a response.
OwnIds ==
    \A s \in RequestIds : ~InStream(s, Others(s)) /\ ~Occurs(responses[s], Others(s))

\* A stream has data of the call of its holder only, and in the pool none.
StreamsOwned ==
    /\ \A s \in RequestIds \ active_request_streams : ~InStream(s, Data(s))
    /\ \A c \in Callers, s \in RequestIds, n \in CallNumbers :
         Holds(c, s, n) => ~InStream(s, Foreign(s, n))

\* The same for what is under way.
FlightOwned ==
    /\ \A s \in RequestIds \ active_request_streams : ~InFlight(s, Data(s))
    /\ \A c \in Callers, s \in RequestIds, n \in CallNumbers :
         Holds(c, s, n) => ~InFlight(s, Foreign(s, n))

\* Nothing of a request follows its last packet.
RequestsInOrder(s) ==
    /\ NoneAfter(outbound, Last(s), Data(s))
    /\ NoneAfter(unflushed, Last(s), Data(s))
    /\ NoneAfter(writer_queue, Last(s), Data(s))
    /\ Occurs(outbound, Last(s)) =>
         /\ ~Occurs(unflushed, Data(s))
         /\ writing \notin Data(s)
         /\ ~Occurs(writer_queue, Data(s))
    /\ Occurs(unflushed, Last(s)) => writing \notin Data(s) /\ ~Occurs(writer_queue, Data(s))
    /\ writing \in Last(s) => ~Occurs(writer_queue, Data(s))

\* Nothing of a response follows its last packet.
ResponsesInOrder(s) ==
    /\ NoneAfter(responses[s], Last(s), Data(s))
    /\ NoneAfter(inbound, Last(s), Data(s))
    /\ NoneAfter(reader_queue[s], Last(s), Data(s))
    /\ Occurs(reader_queue[s], Last(s)) => ~Returning(s, Data(s))
    /\ Occurs(inbound, Last(s)) => ~Occurs(responses[s], Data(s))

\* The response comes after the request, and the request is complete when its
\* last packet is queued.
RequestFirst(s) ==
    /\ Occurs(reader_queue[s], Data(s)) \/ Returning(s, Data(s)) => ~Requested(Data(s))
    /\ Requested(Last(s)) \/ Occurs(reader_queue[s], Data(s)) \/ Returning(s, Data(s)) =>
         \A c \in Callers : ~Writes(c, s)

InOrder == \A s \in RequestIds : RequestsInOrder(s) /\ ResponsesInOrder(s) /\ RequestFirst(s)

\* What the steps of the proof preserve one by one.
DataRest ==
    /\ OwnIds /\ StreamsOwned
    /\ state = "WORKING" => FlightOwned /\ InOrder

DataInv == WorkingLink /\ DataRest

ConnectionInv == StopInv /\ PacketInv /\ DataInv

-----------------------------------------------------------------------------
(***************************************************************************)
(* Facts about these sets                                                  *)
(***************************************************************************)

LEMMA DataSets ==
    /\ \A s : Last(s) \subseteq Data(s) /\ Data(s) \subseteq Packets
    /\ \A s, n : Foreign(s, n) \subseteq Data(s)
    /\ \A s : NULL \notin Data(s) /\ NULL \notin Last(s) /\ NULL \notin Others(s)
    /\ \A s, n : NULL \notin Foreign(s, n)
    /\ \A s, r : s # r => Data(s) \cap Data(r) = {}
<1>1. /\ \A s : Last(s) \subseteq Data(s) /\ Data(s) \subseteq Packets
      /\ \A s, n : Foreign(s, n) \subseteq Data(s)
      /\ \A s : Others(s) \subseteq Packets
  BY DEF Last, Data, Foreign, Others
<1>2. \A s, r : s # r => Data(s) \cap Data(r) = {}
  BY DEF Data
<1>3. QED
  BY <1>1, <1>2, NullIsNoPacket

\* A packet that carries no data is in none of the sets.
LEMMA NoData ==
    ASSUME NEW p, p.call = 0
    PROVE  \A s : p \notin Data(s) /\ p \notin Last(s) /\ \A n : p \notin Foreign(s, n)
BY DEF Data, Last, Foreign

LEMMA QueueTypes ==
    ASSUME ConnectionInv
    PROVE  /\ writer_queue \in Seq(Packets \cup {NULL})
           /\ unflushed \in Seq(Packets) /\ outbound \in Seq(Packets)
           /\ inbound \in Seq(Packets)
           /\ responses \in [RequestIds -> Seq(Packets)]
           /\ reader_queue \in [RequestIds -> Seq(Packets)]
           /\ current_read_packet \in [RequestIds -> Packets \cup {NULL}]
           /\ caller \in [Callers -> CallerRecords]
           /\ active_request_streams \subseteq RequestIds
           /\ TypeOK
BY DEF ConnectionInv, StopInv, BaseInv, TypeOK

-----------------------------------------------------------------------------
(***************************************************************************)
(* Steps that leave the data alone                                         *)
(***************************************************************************)

LEMMA StreamsStay ==
    ASSUME StreamsOwned, UNCHANGED <<active_request_streams, reader_queue, current_read_packet>>,
           \A c \in Callers, s \in RequestIds, n \in CallNumbers :
              Holds(c, s, n)' => Holds(c, s, n)
    PROVE  StreamsOwned'
BY DEF StreamsOwned, InStream

LEMMA DataStays ==
    ASSUME DataRest,
           UNCHANGED <<active_request_streams, reader_queue, current_read_packet, responses>>,
           \A c \in Callers, s \in RequestIds, n \in CallNumbers :
              Holds(c, s, n)' => Holds(c, s, n),
           \A c \in Callers, s \in RequestIds : Writes(c, s)' => Writes(c, s),
           \/ state' # "WORKING"
           \/ /\ state = "WORKING"
              /\ UNCHANGED <<writer_queue, writing, unflushed, outbound, inbound>>
    PROVE  DataRest'
<1>1. OwnIds'
  BY DEF DataRest, OwnIds, InStream
<1>2. StreamsOwned'
  BY StreamsStay DEF DataRest
<1>3. CASE state' # "WORKING"
  BY <1>1, <1>2, <1>3 DEF DataRest
<1>4. CASE /\ state = "WORKING"
           /\ UNCHANGED <<writer_queue, writing, unflushed, outbound, inbound>>
  <2>1. FlightOwned'
    BY <1>4 DEF DataRest, FlightOwned, InFlight, Requested, Returning
  <2>2. InOrder'
    BY <1>4 DEF DataRest, InOrder, RequestsInOrder, ResponsesInOrder, RequestFirst,
                Requested, Returning
  <2>3. QED
    BY <1>1, <1>2, <2>1, <2>2 DEF DataRest
<1>5. QED
  BY <1>3, <1>4

\* The callers stay where they are.
LEMMA CallersStay ==
    ASSUME caller' = caller
    PROVE  /\ \A c \in Callers, s \in RequestIds, n \in CallNumbers :
                Holds(c, s, n)' => Holds(c, s, n)
           /\ \A c \in Callers, s \in RequestIds : Writes(c, s)' => Writes(c, s)
BY DEF Holds, Writes, HasStream

\* A caller goes on with its call.
LEMMA CallerGoesOnData ==
    ASSUME NEW c \in Callers, HasStream(c),
           \A d \in Callers \ {c} : caller'[d] = caller[d],
           caller'[c].stream = caller[c].stream, caller'[c].call = caller[c].call,
           caller[c].pc \in {"flush_end", "read"} => caller'[c].pc \in {"flush_end", "read"}
    PROVE  /\ \A d \in Callers, s \in RequestIds, n \in CallNumbers :
                Holds(d, s, n)' => Holds(d, s, n)
           /\ \A d \in Callers, s \in RequestIds : Writes(d, s)' => Writes(d, s)
BY DEF Holds, Writes, HasStream

LEMMA QuietData ==
    ASSUME ConnectionInv, NEW c \in Callers, GetWritePacket(c)
    PROVE  DataRest'
<1>1. /\ HasStream(c) /\ caller \in [Callers -> CallerRecords]
      /\ UNCHANGED <<active_request_streams, reader_queue, current_read_packet, responses, state,
                     writer_queue, writing, unflushed, outbound, inbound>>
  BY QueueTypes DEF GetWritePacket, poolVars, stateVars, writerVars, peerVars, HasStream
<1>2. /\ \A d \in Callers \ {c} : caller'[d] = caller[d]
      /\ caller'[c].stream = caller[c].stream /\ caller'[c].call = caller[c].call
      /\ caller[c].pc \in {"flush_end", "read"} => caller'[c].pc \in {"flush_end", "read"}
  BY <1>1 DEF GetWritePacket, CallerRecords
<1>3. /\ \A d \in Callers, s \in RequestIds, n \in CallNumbers :
           Holds(d, s, n)' => Holds(d, s, n)
      /\ \A d \in Callers, s \in RequestIds : Writes(d, s)' => Writes(d, s)
  BY <1>1, <1>2, CallerGoesOnData
<1>4. DataRest
  BY DEF ConnectionInv, DataInv
<1>5. CASE state = "WORKING"
  BY <1>1, <1>3, <1>4, <1>5, DataStays
<1>6. CASE state # "WORKING"
  BY <1>1, <1>3, <1>4, <1>6, DataStays
<1>7. QED
  BY <1>5, <1>6

-----------------------------------------------------------------------------
(***************************************************************************)
(* Steps of the callers                                                    *)
(***************************************************************************)

\* A packet without data for stream r is queued.
LEMMA OtherPacketQueued ==
    ASSUME ConnectionInv, NEW p \in Packets, writer_queue' = Append(writer_queue, p),
           NEW r, p \notin Data(r)
    PROVE  /\ Occurs(writer_queue', Data(r)) <=> Occurs(writer_queue, Data(r))
           /\ Occurs(writer_queue', Last(r)) <=> Occurs(writer_queue, Last(r))
           /\ \A n : Occurs(writer_queue', Foreign(r, n)) <=> Occurs(writer_queue, Foreign(r, n))
           /\ NoneAfter(writer_queue, Last(r), Data(r)) =>
                NoneAfter(writer_queue', Last(r), Data(r))
<1>1. writer_queue \in Seq(Packets \cup {NULL}) /\ p \in Packets \cup {NULL}
  BY QueueTypes
<1>2. p \notin Last(r) /\ \A n : p \notin Foreign(r, n)
  BY DataSets
<1>3. QED
  BY <1>1, <1>2, OccursAppend

LEMMA QueueWritePacketData ==
    ASSUME ConnectionInv, BaseInv', NEW c \in Callers, caller[c].pc = "write",
           NEW t \in PacketTypes, NEW u, NEW w, NEW next,
           QueueWritePacket(c, t, u, w, next),
           t \in {"SINGLE", "END"} =>
             w \in {"flush_end", "read"} /\ next \in {"flush_end", "read"}
    PROVE  DataRest'
<1>0. PICK s \in RequestIds : s = caller[c].stream
  BY QueueTypes DEF CallerRecords
<1>1. PICK m \in CallNumbers : m = caller[c].call
  BY QueueTypes DEF CallerRecords, CallNumbers
<1>2. PICK p \in Packets : p = Packet(s, t, m)
  BY PacketType DEF CallNumbers
<1>3. /\ writer_queue' = Append(writer_queue, p)
      /\ UNCHANGED <<active_request_streams, reader_queue, current_read_packet, responses, state,
                     writing, unflushed, outbound, inbound>>
      /\ \/ caller' = [caller EXCEPT ![c].pc = next, ![c].left = @ - 1]
         \/ caller' = [caller EXCEPT ![c].pc = w, ![c].left = @ - 1]
  BY <1>0, <1>1, <1>2
  DEF QueueWritePacket, poolVars, stateVars, writerVars, peerVars
<1>4. /\ \A d \in Callers \ {c} : caller'[d] = caller[d]
      /\ caller'[c].stream = s /\ caller'[c].call = m
      /\ t \in {"SINGLE", "END"} => caller'[c].pc \in {"flush_end", "read"}
  BY <1>0, <1>1, <1>3, QueueTypes DEF CallerRecords
<1>5. HasStream(c) /\ Writes(c, s) /\ Holds(c, s, m)
  BY <1>0, <1>1 DEF HasStream, Writes, Holds
<1>6. /\ \A d \in Callers, r \in RequestIds, n \in CallNumbers :
           Holds(d, r, n)' => Holds(d, r, n)
      /\ \A d \in Callers, r \in RequestIds : Writes(d, r)' => Writes(d, r)
  BY <1>0, <1>1, <1>4, <1>5, CallerGoesOnData
<1>7. DataRest
  BY DEF ConnectionInv, DataInv
<1>8. CASE state # "WORKING"
  BY <1>3, <1>6, <1>7, <1>8, DataStays
<1>9. CASE state = "WORKING"
  <2>0. FlightOwned /\ InOrder
    BY <1>7, <1>9 DEF DataRest
  <2>1. OwnIds' /\ StreamsOwned'
    <3>1. OwnIds'
      BY <1>3, <1>7 DEF DataRest, OwnIds, InStream
    <3>2. QED
      BY <1>3, <1>6, <1>7, <3>1, StreamsStay DEF DataRest
  <2>2. ASSUME NEW r \in RequestIds \ {s}
        PROVE  /\ Occurs(writer_queue', Data(r)) <=> Occurs(writer_queue, Data(r))
               /\ Occurs(writer_queue', Last(r)) <=> Occurs(writer_queue, Last(r))
               /\ \A n : Occurs(writer_queue', Foreign(r, n)) <=> Occurs(writer_queue, Foreign(r, n))
               /\ NoneAfter(writer_queue, Last(r), Data(r)) =>
                    NoneAfter(writer_queue', Last(r), Data(r))
    <3>1. p \notin Data(r)
      BY <1>2 DEF Packet, Data
    <3>2. QED
      BY <1>3, <3>1, OtherPacketQueued
  <2>3. /\ \A P : Occurs(writer_queue', P) <=> Occurs(writer_queue, P) \/ p \in P
        /\ \A L, D : NoneAfter(writer_queue, L, D) /\ (Occurs(writer_queue, L) => p \notin D)
                       => NoneAfter(writer_queue', L, D)
    <3>1. writer_queue \in Seq(Packets \cup {NULL}) /\ p \in Packets \cup {NULL}
      BY QueueTypes
    <3>2. writer_queue' = Append(writer_queue, p)
      BY <1>3
    <3>3. QED
      BY <3>1, <3>2, OccursAppend
  <2>4. p \notin Foreign(s, m) /\ (p \in Last(s) => t \in {"SINGLE", "END"})
    BY <1>2 DEF Foreign, Last, Packet
  <2>5. \A d \in Callers : HasStream(d) /\ caller[d].stream = s => d = c
    BY <1>0, <1>5 DEF ConnectionInv, StopInv, BaseInv, StreamsHeldOnce
  <2>6. s \in active_request_streams
    BY <1>0, <1>5 DEF ConnectionInv, StopInv, BaseInv, StreamsHeldOnce
  <2>7. FlightOwned'
    <3>1. ASSUME NEW r \in RequestIds \ active_request_streams'
          PROVE  ~InFlight(r, Data(r))'
      BY <1>3, <2>0, <2>2, <2>6 DEF FlightOwned, InFlight, Requested, Returning
    <3>2. ASSUME NEW d \in Callers, NEW r \in RequestIds, NEW n \in CallNumbers, Holds(d, r, n)'
          PROVE  ~InFlight(r, Foreign(r, n))'
      <4>1. Holds(d, r, n)
        BY <1>6, <3>2
      <4>2. CASE r # s
        BY <1>3, <2>0, <2>2, <4>1, <4>2 DEF FlightOwned, InFlight, Requested, Returning
      <4>3. CASE r = s
        <5>1. n = m
          BY <1>5, <2>5, <4>1, <4>3 DEF Holds
        <5>2. QED
          BY <1>3, <2>0, <2>3, <2>4, <4>1, <4>3, <5>1
          DEF FlightOwned, InFlight, Requested, Returning
      <4>4. QED
        BY <4>2, <4>3
    <3>3. QED
      BY <3>1, <3>2 DEF FlightOwned
  <2>8. ASSUME NEW r \in RequestIds
        PROVE  RequestsInOrder(r)' /\ ResponsesInOrder(r)' /\ RequestFirst(r)'
    <3>0. RequestsInOrder(r) /\ ResponsesInOrder(r) /\ RequestFirst(r)
      BY <2>0 DEF InOrder
    <3>1. ResponsesInOrder(r)'
      BY <1>3, <3>0 DEF ResponsesInOrder, Returning
    <3>2. CASE r # s
      <4>1. RequestsInOrder(r)'
        BY <1>3, <2>2, <3>0, <3>2 DEF RequestsInOrder
      <4>2. RequestFirst(r)'
        BY <1>3, <1>6, <2>2, <3>0, <3>2 DEF RequestFirst, Requested, Returning
      <4>3. QED
        BY <3>1, <4>1, <4>2
    <3>3. CASE r = s
      <4>1. /\ ~Requested(Last(s)) /\ ~Occurs(reader_queue[s], Data(s))
            /\ ~Returning(s, Data(s))
        BY <1>5, <3>0, <3>3 DEF RequestFirst
      <4>2. RequestsInOrder(s)'
        BY <1>3, <2>3, <3>0, <3>3, <4>1 DEF RequestsInOrder, Requested
      <4>3. RequestFirst(s)'
        <5>1. ~Occurs(reader_queue'[s], Data(s)) /\ ~Returning(s, Data(s))'
          BY <1>3, <4>1 DEF Returning
        <5>2. ASSUME Requested(Last(s))', NEW d \in Callers PROVE ~Writes(d, s)'
          <6>1. p \in Last(s)
            BY <1>3, <2>3, <4>1, <5>2 DEF Requested
          <6>2. caller'[c].pc \in {"flush_end", "read"}
            BY <1>4, <2>4, <6>1
          <6>3. ASSUME Writes(d, s)' PROVE FALSE
            <7>1. d = c
              BY <1>6, <2>5, <6>3 DEF Writes
            <7>2. QED
              BY <6>2, <6>3, <7>1 DEF Writes
          <6>4. QED
            BY <6>3
        <5>3. QED
          BY <5>1, <5>2 DEF RequestFirst
      <4>4. QED
        BY <3>1, <3>3, <4>2, <4>3
    <3>4. QED
      BY <3>2, <3>3
  <2>9. QED
    BY <2>1, <2>7, <2>8 DEF DataRest, InOrder
<1>10. QED
  BY <1>8, <1>9

LEMMA WriteData ==
    ASSUME ConnectionInv, BaseInv', NEW c \in Callers, WritePacket(c) \/ Flush(c)
    PROVE  DataRest'
<1>1. caller[c].pc = "write"
  BY DEF WritePacket, Flush
<1>2. current_write_packet[caller[c].stream] \in {"START", "MIDDLE"}
  BY <1>1 DEF ConnectionInv, StopInv, BaseInv, HoldersHold
<1>3. CASE WritePacket(c)
  <2>1. QueueWritePacket(c, current_write_packet[caller[c].stream],
                         "MIDDLE", "write_next", "write")
    BY <1>3 DEF WritePacket
  <2>2. /\ current_write_packet[caller[c].stream] \in PacketTypes
        /\ current_write_packet[caller[c].stream] \notin {"SINGLE", "END"}
    BY <1>2 DEF PacketTypes
  <2>3. QED
    BY <1>1, <2>1, <2>2, QueueWritePacketData
<1>4. CASE Flush(c)
  <2> DEFINE t == IF current_write_packet[caller[c].stream] = "START" THEN "SINGLE" ELSE "END"
  <2>1. QueueWritePacket(c, t, "END", "flush_end", "read")
    BY <1>4 DEF Flush
  <2>2. t \in PacketTypes
    BY DEF PacketTypes
  <2> HIDE DEF t
  <2>3. QED
    BY <1>1, <2>1, <2>2, QueueWritePacketData
<1>5. QED
  BY <1>3, <1>4

\* A caller gets a stream nothing of which is left anywhere.
LEMMA CreateRequestStreamData ==
    ASSUME ConnectionInv, BaseInv', NEW c \in Callers, CreateRequestStream(c)
    PROVE  DataRest'
<1>1. /\ state = "WORKING" /\ DataRest /\ FlightOwned /\ InOrder
      /\ UNCHANGED <<state, reader_queue, current_read_packet, responses, writer_queue, writing,
                     unflushed, outbound, inbound>>
  BY DEF CreateRequestStream, ConnectionInv, DataInv, DataRest, stateVars, streamVars,
         writerVars, peerVars
<1>2. caller \in [Callers -> CallerRecords]
  BY QueueTypes
<1>3. CASE UNCHANGED poolVars /\ caller'[c].pc = "pool"
  <2>1. \A d \in Callers \ {c} : caller'[d] = caller[d]
    BY <1>2 DEF CreateRequestStream
  <2>2. /\ \A d \in Callers, s \in RequestIds, n \in CallNumbers :
             Holds(d, s, n)' => Holds(d, s, n)
        /\ \A d \in Callers, s \in RequestIds : Writes(d, s)' => Writes(d, s)
    BY <1>3, <2>1 DEF Holds, Writes, HasStream
  <2>3. QED
    BY <1>1, <1>3, <2>2, DataStays DEF poolVars
<1>4. ASSUME NEW s \in RequestIds \ active_request_streams, AcquireRequestStream(c, s),
             NEW k \in 1 .. MaxRequestPackets,
             caller' = [caller EXCEPT ![c] =
               [pc |-> "write_first", stream |-> s, call |-> calls + 1,
                left |-> k, connection |-> connections]]
      PROVE  DataRest'
  <2>1. /\ \A d \in Callers \ {c} : caller'[d] = caller[d]
        /\ caller'[c].stream = s
        /\ active_request_streams' = active_request_streams \cup {s}
    BY <1>2, <1>4 DEF AcquireRequestStream
  <2>2. ~InStream(s, Data(s)) /\ ~InFlight(s, Data(s))
    BY <1>1, <1>4 DEF DataRest, StreamsOwned, FlightOwned
  <2>3. \A P : P \subseteq Data(s) => ~InStream(s, P) /\ ~InFlight(s, P)
    <3>1. ASSUME NEW P, P \subseteq Data(s) PROVE ~InStream(s, P) /\ ~InFlight(s, P)
      <4>1. \A q : Occurs(q, P) => Occurs(q, Data(s))
        BY <3>1, OccursWithin
      <4>2. QED
        BY <2>2, <3>1, <4>1 DEF InStream, InFlight, Requested, Returning
    <3>2. QED
      BY <3>1
  <2>4. \A d \in Callers, r \in RequestIds, n \in CallNumbers :
          Holds(d, r, n)' => r = s \/ Holds(d, r, n)
    BY <2>1 DEF Holds, HasStream
  <2>5. \A d \in Callers, r \in RequestIds : Writes(d, r)' => r = s \/ Writes(d, r)
    BY <2>1 DEF Writes, HasStream
  <2>6. /\ \A r, P : InStream(r, P)' <=> InStream(r, P)
        /\ \A r, P : InFlight(r, P)' <=> InFlight(r, P)
    BY <1>1 DEF InStream, InFlight, Requested, Returning
  <2>7. OwnIds'
    BY <1>1 DEF DataRest, OwnIds, InStream
  <2>8. StreamsOwned' /\ FlightOwned'
    <3>1. ASSUME NEW r \in RequestIds \ active_request_streams'
          PROVE  ~InStream(r, Data(r))' /\ ~InFlight(r, Data(r))'
      BY <1>1, <2>1, <2>6 DEF DataRest, StreamsOwned, FlightOwned
    <3>2. ASSUME NEW d \in Callers, NEW r \in RequestIds, NEW n \in CallNumbers, Holds(d, r, n)'
          PROVE  ~InStream(r, Foreign(r, n))' /\ ~InFlight(r, Foreign(r, n))'
      <4>1. CASE r = s
        BY <2>3, <2>6, <4>1, DataSets
      <4>2. CASE Holds(d, r, n)
        BY <1>1, <2>6, <4>2 DEF DataRest, StreamsOwned, FlightOwned
      <4>3. QED
        BY <2>4, <3>2, <4>1, <4>2
    <3>3. QED
      BY <3>1, <3>2 DEF StreamsOwned, FlightOwned
  <2>9. ASSUME NEW r \in RequestIds
        PROVE  RequestsInOrder(r)' /\ ResponsesInOrder(r)' /\ RequestFirst(r)'
    <3>1. RequestsInOrder(r)' /\ ResponsesInOrder(r)'
      BY <1>1 DEF InOrder, RequestsInOrder, ResponsesInOrder, Returning
    <3>2. RequestFirst(r)
      BY <1>1 DEF InOrder
    <3>3. CASE r = s
      <4>1. /\ ~Requested(Data(s)) /\ ~Requested(Last(s)) /\ ~Occurs(reader_queue[s], Data(s))
            /\ ~Returning(s, Data(s))
        BY <2>3, DataSets DEF InStream, InFlight
      <4>2. QED
        BY <1>1, <3>1, <3>3, <4>1 DEF RequestFirst, Requested, Returning
    <3>4. CASE r # s
      BY <1>1, <2>5, <3>1, <3>2, <3>4 DEF RequestFirst, Requested, Returning
    <3>5. QED
      BY <3>3, <3>4
  <2>10. QED
    BY <2>7, <2>8, <2>9 DEF DataRest, InOrder
<1>5. QED
  BY <1>2, <1>3, <1>4 DEF CreateRequestStream

\* Packets move from the wire to a stream, or within a stream.
LEMMA ResponseMoves ==
    ASSUME DataRest, state = "WORKING",
           UNCHANGED <<state, active_request_streams, caller, writer_queue, writing,
                       unflushed, outbound>>,
           OwnIds', \A s \in RequestIds : ResponsesInOrder(s)',
           \A s \in RequestIds : \A P : P \subseteq Data(s) =>
             /\ Returning(s, P)' => Returning(s, P)
             /\ InStream(s, P)' => InStream(s, P) \/ Returning(s, P)
             /\ Occurs(reader_queue'[s], P) => Occurs(reader_queue[s], P) \/ Returning(s, P)
    PROVE  DataRest'
<1>1. StreamsOwned /\ FlightOwned /\ InOrder
  BY DEF DataRest
<1>2. \A P : Requested(P)' <=> Requested(P)
  BY DEF Requested
<1>3. /\ \A c \in Callers, s \in RequestIds, n \in CallNumbers :
           Holds(c, s, n)' => Holds(c, s, n)
      /\ \A c \in Callers, s \in RequestIds : Writes(c, s)' => Writes(c, s)
  BY CallersStay
<1>4. ASSUME NEW s \in RequestIds \ active_request_streams'
      PROVE  ~InStream(s, Data(s))' /\ ~InFlight(s, Data(s))'
  BY <1>1, <1>2 DEF StreamsOwned, FlightOwned, InFlight
<1>5. ASSUME NEW c \in Callers, NEW s \in RequestIds, NEW n \in CallNumbers, Holds(c, s, n)'
      PROVE  ~InStream(s, Foreign(s, n))' /\ ~InFlight(s, Foreign(s, n))'
  <2>1. ~InStream(s, Foreign(s, n)) /\ ~InFlight(s, Foreign(s, n))
    BY <1>1, <1>3, <1>5 DEF StreamsOwned, FlightOwned
  <2>2. QED
    BY <1>2, <2>1, DataSets DEF InFlight
<1>6. ASSUME NEW s \in RequestIds PROVE RequestsInOrder(s)' /\ RequestFirst(s)'
  <2>1. RequestsInOrder(s)'
    BY <1>1 DEF InOrder, RequestsInOrder
  <2>2. RequestFirst(s)
    BY <1>1 DEF InOrder
  <2>3. QED
    BY <1>2, <1>3, <2>1, <2>2 DEF RequestFirst
<1>7. QED
  BY <1>4, <1>5, <1>6 DEF DataRest, StreamsOwned, FlightOwned, InOrder

\* The packet at the front of a queue.
LEMMA FrontOfQueue ==
    ASSUME ConnectionInv, NEW s \in RequestIds, reader_queue[s] # <<>>
    PROVE  /\ Head(reader_queue[s]) \in Packets /\ Head(reader_queue[s]).id = s
           /\ \A P : Occurs(reader_queue[s], P) <=>
                Head(reader_queue[s]) \in P \/ Occurs(Tail(reader_queue[s]), P)
           /\ \A L, D : NoneAfter(reader_queue[s], L, D) =>
                NoneAfter(Tail(reader_queue[s]), L, D)
<1>1. reader_queue[s] \in Seq(Packets)
  BY QueueTypes
<1>2. /\ Head(reader_queue[s]) \in Packets
      /\ \A P : Occurs(reader_queue[s], P) <=>
           Head(reader_queue[s]) \in P \/ Occurs(Tail(reader_queue[s]), P)
      /\ \A L, D : NoneAfter(reader_queue[s], L, D) =>
           NoneAfter(Tail(reader_queue[s]), L, D)
  BY <1>1, OccursTail
<1>3. ~Occurs(reader_queue[s], Others(s))
  BY DEF ConnectionInv, DataInv, DataRest, OwnIds, InStream
<1>4. QED
  BY <1>2, <1>3 DEF Others

LEMMA ReadPacketData ==
    ASSUME ConnectionInv, NEW c \in Callers, ReadPacket(c)
    PROVE  DataRest'
<1>0. PICK s \in RequestIds : s = caller[c].stream
  BY QueueTypes DEF CallerRecords
<1>1. /\ reader_queue[s] # <<>>
      /\ reader_queue' = [reader_queue EXCEPT ![s] = Tail(@)]
      /\ current_read_packet' = [current_read_packet EXCEPT ![s] = Head(reader_queue[s])]
      /\ UNCHANGED <<state, active_request_streams, caller, responses, writer_queue, writing,
                     unflushed, outbound, inbound>>
  BY <1>0 DEF ReadPacket, CanRead, NextPacket, poolVars, stateVars, writerVars, callerVars,
              peerVars
<1>2. DataRest
  BY DEF ConnectionInv, DataInv
<1>3. /\ reader_queue'[s] = Tail(reader_queue[s])
      /\ current_read_packet'[s] = Head(reader_queue[s])
      /\ \A r \in RequestIds \ {s} : /\ reader_queue'[r] = reader_queue[r]
                                     /\ current_read_packet'[r] = current_read_packet[r]
  BY <1>1, QueueTypes
<1>4. ASSUME NEW r \in RequestIds, NEW P
      PROVE  /\ Occurs(reader_queue'[r], P) => Occurs(reader_queue[r], P)
             /\ InStream(r, P)' => InStream(r, P)
  <2>1. CASE r = s
    BY <1>1, <1>3, <2>1, FrontOfQueue DEF InStream
  <2>2. CASE r # s
    BY <1>3, <2>2 DEF InStream
  <2>3. QED
    BY <2>1, <2>2
<1>5. OwnIds'
  BY <1>1, <1>2, <1>4 DEF DataRest, OwnIds
<1>6. CASE state # "WORKING"
  <2>1. StreamsOwned'
    BY <1>1, <1>2, <1>4, CallersStay DEF DataRest, StreamsOwned
  <2>2. QED
    BY <1>1, <1>5, <1>6, <2>1 DEF DataRest
<1>7. CASE state = "WORKING"
  <2>1. \A r, P : Returning(r, P)' <=> Returning(r, P)
    BY <1>1 DEF Returning
  <2>2. ASSUME NEW r \in RequestIds PROVE ResponsesInOrder(r)'
    <3>1. ResponsesInOrder(r)
      BY <1>2, <1>7 DEF DataRest, InOrder
    <3>2. NoneAfter(reader_queue'[r], Last(r), Data(r))
      BY <1>1, <1>3, <3>1, FrontOfQueue DEF ResponsesInOrder
    <3>3. QED
      BY <1>1, <1>4, <2>1, <3>1, <3>2 DEF ResponsesInOrder
  <2>3. QED
    BY <1>1, <1>2, <1>4, <1>5, <1>7, <2>1, <2>2, ResponseMoves
<1>8. QED
  BY <1>6, <1>7

\* A call ends: its stream returns to the pool empty.
LEMMA ReleaseData ==
    ASSUME ConnectionInv, NEW c \in Callers, HasStream(c), ReleaseRequestStream(c),
           UNCHANGED responses,
           NEW s \in RequestIds, s = caller[c].stream
    PROVE  /\ OwnIds' /\ StreamsOwned'
           /\ active_request_streams' = active_request_streams \ {s}
           /\ reader_queue'[s] = <<>>
           /\ \A r \in RequestIds \ {s} : reader_queue'[r] = reader_queue[r]
           /\ \A d \in Callers, r \in RequestIds, n \in CallNumbers :
                Holds(d, r, n)' => Holds(d, r, n)
           /\ \A d \in Callers, r \in RequestIds : Writes(d, r)' => Writes(d, r)
<1>1. /\ active_request_streams' = active_request_streams \ {s}
      /\ reader_queue'[s] = <<>> /\ current_read_packet'[s] = NULL
      /\ \A r \in RequestIds \ {s} : /\ reader_queue'[r] = reader_queue[r]
                                     /\ current_read_packet'[r] = current_read_packet[r]
      /\ caller'[c] = IdleCaller
      /\ \A d \in Callers \ {c} : caller'[d] = caller[d]
  BY QueueTypes DEF ReleaseRequestStream, ShutdownStream
<1>2. /\ \A d \in Callers, r \in RequestIds, n \in CallNumbers :
           Holds(d, r, n)' => Holds(d, r, n)
      /\ \A d \in Callers, r \in RequestIds : Writes(d, r)' => Writes(d, r)
  BY <1>1 DEF Holds, Writes, HasStream, IdleCaller
<1>3. DataRest
  BY DEF ConnectionInv, DataInv
<1>4. \A P : NULL \notin P => ~InStream(s, P)'
  BY <1>1, OccursEmpty DEF InStream
<1>5. \A r \in RequestIds \ {s} : \A P : InStream(r, P)' <=> InStream(r, P)
  BY <1>1 DEF InStream
<1>6. OwnIds'
  BY <1>3, <1>4, <1>5, DataSets DEF DataRest, OwnIds
<1>7. StreamsOwned'
  <2>1. ASSUME NEW r \in RequestIds \ active_request_streams' PROVE ~InStream(r, Data(r))'
    BY <1>1, <1>3, <1>4, <1>5, DataSets DEF DataRest, StreamsOwned
  <2>2. ASSUME NEW d \in Callers, NEW r \in RequestIds, NEW n \in CallNumbers, Holds(d, r, n)'
        PROVE  ~InStream(r, Foreign(r, n))'
    <3>1. ~InStream(r, Foreign(r, n))
      BY <1>2, <1>3, <2>2 DEF DataRest, StreamsOwned
    <3>2. QED
      BY <1>4, <1>5, <3>1, DataSets
  <2>3. QED
    BY <2>1, <2>2 DEF StreamsOwned
<1>8. QED
  BY <1>1, <1>2, <1>6, <1>7

\* The call has got its whole response: nothing of it is left.
LEMMA CallSucceedsData ==
    ASSUME ConnectionInv, NEW c \in Callers, CallSucceeds(c)
    PROVE  DataRest'
<1>0. PICK s \in RequestIds : s = caller[c].stream
  BY QueueTypes DEF CallerRecords
<1>1. /\ HasStream(c) /\ reader_queue[s] # <<>> /\ ReleaseRequestStream(c)
      /\ Head(reader_queue[s]).type \in {"SINGLE", "END"} /\ Head(reader_queue[s]).call # 0
      /\ UNCHANGED <<state, responses, writer_queue, writing, unflushed, outbound, inbound>>
  BY <1>0 DEF CallSucceeds, CanRead, NextPacket, HasStream, stateVars, writerVars, peerVars
<1>2. /\ OwnIds' /\ StreamsOwned'
      /\ active_request_streams' = active_request_streams \ {s}
      /\ reader_queue'[s] = <<>>
      /\ \A r \in RequestIds \ {s} : reader_queue'[r] = reader_queue[r]
      /\ \A d \in Callers, r \in RequestIds, n \in CallNumbers :
           Holds(d, r, n)' => Holds(d, r, n)
      /\ \A d \in Callers, r \in RequestIds : Writes(d, r)' => Writes(d, r)
  BY <1>0, <1>1, ReleaseData
<1>3. CASE state # "WORKING"
  BY <1>1, <1>2, <1>3 DEF DataRest
<1>4. CASE state = "WORKING"
  <2>1. FlightOwned /\ InOrder
    BY <1>4 DEF ConnectionInv, DataInv, DataRest
  <2>2. Occurs(reader_queue[s], Last(s)) /\ Occurs(reader_queue[s], Data(s))
    <3>1. Head(reader_queue[s]) \in Last(s)
      BY <1>1, FrontOfQueue DEF Last, Data
    <3>2. QED
      BY <1>1, <3>1, FrontOfQueue, DataSets
  <2>3. ~InFlight(s, Data(s))
    BY <2>1, <2>2 DEF InOrder, ResponsesInOrder, RequestFirst, InFlight
  <2>4. \A r, P : /\ InFlight(r, P)' <=> InFlight(r, P)
                  /\ Returning(r, P)' <=> Returning(r, P)
                  /\ Requested(P)' <=> Requested(P)
    BY <1>1 DEF InFlight, Requested, Returning
  <2>5. FlightOwned'
    BY <1>2, <2>1, <2>3, <2>4 DEF FlightOwned
  <2>6. ASSUME NEW r \in RequestIds
        PROVE  RequestsInOrder(r)' /\ ResponsesInOrder(r)' /\ RequestFirst(r)'
    <3>1. RequestsInOrder(r)'
      BY <1>1, <2>1 DEF InOrder, RequestsInOrder
    <3>2. /\ \A P : Occurs(reader_queue'[r], P) => Occurs(reader_queue[r], P)
          /\ NoneAfter(reader_queue[r], Last(r), Data(r)) =>
               NoneAfter(reader_queue'[r], Last(r), Data(r))
      BY <1>2, OccursEmpty
    <3>3. ResponsesInOrder(r)'
      BY <1>1, <2>1, <2>4, <3>2 DEF InOrder, ResponsesInOrder
    <3>4. RequestFirst(r)'
      BY <1>2, <2>1, <2>4, <3>2 DEF InOrder, RequestFirst
    <3>5. QED
      BY <3>1, <3>3, <3>4
  <2>7. QED
    BY <1>2, <2>5, <2>6 DEF DataRest, InOrder
<1>5. QED
  BY <1>3, <1>4

\* A call that fails stops the connection.
LEMMA CallFailsData ==
    ASSUME ConnectionInv, NEW c \in Callers, CallFails(c) \/ ReadTimeout(c)
    PROVE  DataRest'
<1>0. PICK s \in RequestIds : s = caller[c].stream
  BY QueueTypes DEF CallerRecords
<1>1. HasStream(c) /\ ReleaseRequestStream(c) /\ state' # "WORKING" /\ UNCHANGED responses
  BY DEF CallFails, ReadTimeout, CanRead, HasStream, StopAsync, peerVars
<1>2. QED
  BY <1>0, <1>1, ReleaseData DEF DataRest

LEMMA CallerData ==
    ASSUME ConnectionInv, BaseInv', NEW c \in Callers, CallerStep(c)
    PROVE  DataRest'
<1>1. ~GetPooledStream(c)
  BY DEF GetPooledStream, ConnectionInv, StopInv, NobodyWaits
<1>2. QED
  BY <1>1, CreateRequestStreamData, QuietData, WriteData, ReadPacketData, CallSucceedsData,
     CallFailsData DEF CallerStep

-----------------------------------------------------------------------------
(***************************************************************************)
(* Steps of the reader fiber                                               *)
(***************************************************************************)

\* A new connection finds nothing of the last one.
LEMMA ProcessStreamData ==
    ASSUME ConnectionInv, ProcessStream
    PROVE  DataRest'
<1>1. /\ unflushed' = <<>> /\ outbound' = <<>> /\ inbound' = <<>>
      /\ responses' = [s \in RequestIds |-> <<>>]
      /\ UNCHANGED <<active_request_streams, reader_queue, current_read_packet, caller, writing,
                     writer_queue>>
  BY DEF ProcessStream, streamVars, callerVars
<1>2. active_request_streams = {} /\ writer = "none"
  BY DEF ProcessStream, ConnectionInv, StopInv, FibersAgree
<1>3. writer_queue' = <<>> /\ writing' = NULL
  BY <1>1, <1>2 DEF ConnectionInv, StopInv, FibersAgree, PacketInv, WriteHolders
<1>4. \A d \in Callers : ~HasStream(d)
  BY <1>2, NoActiveStream DEF ConnectionInv
<1>5. DataRest
  BY DEF ConnectionInv, DataInv
<1>6. /\ \A P : NULL \notin P => ~Requested(P)'
      /\ \A s \in RequestIds : \A P : ~Occurs(responses'[s], P) /\ ~Returning(s, P)'
  BY <1>1, <1>3, OccursEmpty DEF Requested, Returning
<1>7. OwnIds'
  BY <1>1, <1>5, <1>6 DEF DataRest, OwnIds, InStream
<1>8. StreamsOwned'
  BY <1>1, <1>5, CallersStay, StreamsStay DEF DataRest
<1>9. FlightOwned'
  BY <1>6, DataSets DEF FlightOwned, InFlight
<1>10. ASSUME NEW s \in RequestIds
       PROVE  RequestsInOrder(s)' /\ ResponsesInOrder(s)' /\ RequestFirst(s)'
  <2>1. ~Occurs(reader_queue'[s], Data(s)) /\ ~Occurs(reader_queue'[s], Last(s))
    <3>1. ~Occurs(reader_queue[s], Data(s))
      BY <1>2, <1>5 DEF DataRest, StreamsOwned, InStream
    <3>2. QED
      BY <1>1, <3>1, OccursWithin, DataSets
  <2>2. RequestsInOrder(s)'
    BY <1>1, <1>3, OccursEmpty, DataSets DEF RequestsInOrder
  <2>3. ResponsesInOrder(s)'
    <3>1. NoneAfter(reader_queue'[s], Last(s), Data(s))
      BY <2>1 DEF NoneAfter, Occurs
    <3>2. responses'[s] = <<>>
      BY <1>1
    <3>3. QED
      BY <1>1, <2>1, <3>1, <3>2, OccursEmpty DEF ResponsesInOrder
  <2>4. RequestFirst(s)'
    BY <1>6, <2>1, DataSets DEF RequestFirst
  <2>5. QED
    BY <2>2, <2>3, <2>4
<1>11. QED
  BY <1>7, <1>8, <1>9, <1>10 DEF DataRest, InOrder

\* The packet goes to the stream it is for.
LEMMA ReaderReadPacketData ==
    ASSUME ConnectionInv, ReaderReadPacket
    PROVE  DataRest'
<1>0. /\ inbound \in Seq(Packets) /\ inbound # <<>> /\ DataRest /\ state = "WORKING"
      /\ inbound' = Tail(inbound)
      /\ UNCHANGED <<active_request_streams, current_read_packet, responses, caller,
                     writer_queue, writing, unflushed, outbound>>
  BY QueueTypes DEF ReaderReadPacket, ConnectionInv, DataInv, WorkingLink, TypeOK, poolVars,
                    callerVars, writerVars
<1>1. PICK p \in Packets : p = Head(inbound)
  BY <1>0
<1>2. PICK s \in RequestIds : s = p.id
  BY DEF Packets
<1>3. CASE state' # "WORKING" /\ UNCHANGED reader_queue
  BY <1>0, <1>3, CallersStay, DataStays
<1>4. CASE /\ s \in active_request_streams
           /\ reader_queue' = [reader_queue EXCEPT ![s] = Append(@, p)]
           /\ UNCHANGED state
  <2>1. /\ \A P : Occurs(inbound, P) <=> p \in P \/ Occurs(inbound', P)
        /\ \A L, D : NoneAfter(inbound, L, D) =>
             NoneAfter(inbound', L, D) /\ (p \in L => ~Occurs(inbound', D))
    BY <1>0, <1>1, OccursTail
  <2>2. reader_queue[s] \in Seq(Packets) /\ reader_queue'[s] = Append(reader_queue[s], p)
    BY <1>4, QueueTypes
  <2>3. \A r \in RequestIds \ {s} : reader_queue'[r] = reader_queue[r]
    BY <1>4, QueueTypes
  <2>4. /\ \A P : Occurs(reader_queue'[s], P) <=> Occurs(reader_queue[s], P) \/ p \in P
        /\ \A L, D : NoneAfter(reader_queue[s], L, D) /\ (Occurs(reader_queue[s], L) => p \notin D)
                       => NoneAfter(reader_queue'[s], L, D)
    BY <2>2, OccursAppend
  <2>5. OwnIds'
    <3>1. p \notin Others(s)
      BY <1>2 DEF Others
    <3>2. QED
      BY <1>0, <2>3, <2>4, <3>1 DEF DataRest, OwnIds, InStream
  <2>6. ASSUME NEW r \in RequestIds, NEW P, P \subseteq Data(r)
        PROVE  /\ Returning(r, P)' => Returning(r, P)
               /\ InStream(r, P)' => InStream(r, P) \/ Returning(r, P)
               /\ Occurs(reader_queue'[r], P) => Occurs(reader_queue[r], P) \/ Returning(r, P)
    BY <1>0, <2>1, <2>3, <2>4 DEF Returning, InStream
  <2>7. ASSUME NEW r \in RequestIds PROVE ResponsesInOrder(r)'
    <3>1. ResponsesInOrder(r)
      BY <1>0 DEF DataRest, InOrder
    <3>2. CASE r # s
      BY <1>0, <2>1, <2>3, <3>1, <3>2 DEF ResponsesInOrder, Returning
    <3>3. CASE r = s
      <4>1. NoneAfter(reader_queue'[s], Last(s), Data(s))
        BY <2>1, <2>4, <3>1, <3>3 DEF ResponsesInOrder, Returning
      <4>2. Occurs(reader_queue'[s], Last(s)) => ~Returning(s, Data(s))'
        BY <1>0, <2>1, <2>4, <3>1, <3>3 DEF ResponsesInOrder, Returning
      <4>3. QED
        BY <1>0, <2>1, <3>1, <3>3, <4>1, <4>2 DEF ResponsesInOrder
    <3>4. QED
      BY <3>2, <3>3
  <2>8. QED
    BY <1>0, <1>4, <2>5, <2>6, <2>7, ResponseMoves
<1>5. QED
  BY <1>1, <1>2, <1>3, <1>4 DEF ReaderReadPacket, StopAsync, stateVars

\* The packet that tells a stream of the disconnect carries no data.
LEMMA StopAllData ==
    ASSUME ConnectionInv, StopAllRequestStreams
    PROVE  DataRest'
<1>1. /\ state' = "STOP_INITIATED" /\ DataRest
      /\ UNCHANGED <<active_request_streams, current_read_packet, responses, caller>>
  BY DEF StopAllRequestStreams, ConnectionInv, StopInv, FibersAgree, DataInv, stateVars,
         poolVars, callerVars, peerVars
<1>2. PICK T : reader_queue' = [s \in RequestIds |->
        IF s \in T THEN Append(reader_queue[s], Packet(s, "END", 0)) ELSE reader_queue[s]]
  <2>1. ASSUME NEW first, NEW captured, DisconnectFrom(first, captured)
        PROVE  \E T : reader_queue' = [s \in RequestIds |->
                 IF s \in T THEN Append(reader_queue[s], Packet(s, "END", 0)) ELSE reader_queue[s]]
    <3>1. PICK served \in SUBSET ActiveFrom(first) : reader_queue' = [s \in RequestIds |->
            IF s \in served \cup captured
              THEN Append(reader_queue[s], Packet(s, "END", 0)) ELSE reader_queue[s]]
      BY <2>1 DEF DisconnectFrom
    <3>2. QED
      BY <3>1
  <2>2. QED
    BY <2>1 DEF StopAllRequestStreams
<1>3. ASSUME NEW s \in RequestIds, NEW P, Packet(s, "END", 0) \notin P
      PROVE  InStream(s, P)' => InStream(s, P)
  <2>1. CASE s \in T
    <3>1. reader_queue'[s] = Append(reader_queue[s], Packet(s, "END", 0))
      BY <1>2, <2>1
    <3>2. reader_queue[s] \in Seq(Packets) /\ Packet(s, "END", 0) \in Packets
      BY QueueTypes, PacketType, ClientAssumption DEF PacketTypes
    <3>3. Occurs(reader_queue'[s], P) <=> Occurs(reader_queue[s], P)
      BY <1>3, <3>1, <3>2, OccursAppend
    <3>4. QED
      BY <1>1, <3>3 DEF InStream
  <2>2. CASE s \notin T
    BY <1>1, <1>2, <2>2 DEF InStream
  <2>3. QED
    BY <2>1, <2>2
<1>4. \A s : /\ Packet(s, "END", 0) \notin Data(s) /\ Packet(s, "END", 0) \notin Others(s)
             /\ \A n : Packet(s, "END", 0) \notin Foreign(s, n)
  BY DEF Packet, Data, Others, Foreign
<1>5. OwnIds' /\ StreamsOwned'
  BY <1>1, <1>3, <1>4, CallersStay DEF DataRest, OwnIds, StreamsOwned
<1>6. QED
  BY <1>1, <1>5 DEF DataRest

LEMMA ReaderData ==
    ASSUME ConnectionInv, ReaderStep
    PROVE  DataRest'
<1>1. DataRest
  BY DEF ConnectionInv, DataInv
<1>2. CASE ReaderAcquirePacket
  <2>1. UNCHANGED <<caller, active_request_streams, reader_queue, current_read_packet, responses,
                    state, writer_queue, writing, unflushed, outbound, inbound>>
    BY <1>2 DEF ReaderAcquirePacket, stateVars, poolVars, streamVars, writerVars, callerVars,
                peerVars
  <2>2. QED
    BY <1>1, <2>1, CallersStay, DataStays
<1>3. CASE ReaderFails \/ StopStreamWriter \/ ProcessStreamReturns
  <2>1. /\ UNCHANGED <<caller, active_request_streams, reader_queue, current_read_packet,
                       responses>>
        /\ state' # "WORKING"
    BY <1>3 DEF ReaderFails, StopStreamWriter, ProcessStreamReturns, StopAsync, stateVars,
                poolVars, streamVars, callerVars, peerVars, ConnectionInv, StopInv, FibersAgree
  <2>2. QED
    BY <1>1, <2>1, CallersStay, DataStays
<1>4. QED
  BY <1>2, <1>3, ProcessStreamData, ReaderReadPacketData, StopAllData DEF ReaderStep

-----------------------------------------------------------------------------
(***************************************************************************)
(* Steps of the writer fiber and of the server                             *)
(***************************************************************************)

\* Packets of requests move on, or are dropped.
LEMMA RequestMoves ==
    ASSUME DataRest, state = "WORKING",
           UNCHANGED <<state, active_request_streams, caller, reader_queue,
                       current_read_packet, inbound, responses>>,
           \A P : NULL \notin P => (Requested(P)' => Requested(P)),
           \A s \in RequestIds : RequestsInOrder(s)'
    PROVE  DataRest'
<1>1. OwnIds /\ StreamsOwned /\ FlightOwned /\ InOrder
  BY DEF DataRest
<1>2. /\ \A c \in Callers, s \in RequestIds, n \in CallNumbers :
           Holds(c, s, n)' => Holds(c, s, n)
      /\ \A c \in Callers, s \in RequestIds : Writes(c, s)' => Writes(c, s)
  BY CallersStay
<1>3. \A s, P : Returning(s, P)' <=> Returning(s, P)
  BY DEF Returning
<1>4. OwnIds' /\ StreamsOwned'
  BY <1>1, <1>2, StreamsStay DEF OwnIds, InStream
<1>5. FlightOwned'
  BY <1>1, <1>2, <1>3, DataSets DEF FlightOwned, InFlight
<1>6. ASSUME NEW s \in RequestIds PROVE ResponsesInOrder(s)' /\ RequestFirst(s)'
  <2>1. ResponsesInOrder(s)'
    BY <1>1, <1>3 DEF InOrder, ResponsesInOrder
  <2>2. RequestFirst(s)
    BY <1>1 DEF InOrder
  <2>3. QED
    BY <1>2, <1>3, <2>1, <2>2, DataSets DEF RequestFirst
<1>7. QED
  BY <1>4, <1>5, <1>6 DEF DataRest, InOrder

LEMMA WriterGetPacketData ==
    ASSUME ConnectionInv, WriterGetPacket, state = "WORKING"
    PROVE  DataRest'
<1>1. /\ writing = NULL /\ writing' = Head(writer_queue) /\ writer_queue' = Tail(writer_queue)
      /\ writer_queue # <<>> /\ writer_queue \in Seq(Packets \cup {NULL}) /\ DataRest
      /\ UNCHANGED <<state, active_request_streams, caller, reader_queue, current_read_packet,
                     inbound, responses, outbound, unflushed>>
  BY QueueTypes
  DEF WriterGetPacket, ConnectionInv, PacketInv, WriteHolders, DataInv, stateVars, poolVars,
      streamVars, callerVars, peerVars
<1>2. /\ \A P : Occurs(writer_queue, P) <=> writing' \in P \/ Occurs(writer_queue', P)
      /\ \A L, D : NoneAfter(writer_queue, L, D) =>
           NoneAfter(writer_queue', L, D) /\ (writing' \in L => ~Occurs(writer_queue', D))
  BY <1>1, OccursTail
<1>3. \A P : NULL \notin P => (Requested(P)' => Requested(P))
  BY <1>1, <1>2 DEF Requested
<1>4. ASSUME NEW s \in RequestIds PROVE RequestsInOrder(s)'
  <2>1. RequestsInOrder(s)
    BY <1>1 DEF DataRest, InOrder
  <2>2. QED
    BY <1>1, <1>2, <2>1 DEF RequestsInOrder
<1>5. QED
  BY <1>1, <1>3, <1>4, RequestMoves

LEMMA WriterWritePacketData ==
    ASSUME ConnectionInv, WriterWritePacket, state = "WORKING"
    PROVE  DataRest'
<1>1. /\ writing \in Packets /\ writing' = NULL /\ unflushed \in Seq(Packets) /\ DataRest
      /\ UNCHANGED <<active_request_streams, caller, reader_queue, current_read_packet,
                     inbound, responses, outbound, writer_queue>>
  BY QueueTypes
  DEF WriterWritePacket, ConnectionInv, StopInv, BaseInv, HoldersHold, DataInv, stateVars,
      poolVars, streamVars, callerVars, peerVars
<1>2. CASE unflushed' = Append(unflushed, writing) /\ UNCHANGED state
  <2>1. /\ \A P : Occurs(unflushed', P) <=> Occurs(unflushed, P) \/ writing \in P
        /\ \A L, D : NoneAfter(unflushed, L, D) /\ (Occurs(unflushed, L) => writing \notin D)
                       => NoneAfter(unflushed', L, D)
    BY <1>1, <1>2, OccursAppend
  <2>2. \A P : NULL \notin P => (Requested(P)' => Requested(P))
    BY <1>1, <2>1 DEF Requested
  <2>3. ASSUME NEW s \in RequestIds PROVE RequestsInOrder(s)'
    <3>1. RequestsInOrder(s)
      BY <1>1 DEF DataRest, InOrder
    <3>2. NULL \notin Data(s) /\ NULL \notin Last(s)
      BY DataSets
    <3>3. QED
      BY <1>1, <2>1, <3>1, <3>2 DEF RequestsInOrder
  <2>4. QED
    BY <1>1, <1>2, <2>2, <2>3, RequestMoves
<1>3. CASE state' # "WORKING"
  BY <1>1, <1>3, CallersStay, DataStays
<1>4. QED
  BY <1>2, <1>3 DEF WriterWritePacket, StopAsync, stateVars

LEMMA WriterFlushData ==
    ASSUME ConnectionInv, WriterFlush, state = "WORKING"
    PROVE  DataRest'
<1>1. /\ unflushed \in Seq(Packets) /\ outbound \in Seq(Packets) /\ DataRest
      /\ UNCHANGED <<active_request_streams, caller, reader_queue, current_read_packet,
                     inbound, responses, writing, writer_queue>>
  BY QueueTypes
  DEF WriterFlush, ConnectionInv, DataInv, poolVars, streamVars, callerVars
<1>2. CASE unflushed' = <<>> /\ UNCHANGED state /\ outbound' \in {outbound \o unflushed, outbound}
  <2>1. /\ \A P : Occurs(outbound \o unflushed, P) <=> Occurs(outbound, P) \/ Occurs(unflushed, P)
        /\ \A L, D : /\ NoneAfter(outbound, L, D) /\ NoneAfter(unflushed, L, D)
                     /\ Occurs(outbound, L) => ~Occurs(unflushed, D)
                     => NoneAfter(outbound \o unflushed, L, D)
    BY <1>1, OccursConcat
  <2>2. \A P, L, D : ~Occurs(unflushed', P) /\ NoneAfter(unflushed', L, D)
    BY <1>2, OccursEmpty
  <2>3. \A P : NULL \notin P => (Requested(P)' => Requested(P))
    BY <1>1, <1>2, <2>1, <2>2 DEF Requested
  <2>4. ASSUME NEW s \in RequestIds PROVE RequestsInOrder(s)'
    <3>1. RequestsInOrder(s)
      BY <1>1 DEF DataRest, InOrder
    <3>2. CASE outbound' = outbound
      BY <1>1, <2>2, <3>1, <3>2 DEF RequestsInOrder
    <3>3. CASE outbound' = outbound \o unflushed
      BY <1>1, <2>1, <2>2, <3>1, <3>3 DEF RequestsInOrder
    <3>4. QED
      BY <1>2, <3>2, <3>3
  <2>5. QED
    BY <1>1, <1>2, <2>3, <2>4, RequestMoves
<1>3. CASE state' # "WORKING"
  BY <1>1, <1>3, CallersStay, DataStays
<1>4. QED
  BY <1>2, <1>3 DEF WriterFlush, StopAsync, stateVars

LEMMA WriterData ==
    ASSUME ConnectionInv, WriterStep
    PROVE  DataRest'
<1>1. /\ DataRest /\ state' \in {state, "STOP_INITIATED"}
      /\ UNCHANGED <<caller, active_request_streams, reader_queue, current_read_packet, responses>>
  BY DEF WriterStep, WriterGetPacket, WriterWritePacket, WriterFlush, WriterSkipPacket,
         ConnectionInv, DataInv, StopAsync, stateVars, poolVars, streamVars, callerVars, peerVars
<1>2. CASE state # "WORKING"
  BY <1>1, <1>2, CallersStay, DataStays
<1>3. CASE state = "WORKING"
  <2>1. ~WriterSkipPacket
    BY <1>3 DEF WriterSkipPacket, ConnectionInv, DataInv, WorkingLink
  <2>2. QED
    BY <1>3, <2>1, WriterGetPacketData, WriterWritePacketData, WriterFlushData DEF WriterStep
<1>4. QED
  BY <1>2, <1>3

\* The packets of a message, of which only the last is a last one.
LEMMA MessageData ==
    ASSUME NEW s \in RequestIds, NEW n \in CallNumbers, NEW k \in 1 .. MaxResponsePackets
    PROVE  /\ Message(s, n, k) \in Seq(Packets)
           /\ \A r, D : NoneAfter(Message(s, n, k), Last(r), D)
           /\ \A P : Occurs(Message(s, n, k), P) => \E q \in P : q.id = s /\ q.call = n
<1> DEFINE m == Message(s, n, k)
<1>1. m \in Seq(Packets)
  BY MessageType DEF CallNumbers
<1>2. k \in Nat /\ Len(m) = k
  BY ClientAssumption DEF Message
<1>3. \A i \in 1 .. k : /\ m[i].id = s /\ m[i].call = n
                        /\ m[i].type \in {"SINGLE", "END"} => i = k
  BY <1>2 DEF Message, Packet
<1> HIDE DEF m
<1>4. ASSUME NEW r, NEW D PROVE NoneAfter(m, Last(r), D)
  <2> SUFFICES ASSUME NEW i \in 1 .. Len(m), NEW j \in 1 .. Len(m), i < j, m[i] \in Last(r)
               PROVE  FALSE
    BY DEF NoneAfter
  <2>1. m[i].type \in {"SINGLE", "END"}
    BY DEF Last
  <2>2. i = k
    BY <1>2, <1>3, <2>1
  <2>3. QED
    BY <1>2, <2>2
<1>5. \A P : Occurs(m, P) => \E q \in P : q.id = s /\ q.call = n
  BY <1>2, <1>3 DEF Occurs
<1>6. QED
  BY <1>1, <1>4, <1>5 DEF m

\* A complete request turns into its response.
LEMMA ServerReceivesData ==
    ASSUME ConnectionInv, ServerReceives
    PROVE  DataRest'
<1>0. /\ state = "WORKING" /\ DataRest /\ outbound \in Seq(Packets) /\ outbound # <<>>
      /\ outbound' = Tail(outbound)
      /\ UNCHANGED <<state, active_request_streams, caller, reader_queue, current_read_packet,
                     inbound, unflushed, writing, writer_queue>>
  BY QueueTypes DEF ServerReceives, ConnectionInv, DataInv, WorkingLink, stateVars, poolVars,
                    streamVars, writerVars, callerVars
<1>1. PICK p \in Packets : p = Head(outbound)
  BY <1>0
<1>2. PICK s \in RequestIds : s = p.id
  BY DEF Packets
<1>3. PICK n \in CallNumbers : n = p.call
  BY DEF Packets, CallNumbers
<1>4. FlightOwned /\ InOrder /\ StreamsOwned /\ OwnIds
  BY <1>0 DEF DataRest
<1>5. /\ \A P : Occurs(outbound, P) <=> p \in P \/ Occurs(outbound', P)
      /\ \A L, D : NoneAfter(outbound, L, D) =>
           NoneAfter(outbound', L, D) /\ (p \in L => ~Occurs(outbound', D))
  BY <1>0, <1>1, OccursTail
<1>6. \A P : Requested(P)' => Requested(P)
  BY <1>0, <1>5 DEF Requested
<1>7. ASSUME NEW r \in RequestIds PROVE RequestsInOrder(r)'
  <2>1. RequestsInOrder(r)
    BY <1>4 DEF InOrder
  <2>2. QED
    BY <1>0, <1>5, <2>1 DEF RequestsInOrder
<1>8. CASE UNCHANGED responses
  BY <1>0, <1>6, <1>7, <1>8, RequestMoves
<1>9. ASSUME NEW k \in 1 .. MaxResponsePackets, p.type \in {"SINGLE", "END"},
             responses' = [responses EXCEPT ![s] = @ \o Message(s, n, k)]
      PROVE  DataRest'
  <2>1. /\ Message(s, n, k) \in Seq(Packets)
        /\ \A r, D : NoneAfter(Message(s, n, k), Last(r), D)
        /\ \A P : Occurs(Message(s, n, k), P) => \E q \in P : q.id = s /\ q.call = n
    BY MessageData
  <2>2. /\ responses[s] \in Seq(Packets) /\ responses'[s] = responses[s] \o Message(s, n, k)
        /\ \A r \in RequestIds \ {s} : responses'[r] = responses[r]
    BY <1>9, QueueTypes
  <2>3. /\ \A P : Occurs(responses'[s], P) <=>
             Occurs(responses[s], P) \/ Occurs(Message(s, n, k), P)
        /\ \A L, D : /\ NoneAfter(responses[s], L, D) /\ NoneAfter(Message(s, n, k), L, D)
                     /\ Occurs(responses[s], L) => ~Occurs(Message(s, n, k), D)
                     => NoneAfter(responses'[s], L, D)
    BY <2>1, <2>2, OccursConcat
  <2>4. OwnIds'
    <3>1. ~Occurs(Message(s, n, k), Others(s))
      BY <2>1 DEF Others
    <3>2. QED
      BY <1>0, <1>4, <2>2, <2>3, <3>1 DEF OwnIds, InStream
  <2>5. StreamsOwned'
    BY <1>0, <1>4, CallersStay, StreamsStay
  <2>6. ASSUME NEW r \in RequestIds, r # s
        PROVE  \A P : /\ Returning(r, P)' <=> Returning(r, P)
                      /\ InFlight(r, P)' => InFlight(r, P)
    BY <1>0, <1>6, <2>2, <2>6 DEF Returning, InFlight
  <2>7. /\ \A c \in Callers, r \in RequestIds, j \in CallNumbers :
             Holds(c, r, j)' => Holds(c, r, j)
        /\ \A c \in Callers, r \in RequestIds : Writes(c, r)' => Writes(c, r)
    BY <1>0, CallersStay
  \* what becomes of stream s
  <2>8. /\ s \notin active_request_streams => ~InFlight(s, Data(s))'
        /\ \A c \in Callers, j \in CallNumbers : Holds(c, s, j) => ~InFlight(s, Foreign(s, j))'
    <3>1. ASSUME NEW P, p \in P \/ ~Occurs(Message(s, n, k), P), ~InFlight(s, P)
          PROVE  ~InFlight(s, P)'
      BY <1>0, <1>5, <1>6, <2>3, <3>1 DEF InFlight, Requested, Returning
    <3>2. p \in Data(s) \/ ~Occurs(Message(s, n, k), Data(s))
      BY <1>2, <1>3, <2>1 DEF Data
    <3>3. \A j : p \in Foreign(s, j) \/ ~Occurs(Message(s, n, k), Foreign(s, j))
      BY <1>2, <1>3, <2>1 DEF Foreign, Data
    <3>4. QED
      BY <1>4, <3>1, <3>2, <3>3 DEF FlightOwned
  <2>9. ResponsesInOrder(s)' /\ RequestFirst(s)'
    <3>1. RequestsInOrder(s) /\ ResponsesInOrder(s) /\ RequestFirst(s)
      BY <1>4 DEF InOrder
    <3>2. CASE p \in Data(s)
      <4>1. p \in Last(s) /\ Requested(Last(s)) /\ Requested(Data(s))
        BY <1>5, <1>9, <3>2 DEF Last, Requested
      <4>2. /\ ~Returning(s, Data(s)) /\ ~Occurs(reader_queue[s], Data(s))
            /\ \A c \in Callers : ~Writes(c, s)
        BY <3>1, <4>1 DEF RequestFirst
      <4>3. /\ ~Occurs(inbound, Last(s)) /\ ~Occurs(responses[s], Last(s))
            /\ ~Occurs(reader_queue[s], Last(s))
        BY <4>2, OccursWithin, DataSets DEF Returning
      <4>4. ~Requested(Data(s))'
        BY <1>0, <1>5, <3>1, <4>1 DEF RequestsInOrder, Requested
      <4>5. NoneAfter(responses'[s], Last(s), Data(s))
        BY <2>1, <2>3, <3>1, <4>3 DEF ResponsesInOrder
      <4>6. ResponsesInOrder(s)'
        BY <1>0, <3>1, <4>3, <4>5 DEF ResponsesInOrder
      <4>7. RequestFirst(s)'
        BY <2>7, <4>2, <4>4 DEF RequestFirst
      <4>8. QED
        BY <4>6, <4>7
    <3>3. CASE p \notin Data(s)
      <4>1. ~Occurs(Message(s, n, k), Data(s))
        BY <1>2, <1>3, <2>1, <3>3 DEF Data
      <4>2. Returning(s, Data(s))' <=> Returning(s, Data(s))
        BY <1>0, <2>3, <4>1 DEF Returning
      <4>3. ResponsesInOrder(s)'
        BY <1>0, <2>1, <2>3, <3>1, <4>1, <4>2 DEF ResponsesInOrder
      <4>4. RequestFirst(s)'
        BY <1>0, <1>6, <2>7, <3>1, <4>2 DEF RequestFirst
      <4>5. QED
        BY <4>3, <4>4
    <3>4. QED
      BY <3>2, <3>3
  <2>10. FlightOwned'
    BY <1>0, <1>4, <2>6, <2>7, <2>8 DEF FlightOwned
  <2>11. ASSUME NEW r \in RequestIds PROVE ResponsesInOrder(r)' /\ RequestFirst(r)'
    <3>1. CASE r = s
      BY <2>9, <3>1
    <3>2. CASE r # s
      <4>1. ResponsesInOrder(r) /\ RequestFirst(r)
        BY <1>4 DEF InOrder
      <4>2. ResponsesInOrder(r)'
        BY <1>0, <2>2, <2>6, <3>2, <4>1 DEF ResponsesInOrder
      <4>3. RequestFirst(r)'
        BY <1>0, <1>6, <2>6, <2>7, <3>2, <4>1 DEF RequestFirst
      <4>4. QED
        BY <4>2, <4>3
    <3>3. QED
      BY <3>1, <3>2
  <2>12. QED
    BY <1>7, <2>4, <2>5, <2>10, <2>11 DEF DataRest, InOrder
<1>10. QED
  BY <1>1, <1>2, <1>3, <1>8, <1>9 DEF ServerReceives

LEMMA ServerSendsData ==
    ASSUME ConnectionInv, NEW s \in RequestIds, ServerSends(s)
    PROVE  DataRest'
<1>1. /\ state = "WORKING" /\ DataRest /\ responses[s] # <<>>
      /\ responses[s] \in Seq(Packets) /\ inbound \in Seq(Packets)
      /\ responses' = [responses EXCEPT ![s] = Tail(@)]
      /\ UNCHANGED <<state, active_request_streams, caller, reader_queue, current_read_packet,
                     outbound, unflushed, writing, writer_queue>>
  BY QueueTypes DEF ServerSends, ConnectionInv, DataInv, WorkingLink, stateVars, poolVars,
                    streamVars, writerVars, callerVars
<1>2. PICK p \in Packets : p = Head(responses[s])
  BY <1>1
<1>3. /\ inbound' = Append(inbound, p)
      /\ responses'[s] = Tail(responses[s])
      /\ \A r \in RequestIds \ {s} : responses'[r] = responses[r]
  BY <1>1, <1>2, QueueTypes DEF ServerSends
<1>4. /\ \A P : Occurs(responses[s], P) <=> p \in P \/ Occurs(responses'[s], P)
      /\ \A L, D : NoneAfter(responses[s], L, D) =>
           NoneAfter(responses'[s], L, D) /\ (p \in L => ~Occurs(responses'[s], D))
  BY <1>1, <1>2, <1>3, OccursTail
<1>5. /\ \A P : Occurs(inbound', P) <=> Occurs(inbound, P) \/ p \in P
      /\ \A L, D : NoneAfter(inbound, L, D) /\ (Occurs(inbound, L) => p \notin D)
                     => NoneAfter(inbound', L, D)
  BY <1>1, <1>3, OccursAppend
<1>6. p.id = s
  <2>1. ~Occurs(responses[s], Others(s))
    BY <1>1 DEF DataRest, OwnIds
  <2>2. p \notin Others(s)
    BY <1>4, <2>1
  <2>3. QED
    BY <2>2 DEF Others
<1>7. \A r : r # s => p \notin Data(r) /\ p \notin Last(r)
  BY <1>6 DEF Last, Data
<1>8. OwnIds'
  BY <1>1, <1>3, <1>4 DEF DataRest, OwnIds, InStream
<1>9. ASSUME NEW r \in RequestIds, NEW P, P \subseteq Data(r)
      PROVE  /\ Returning(r, P)' => Returning(r, P)
             /\ InStream(r, P)' => InStream(r, P)
             /\ Occurs(reader_queue'[r], P) => Occurs(reader_queue[r], P)
  BY <1>1, <1>3, <1>4, <1>5, <1>7, <1>9 DEF Returning, InStream
<1>10. ASSUME NEW r \in RequestIds PROVE ResponsesInOrder(r)'
  <2>1. ResponsesInOrder(r)
    BY <1>1 DEF DataRest, InOrder
  <2>2. ~Returning(r, Data(r)) => ~Returning(r, Data(r))'
    BY <1>9
  <2>3. CASE r = s
    BY <1>1, <1>4, <1>5, <2>1, <2>2, <2>3 DEF ResponsesInOrder
  <2>4. CASE r # s
    BY <1>1, <1>3, <1>5, <1>7, <2>1, <2>2, <2>4 DEF ResponsesInOrder
  <2>5. QED
    BY <2>3, <2>4
<1>11. QED
  BY <1>1, <1>8, <1>9, <1>10, ResponseMoves

LEMMA ServerSendsGarbageData ==
    ASSUME ConnectionInv, ServerSendsGarbage
    PROVE  DataRest'
<1>1. /\ state = "WORKING" /\ DataRest /\ inbound \in Seq(Packets)
      /\ UNCHANGED <<state, active_request_streams, caller, reader_queue, current_read_packet,
                     responses, outbound, unflushed, writing, writer_queue>>
  BY QueueTypes DEF ServerSendsGarbage, ConnectionInv, DataInv, WorkingLink, stateVars, poolVars,
                    streamVars, writerVars, callerVars
<1>2. PICK p \in Packets : p.call = 0 /\ inbound' = Append(inbound, p)
  <2>1. PICK s \in RequestIds, t \in PacketTypes : inbound' = Append(inbound, Packet(s, t, 0))
    BY DEF ServerSendsGarbage
  <2>2. Packet(s, t, 0) \in Packets /\ Packet(s, t, 0).call = 0
    BY ClientAssumption DEF Packet, Packets
  <2>3. QED
    BY <2>1, <2>2
<1>3. \A s : p \notin Data(s) /\ p \notin Last(s)
  BY <1>2, NoData
<1>4. /\ \A P : Occurs(inbound', P) <=> Occurs(inbound, P) \/ p \in P
      /\ \A L, D : NoneAfter(inbound, L, D) /\ (Occurs(inbound, L) => p \notin D)
                     => NoneAfter(inbound', L, D)
  BY <1>1, <1>2, OccursAppend
<1>5. OwnIds'
  BY <1>1 DEF DataRest, OwnIds, InStream
<1>6. ASSUME NEW r \in RequestIds, NEW P, P \subseteq Data(r)
      PROVE  /\ Returning(r, P)' => Returning(r, P)
             /\ InStream(r, P)' => InStream(r, P)
             /\ Occurs(reader_queue'[r], P) => Occurs(reader_queue[r], P)
  BY <1>1, <1>3, <1>4, <1>6 DEF Returning, InStream
<1>7. ASSUME NEW r \in RequestIds PROVE ResponsesInOrder(r)'
  <2>1. ResponsesInOrder(r)
    BY <1>1 DEF DataRest, InOrder
  <2>2. QED
    BY <1>1, <1>3, <1>4, <1>6, <2>1 DEF ResponsesInOrder
<1>8. QED
  BY <1>1, <1>5, <1>6, <1>7, ResponseMoves

-----------------------------------------------------------------------------
(***************************************************************************)
(* The invariant and its theorems                                          *)
(***************************************************************************)

\* The connection closes when the stop begins, and a writer fiber that skips
\* packets has begun it.
LEMMA StepWorkingLink ==
    ASSUME WorkingLink, TypeOK, [Next]_vars
    PROVE  WorkingLink'
<1>1. ASSUME NEW c \in Callers, CallerStep(c) PROVE WorkingLink'
  BY <1>1 DEF CallerStep, CreateRequestStream, GetPooledStream, GetWritePacket, WritePacket,
              Flush, QueueWritePacket, ReadPacket, CallSucceeds, CallFails, ReadTimeout,
              StopAsync, WorkingLink, stateVars, readerVars, writerVars
<1>2. CASE ReaderStep
  BY <1>2 DEF ReaderStep, ProcessStream, ReaderAcquirePacket, ReaderReadPacket, ReaderFails,
              StopAllRequestStreams, DisconnectFrom, StopStreamWriter, ProcessStreamReturns,
              StopAsync, WorkingLink, TypeOK, stateVars, writerVars
<1>3. CASE WriterStep
  BY <1>3 DEF WriterStep, WriterGetPacket, WriterWritePacket, AfterWrite, WriterFlush,
              WriterSkipPacket, StopAsync, WorkingLink, stateVars, readerVars
<1>4. CASE ServerStep \/ LinkBreaks \/ StopRequested \/ UNCHANGED vars
  BY <1>4 DEF ServerStep, ServerReceives, ServerSends, ServerSendsGarbage, LinkBreaks,
              StopRequested, StopAsync, WorkingLink, vars, stateVars, readerVars, writerVars
<1>5. QED
  BY <1>1, <1>2, <1>3, <1>4 DEF Next, Terminated

LEMMA StepData ==
    ASSUME ConnectionInv, BaseInv', [Next]_vars
    PROVE  DataRest'
<1>1. CASE LinkBreaks \/ StopRequested \/ UNCHANGED vars
  <2>1. /\ UNCHANGED <<caller, active_request_streams, reader_queue, current_read_packet,
                       responses, writer_queue, writing, unflushed, outbound, inbound>>
        /\ state' \in {state, "STOP_INITIATED"}
    BY <1>1 DEF LinkBreaks, StopRequested, StopAsync, vars, stateVars, poolVars, streamVars,
                writerVars, callerVars, peerVars
  <2>2. DataRest
    BY DEF ConnectionInv, DataInv
  <2>3. QED
    BY <2>1, <2>2, CallersStay, DataStays
<1>2. QED
  BY <1>1, CallerData, ReaderData, WriterData, ServerReceivesData, ServerSendsData,
     ServerSendsGarbageData DEF Next, ServerStep, Terminated

LEMMA InitConnection == Init => ConnectionInv
<1> SUFFICES ASSUME Init PROVE ConnectionInv
  OBVIOUS
<1>1. StopInv /\ PacketInv
  BY InitStops, InitPackets
<1>2. WorkingLink
  BY DEF Init, WorkingLink
<1>3. \A s \in RequestIds : \A P : NULL \notin P =>
        ~InStream(s, P) /\ ~Occurs(responses[s], P)
  <2>1. \A s \in RequestIds : /\ reader_queue[s] = <<>> /\ responses[s] = <<>>
                              /\ current_read_packet[s] = NULL
    BY DEF Init
  <2>2. QED
    BY <2>1, OccursEmpty DEF InStream
<1>4. OwnIds /\ StreamsOwned
  BY <1>3, DataSets DEF OwnIds, StreamsOwned
<1>5. state # "WORKING"
  BY DEF Init
<1>6. QED
  BY <1>1, <1>2, <1>4, <1>5 DEF ConnectionInv, DataInv, DataRest

LEMMA StepConnection ==
    ASSUME FewCallers, ConnectionInv, [Next]_vars
    PROVE  ConnectionInv'
<1>1. StopInv' /\ PacketInv'
  BY StepStops, StepPackets DEF ConnectionInv
<1>2. WorkingLink'
  BY StepWorkingLink, QueueTypes DEF ConnectionInv, DataInv
<1>3. DataRest'
  BY <1>1, StepData DEF StopInv
<1>4. QED
  BY <1>1, <1>2, <1>3 DEF ConnectionInv, DataInv

LEMMA OwnDataFollows == ConnectionInv => OwnDataOnly
<1> SUFFICES ASSUME ConnectionInv, NEW c \in Callers, HasStream(c),
                    NEW p \in Range(reader_queue[caller[c].stream])
                                \cup {current_read_packet[caller[c].stream]}
             PROVE  p.call \in {0, caller[c].call}
  BY DEF OwnDataOnly
<1>1. PICK s \in RequestIds : s = caller[c].stream
  BY QueueTypes DEF CallerRecords
<1>2. PICK n \in CallNumbers : n = caller[c].call
  BY QueueTypes DEF CallerRecords, CallNumbers
<1>3. reader_queue[s] \in Seq(Packets) /\ current_read_packet[s] \in Packets \cup {NULL}
  BY QueueTypes
<1>4. ~InStream(s, Others(s)) /\ ~InStream(s, Foreign(s, n))
  <2>1. Holds(c, s, n)
    BY <1>1, <1>2 DEF Holds
  <2>2. QED
    BY <2>1 DEF ConnectionInv, DataInv, DataRest, OwnIds, StreamsOwned
<1>5. CASE p = NULL
  BY <1>5 DEF NULL
<1>6. CASE p # NULL
  <2>1. p \in Packets /\ p \notin Others(s) /\ p \notin Foreign(s, n)
    <3>1. CASE p = current_read_packet[s]
      BY <1>3, <1>4, <1>6, <3>1 DEF InStream
    <3>2. CASE p \in Range(reader_queue[s])
      <4>1. PICK i \in DOMAIN reader_queue[s] : p = reader_queue[s][i]
        BY <3>2 DEF Range
      <4>2. i \in 1 .. Len(reader_queue[s]) /\ p \in Packets
        BY <1>3, <4>1
      <4>3. QED
        BY <1>4, <4>1, <4>2 DEF InStream, Occurs
    <3>3. QED
      BY <1>1, <3>1, <3>2
  <2>2. QED
    BY <1>2, <2>1 DEF Others, Foreign, Data
<1>7. QED
  BY <1>5, <1>6

\* A caller reads data of its own call only, however often request ids are
\* used again by later calls and later connections, as long as callers never
\* wait for a stream.
THEOREM OwnData ==
    ASSUME FewCallers
    PROVE  Spec => []OwnDataOnly
BY InitConnection, StepConnection, OwnDataFollows, PTL DEF Spec

LEMMA ResponsesFollow == ConnectionInv => ResponsesHaveOwner
<1> SUFFICES ASSUME ConnectionInv, link = "up", NEW s \in RequestIds,
                    NEW p \in Range(responses[s]) \cup {q \in Range(inbound) : q.id = s},
                    p.call # 0
             PROVE  \E c \in Callers : /\ HasStream(c)
                                       /\ caller[c].stream = s
                                       /\ caller[c].call = p.call
  BY DEF ResponsesHaveOwner
<1>1. state = "WORKING" /\ OwnIds /\ FlightOwned
  BY DEF ConnectionInv, DataInv, WorkingLink, DataRest
<1>2. responses[s] \in Seq(Packets) /\ inbound \in Seq(Packets)
  BY QueueTypes
<1>3. p \in Packets /\ p.id = s /\ \A P : p \in P => Returning(s, P)
  <2>1. CASE p \in Range(responses[s])
    <3>1. PICK i \in DOMAIN responses[s] : p = responses[s][i]
      BY <2>1 DEF Range
    <3>2. i \in 1 .. Len(responses[s]) /\ p \in Packets
      BY <1>2, <3>1
    <3>3. \A P : p \in P => Occurs(responses[s], P)
      BY <3>1, <3>2 DEF Occurs
    <3>4. p.id = s
      BY <1>1, <3>2, <3>3 DEF OwnIds, Others
    <3>5. QED
      BY <3>2, <3>3, <3>4 DEF Returning
  <2>2. CASE p \in Range(inbound) /\ p.id = s
    <3>1. PICK i \in DOMAIN inbound : p = inbound[i]
      BY <2>2 DEF Range
    <3>2. i \in 1 .. Len(inbound) /\ p \in Packets
      BY <1>2, <3>1
    <3>3. \A P : p \in P => Occurs(inbound, P)
      BY <3>1, <3>2 DEF Occurs
    <3>4. QED
      BY <2>2, <3>2, <3>3 DEF Returning
  <2>3. QED
    BY <2>1, <2>2
<1>4. p \in Data(s)
  BY <1>3 DEF Data
<1>5. s \in active_request_streams
  BY <1>1, <1>3, <1>4 DEF FlightOwned, InFlight
<1>6. PICK c \in Callers : HasStream(c) /\ caller[c].stream = s
  BY <1>5 DEF ConnectionInv, StopInv, BaseInv, StreamsHeldOnce
<1>7. PICK n \in CallNumbers : n = caller[c].call
  BY QueueTypes DEF CallerRecords, CallNumbers
<1>8. p \notin Foreign(s, n)
  BY <1>1, <1>3, <1>6, <1>7 DEF FlightOwned, InFlight, Holds
<1>9. QED
  BY <1>4, <1>6, <1>7, <1>8 DEF Foreign

\* While the connection is up, whatever part of a response is still to be sent
\* or read, its stream is active and belongs to the call that asked: a packet
\* for an id that is not active is a protocol error of the server.
THEOREM ResponsesOwned ==
    ASSUME FewCallers
    PROVE  Spec => []ResponsesHaveOwner
BY InitConnection, StepConnection, ResponsesFollow, PTL DEF Spec
=============================================================================
