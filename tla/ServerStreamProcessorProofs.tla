-------------------- MODULE ServerStreamProcessorProofs --------------------
(***************************************************************************)
(* Proofs about the server stream processor, for every number of streams,  *)
(* packets, requests and connections, and whatever the client sends.       *)
(***************************************************************************)
EXTENDS ServerStreamProcessor, FiniteSetTheorems, CommonFacts, TLAPS

(***************************************************************************)
(* The inductive invariant                                                 *)
(***************************************************************************)

\* The writer fiber holds a packet exactly while it writes it, and a worker
\* exactly while it fills it.
Holders ==
    /\ writer = "write" <=> writing # NULL
    /\ \A s \in Streams : worker[s].pc = "write" <=> current_write_packet[s] # "none"

\* The stream for which stop_all_request_streams waits: nobody else can have
\* got it meanwhile.
Captured ==
    /\ disconnecting # {} <=> reader = "disconnect"
    /\ \A d, e \in disconnecting : d = e
    /\ \A d \in disconnecting : \A j \in ActiveIds :
         active_request_streams[j] = d[2] => j = d[1]

\* The reader fiber, the writer fiber, the state, the two events and the queue.
\* The NULL packet is in the queue only once nobody can queue anything behind it.
FibersAgree ==
    /\ reader = "none" <=> state = "STOPPED"
    /\ link = "none" <=> state = "STOPPED"
    /\ state = "WORKING" => link # "closed"
    /\ reader \in {"stop_all", "disconnect", "wait_streams", "wait_writer"} =>
         state = "STOP_INITIATED"
    /\ writer = "skip" => state = "STOP_INITIATED"
    /\ reader \in {"none", "start"} =>
         /\ writer = "none"
         /\ ActiveIds = {}
         /\ ~request_streams_stop_event /\ ~writer_stop_event
         /\ writer_queue = <<>>
    /\ reader \in {"acquire", "read", "stop_all", "disconnect", "wait_streams"} =>
         /\ writer # "none"
         /\ ~writer_stop_event
         /\ request_streams_stop_event <=> ActiveIds = {}
         /\ \A k \in 1 .. Len(writer_queue) : writer_queue[k] # NULL
    /\ reader = "wait_writer" =>
         /\ ActiveIds = {}
         /\ ~request_streams_stop_event
         /\ writer_stop_event <=> writer = "none"
         /\ writer = "none" => writer_queue = <<>>
         /\ writer # "none" =>
              /\ Len(writer_queue) > 0
              /\ \A k \in 1 .. Len(writer_queue) :
                   writer_queue[k] = NULL <=> k = Len(writer_queue)

held == [s \in Streams |-> HeldPackets(s)]

\* the packets in the writer queue; the NULL packet is not one of the pool
QueuedCount ==
    Len(writer_queue) - (IF reader = "wait_writer" /\ writer # "none" THEN 1 ELSE 0)

\* PacketsConserved, counted stream by stream and with the length of the queue.
PacketsCounted ==
    free_packets + Cardinality(Places(Streams, held)) + QueuedCount
      + (IF reader = "read" THEN 1 ELSE 0)
      + (IF writing = NULL THEN 0 ELSE 1) = MaxPackets

ServerInv ==
    /\ TypeOK /\ active_request_streams \in [ActiveIds -> Streams]
    /\ StreamsHeldOnce /\ Holders /\ Captured
    /\ FibersAgree
    /\ PacketsCounted

-----------------------------------------------------------------------------
(***************************************************************************)
(* Facts about the data                                                    *)
(***************************************************************************)

LEMMA NullIsNoPacket == NULL \notin Packets
BY DEF NULL, Packets, PacketTypes

LEMMA RequestIdsFinite ==
    /\ IsFiniteSet(RequestIds)
    /\ Cardinality(RequestIds) = MaxStreams
    /\ 0 \in RequestIds
    /\ RequestIds \subseteq Nat
BY FS_Interval, ServerAssumption DEF RequestIds

LEMMA PacketType ==
    ASSUME NEW i \in RequestIds, NEW t \in PacketTypes, NEW n \in 0 .. MaxRequests
    PROVE  Packet(i, t, n) \in Packets
BY DEF Packet, Packets

LEMMA ActiveIdsFinite ==
    ASSUME NEW S \in SUBSET RequestIds
    PROVE  /\ IsFiniteSet(S)
           /\ Cardinality(S) \in 0 .. MaxStreams
           /\ Cardinality(S) = 0 <=> S = {}
<1>1. IsFiniteSet(S) /\ Cardinality(S) <= MaxStreams
  BY FS_Subset, RequestIdsFinite
<1>2. Cardinality(S) \in Nat
  BY <1>1, FS_CardinalityType
<1>3. QED
  BY <1>1, <1>2, FS_EmptySet, ServerAssumption

LEMMA HeldType ==
    ASSUME reader_queue \in [Streams -> Seq(Packets)]
    PROVE  /\ \A s \in Streams : HeldPackets(s) \in Nat
           /\ held \in [Streams -> Nat]
           /\ Cardinality(Places(Streams, held)) \in Nat
<1>1. ASSUME NEW s \in Streams PROVE HeldPackets(s) \in Nat
  <2>1. Len(reader_queue[s]) \in Nat
    OBVIOUS
  <2>2. /\ (IF current_write_packet[s] = "none" THEN 0 ELSE 1) \in Nat
        /\ (IF current_read_packet[s] = NULL THEN 0 ELSE 1) \in Nat
    OBVIOUS
  <2>3. ASSUME NEW a \in Nat, NEW b \in Nat, NEW n \in Nat
        PROVE  a + b + n \in Nat
    OBVIOUS
  <2>4. QED
    BY <2>1, <2>2, <2>3, Zenon DEF HeldPackets
<1>2. held \in [Streams -> Nat]
  BY <1>1 DEF held
<1>3. QED
  BY <1>1, <1>2, PlacesFinite, ServerAssumption

\* The same in the next state.
LEMMA HeldTypeNext ==
    ASSUME reader_queue' \in [Streams -> Seq(Packets)]
    PROVE  /\ \A s \in Streams : HeldPackets(s)' \in Nat
           /\ held' \in [Streams -> Nat]
           /\ Cardinality(Places(Streams, held))' \in Nat
<1>1. ASSUME NEW s \in Streams PROVE HeldPackets(s)' \in Nat
  <2>1. Len(reader_queue'[s]) \in Nat
    OBVIOUS
  <2>2. /\ (IF current_write_packet'[s] = "none" THEN 0 ELSE 1) \in Nat
        /\ (IF current_read_packet'[s] = NULL THEN 0 ELSE 1) \in Nat
    OBVIOUS
  <2>3. ASSUME NEW a \in Nat, NEW b \in Nat, NEW n \in Nat
        PROVE  a + b + n \in Nat
    OBVIOUS
  <2>4. QED
    BY <2>1, <2>2, <2>3, Zenon DEF HeldPackets
<1>2. held' \in [Streams -> Nat]
  BY <1>1 DEF held
<1>3. Cardinality(Places(Streams, held')) \in Nat
  BY <1>2, PlacesFinite, ServerAssumption
<1>4. QED
  BY <1>1, <1>2, <1>3 DEF Places

(***************************************************************************)
(* The packets of the streams                                              *)
(***************************************************************************)

\* The counting facts of CommonFacts, for the streams of the pool.
LEMMA CountOneChanges ==
    \A h, g \in [Streams -> Nat] : \A s \in Streams :
      (\A t \in Streams \ {s} : g[t] = h[t]) =>
        Cardinality(Places(Streams, g)) = Cardinality(Places(Streams, h)) - h[s] + g[s]
<1>1. IsFiniteSet(Streams)
  BY ServerAssumption
<1>2. QED
  BY <1>1, PlacesOneChanges

LEMMA CountManyGrow ==
    \A h, g \in [Streams -> Nat] : \A T \in SUBSET Streams :
      (\A s \in Streams : g[s] = IF s \in T THEN h[s] + 1 ELSE h[s]) =>
        Cardinality(Places(Streams, g)) = Cardinality(Places(Streams, h)) + Cardinality(T)
<1>1. IsFiniteSet(Streams)
  BY ServerAssumption
<1>2. QED
  BY <1>1, PlacesManyGrow

LEMMA HeldAlone ==
    ASSUME UNCHANGED <<reader_queue, current_read_packet, current_write_packet>>
    PROVE  Cardinality(Places(Streams, held))' = Cardinality(Places(Streams, held))
<1>1. held' = held
  BY DEF held, HeldPackets
<1>2. QED
  BY <1>1 DEF Places

\* Only the packets of stream s change.
LEMMA HeldChanges ==
    ASSUME reader_queue \in [Streams -> Seq(Packets)],
           reader_queue' \in [Streams -> Seq(Packets)],
           NEW s \in Streams,
           \A t \in Streams \ {s} :
              /\ reader_queue'[t] = reader_queue[t]
              /\ current_read_packet'[t] = current_read_packet[t]
              /\ current_write_packet'[t] = current_write_packet[t]
    PROVE  Cardinality(Places(Streams, held))' =
             Cardinality(Places(Streams, held)) - HeldPackets(s) + HeldPackets(s)'
<1>1. held \in [Streams -> Nat] /\ held' \in [Streams -> Nat]
  BY HeldType, HeldTypeNext
<1>2. \A t \in Streams \ {s} : held'[t] = held[t]
  BY DEF held, HeldPackets
<1>3. Cardinality(Places(Streams, held')) =
        Cardinality(Places(Streams, held)) - held[s] + held'[s]
  BY <1>1, <1>2, CountOneChanges
<1>4. held[s] = HeldPackets(s) /\ held'[s] = HeldPackets(s)'
  BY DEF held
<1>5. Cardinality(Places(Streams, held))' = Cardinality(Places(Streams, held'))
  BY DEF Places
<1>6. QED
  BY <1>3, <1>4, <1>5

(***************************************************************************)
(* Who works for which request                                             *)
(***************************************************************************)
StreamsType ==
    /\ ActiveIds \subseteq RequestIds
    /\ active_request_streams \in [ActiveIds -> Streams]
    /\ Range(active_request_streams) \subseteq Streams
    /\ active_request_streams_cnt \in 0 .. MaxStreams
    /\ request_streams_stop_event \in BOOLEAN

\* Steps in which no worker starts or ends.
LEMMA SameWorkers ==
    ASSUME ServerInv, UNCHANGED <<active_request_streams, active_request_streams_cnt>>,
           \A s \in Streams : /\ worker'[s].pc # "none" <=> worker[s].pc # "none"
                              /\ worker'[s].id = worker[s].id
    PROVE  /\ StreamsHeldOnce'
           /\ active_request_streams' \in [ActiveIds' -> Streams]
<1>1. ActiveIds' = ActiveIds /\ FreeStreams' = FreeStreams
  BY DEF ActiveIds, FreeStreams
<1>2. \A i \in ActiveIds : active_request_streams[i] \in Streams
  BY DEF ServerInv
<1>3. QED
  BY <1>1, <1>2 DEF ServerInv, StreamsHeldOnce

\* A worker knows the id its stream works for, and the streams of different ids
\* are different.
LEMMA StreamOfWorker ==
    ASSUME ServerInv
    PROVE  /\ \A s \in Streams : worker[s].pc # "none" =>
                 /\ worker[s].id \in ActiveIds
                 /\ active_request_streams[worker[s].id] = s
           /\ \A i, j \in ActiveIds :
                 active_request_streams[i] = active_request_streams[j] => i = j
           /\ \A i \in ActiveIds : worker[active_request_streams[i]].pc # "none"
<1>1. ASSUME NEW s \in Streams, worker[s].pc # "none"
      PROVE  worker[s].id \in ActiveIds /\ active_request_streams[worker[s].id] = s
  <2>1. s \in Range(active_request_streams)
    BY <1>1 DEF ServerInv, StreamsHeldOnce, FreeStreams
  <2>2. PICK i \in ActiveIds : active_request_streams[i] = s
    BY <2>1 DEF Range, ActiveIds
  <2>3. QED
    BY <2>2 DEF ServerInv, StreamsHeldOnce
<1>2. \A i, j \in ActiveIds :
        active_request_streams[i] = active_request_streams[j] => i = j
  BY DEF ServerInv, StreamsHeldOnce
<1>3. ASSUME NEW i \in ActiveIds
      PROVE  worker[active_request_streams[i]].pc # "none"
  <2>1. /\ active_request_streams[i] \in Streams
        /\ active_request_streams[i] \in Range(active_request_streams)
    BY DEF ServerInv, Range, ActiveIds
  <2>2. QED
    BY <2>1 DEF ServerInv, StreamsHeldOnce, FreeStreams
<1>4. QED
  BY <1>1, <1>2, <1>3

\* acquire_request_stream: a free id gets a free stream.
LEMMA Acquiring ==
    ASSUME ServerInv, NEW i \in RequestIds \ ActiveIds, NEW s \in FreeStreams,
           AcquireRequestStream(i, s)
    PROVE  /\ StreamsType' /\ StreamsHeldOnce'
           /\ ActiveIds' = ActiveIds \cup {i}
           /\ request_streams_stop_event' =
                (request_streams_stop_event /\ ActiveIds # {})
           /\ worker' \in [Streams -> Workers]
<1> DEFINE ars == active_request_streams
<1>0. /\ s \in Streams /\ s \notin Range(ars)
      /\ ActiveIds \subseteq RequestIds
      /\ ars \in [ActiveIds -> Streams]
      /\ worker \in [Streams -> Workers]
  BY DEF ServerInv, TypeOK, FreeStreams
<1>1. ars' = [j \in ActiveIds \cup {i} |-> IF j = i THEN s ELSE ars[j]]
  BY DEF AcquireRequestStream
<1>2. /\ ActiveIds' = ActiveIds \cup {i}
      /\ ars' \in [ActiveIds \cup {i} -> Streams]
  BY <1>0, <1>1 DEF ActiveIds
<1>3. Range(ars)' = Range(ars) \cup {s}
  BY <1>0, <1>1 DEF Range
<1>4. /\ active_request_streams_cnt = Cardinality(ActiveIds)
      /\ Cardinality(ActiveIds \cup {i}) = Cardinality(ActiveIds) + 1
  BY <1>0, ActiveIdsFinite, FS_AddElement DEF ServerInv, StreamsHeldOnce
<1>5. active_request_streams_cnt' = Cardinality(ActiveIds')
  BY <1>2, <1>4 DEF AcquireRequestStream
<1>6. Cardinality(ActiveIds') \in 0 .. MaxStreams
  BY <1>0, <1>2, ActiveIdsFinite
<1>7. request_streams_stop_event' =
        (request_streams_stop_event /\ ActiveIds # {})
  <2>1. active_request_streams_cnt + 1 = 1 <=> ActiveIds = {}
    BY <1>0, <1>4, ActiveIdsFinite
  <2>2. request_streams_stop_event \in BOOLEAN
    BY DEF ServerInv, TypeOK
  <2>3. QED
    BY <2>1, <2>2 DEF AcquireRequestStream
<1>8. /\ worker'[s].pc = "read" /\ worker'[s].id = i
      /\ \A t \in Streams \ {s} : worker'[t] = worker[t]
      /\ worker' \in [Streams -> Workers]
  <2>1. [pc |-> "read", id |-> i, call |-> 0, left |-> 0] \in Workers
    BY ServerAssumption DEF Workers, WorkerStates
  <2>2. QED
    BY <1>0, <2>1 DEF AcquireRequestStream
<1>9. \A t \in Streams : worker'[t].pc # "none" <=> t \notin FreeStreams'
  BY <1>0, <1>3, <1>8 DEF ServerInv, StreamsHeldOnce, FreeStreams
<1>10. \A j \in ActiveIds' : worker'[ars'[j]].id = j
  BY <1>0, <1>1, <1>2, <1>8 DEF ServerInv, StreamsHeldOnce, Range
<1>11. StreamsHeldOnce'
  BY <1>5, <1>9, <1>10 DEF StreamsHeldOnce
<1>12. StreamsType'
  <2>1. Range(ars)' \subseteq Streams
    BY <1>0, <1>3 DEF ServerInv, TypeOK
  <2>2. request_streams_stop_event' \in BOOLEAN
    BY <1>7
  <2>3. QED
    BY <1>0, <1>2, <1>5, <1>6, <2>1, <2>2 DEF StreamsType
<1>13. QED
  BY <1>2, <1>7, <1>8, <1>11, <1>12

\* release_request_stream: the worker of stream s ends.
LEMMA Releasing ==
    ASSUME ServerInv, NEW s \in Streams, worker[s].pc # "none",
           NEW n, ReleaseRequestStream(s, n)
    PROVE  /\ StreamsType' /\ StreamsHeldOnce'
           /\ ActiveIds # {} /\ ActiveIds' \subseteq ActiveIds
           /\ \A j \in ActiveIds' : active_request_streams'[j] = active_request_streams[j]
           /\ request_streams_stop_event' =
                (request_streams_stop_event \/ ActiveIds' = {})
           /\ worker' \in [Streams -> Workers]
<1> DEFINE ars == active_request_streams
           i == worker[s].id
<1>0. /\ ActiveIds \subseteq RequestIds
      /\ ars \in [ActiveIds -> Streams]
      /\ worker \in [Streams -> Workers]
      /\ i \in ActiveIds /\ ars[i] = s
      /\ \A j \in ActiveIds : ars[j] = s => j = i
  BY StreamOfWorker DEF ServerInv, TypeOK
<1>1. ars' = [j \in ActiveIds \ {i} |-> ars[j]]
  BY DEF ReleaseRequestStream, Restrict
<1>2. /\ ActiveIds' = ActiveIds \ {i}
      /\ ars' \in [ActiveIds \ {i} -> Streams]
      /\ \A j \in ActiveIds' : ars'[j] = ars[j]
  BY <1>0, <1>1 DEF ActiveIds
<1>3. Range(ars)' = Range(ars) \ {s}
  BY <1>0, <1>1 DEF Range
<1>4. /\ active_request_streams_cnt = Cardinality(ActiveIds)
      /\ Cardinality(ActiveIds \ {i}) = Cardinality(ActiveIds) - 1
  BY <1>0, ActiveIdsFinite, FS_RemoveElement DEF ServerInv, StreamsHeldOnce
<1>5. active_request_streams_cnt' = Cardinality(ActiveIds')
  BY <1>2, <1>4 DEF ReleaseRequestStream
<1>6. Cardinality(ActiveIds') \in 0 .. MaxStreams
  BY <1>0, <1>2, ActiveIdsFinite
<1>7. request_streams_stop_event' =
        (request_streams_stop_event \/ ActiveIds' = {})
  <2>1. active_request_streams_cnt - 1 = 0 <=> ActiveIds' = {}
    BY <1>0, <1>2, <1>4, ActiveIdsFinite
  <2>2. request_streams_stop_event \in BOOLEAN
    BY DEF ServerInv, TypeOK
  <2>3. QED
    BY <2>1, <2>2 DEF ReleaseRequestStream
<1>8. /\ worker'[s].pc = "none"
      /\ \A t \in Streams \ {s} : worker'[t] = worker[t]
      /\ worker' \in [Streams -> Workers]
  BY <1>0, RequestIdsFinite, ServerAssumption
     DEF ReleaseRequestStream, Workers, WorkerStates, NoWorker
<1>9. \A t \in Streams : worker'[t].pc # "none" <=> t \notin FreeStreams'
  BY <1>0, <1>3, <1>8 DEF ServerInv, StreamsHeldOnce, FreeStreams
<1>10. \A j \in ActiveIds' : worker'[ars'[j]].id = j
  BY <1>0, <1>1, <1>2, <1>8 DEF ServerInv, StreamsHeldOnce
<1>11. StreamsHeldOnce'
  BY <1>5, <1>9, <1>10 DEF StreamsHeldOnce
<1>12. StreamsType'
  <2>1. Range(ars)' \subseteq Streams
    BY <1>3 DEF ServerInv, TypeOK
  <2>2. request_streams_stop_event' \in BOOLEAN
    BY <1>7
  <2>3. QED
    BY <1>0, <1>2, <1>5, <1>6, <2>1, <2>2 DEF StreamsType
<1>13. QED
  BY <1>0, <1>2, <1>7, <1>8, <1>11, <1>12

-----------------------------------------------------------------------------
(***************************************************************************)
(* Steps of a worker                                                       *)
(***************************************************************************)

\* While a worker runs, the reader fiber has not told the writer fiber to stop.
LEMMA WorkerRuns ==
    ASSUME ServerInv, NEW s \in Streams, worker[s].pc # "none"
    PROVE  /\ ActiveIds # {}
           /\ reader \in {"acquire", "read", "stop_all", "disconnect", "wait_streams"}
           /\ state # "STOPPED"
<1>1. ActiveIds # {}
  BY StreamOfWorker
<1>2. QED
  BY <1>1 DEF ServerInv, FibersAgree, TypeOK

\* A worker may queue a packet, initiate the stop and end: the protocol between
\* the fibers is kept.
LEMMA WorkerProtocol ==
    ASSUME ServerInv, ActiveIds # {},
           UNCHANGED <<reader, disconnecting, writer, writer_stop_event>>,
           UNCHANGED stateVars \/ StopAsync,
           \/ writer_queue' = writer_queue
           \/ \E p \in Packets : writer_queue' = Append(writer_queue, p),
           ActiveIds' \subseteq ActiveIds,
           \A j \in ActiveIds' : active_request_streams'[j] = active_request_streams[j],
           request_streams_stop_event' = (request_streams_stop_event \/ ActiveIds' = {})
    PROVE  FibersAgree' /\ Captured'
<1>1. reader \in {"acquire", "read", "stop_all", "disconnect", "wait_streams"}
  BY DEF ServerInv, FibersAgree, TypeOK
<1>2. /\ writer # "none" /\ ~writer_stop_event
      /\ request_streams_stop_event <=> ActiveIds = {}
      /\ \A k \in 1 .. Len(writer_queue) : writer_queue[k] # NULL
      /\ writer_queue \in Seq(Packets \cup {NULL})
  BY <1>1 DEF ServerInv, FibersAgree, TypeOK
<1>3. /\ link' = "none" <=> state' = "STOPPED"
      /\ reader' = "none" <=> state' = "STOPPED"
      /\ state' = "WORKING" => link' # "closed"
      /\ reader' \in {"stop_all", "disconnect", "wait_streams", "wait_writer"} =>
           state' = "STOP_INITIATED"
      /\ writer' = "skip" => state' = "STOP_INITIATED"
  BY <1>1 DEF ServerInv, FibersAgree, StopAsync, stateVars
<1>4. \A k \in 1 .. Len(writer_queue') : writer_queue'[k] # NULL
  BY <1>2, NullIsNoPacket
<1>5. request_streams_stop_event' <=> ActiveIds' = {}
  BY <1>2
<1>6. FibersAgree'
  BY <1>1, <1>2, <1>3, <1>4, <1>5 DEF FibersAgree
<1>7. Captured'
  BY DEF ServerInv, Captured
<1>8. QED
  BY <1>6, <1>7

\* Packets move between the pool, the streams and the queue.
LEMMA MovesPackets ==
    ASSUME ServerInv, UNCHANGED <<reader, writer, writing>>,
           free_packets' + Cardinality(Places(Streams, held))' + Len(writer_queue') =
             free_packets + Cardinality(Places(Streams, held)) + Len(writer_queue),
           free_packets' \in Nat, reader_queue' \in [Streams -> Seq(Packets)],
           writer_queue' \in Seq(Packets \cup {NULL})
    PROVE  PacketsCounted'
<1>1. /\ Cardinality(Places(Streams, held)) \in Nat
      /\ Cardinality(Places(Streams, held))' \in Nat
      /\ Len(writer_queue) \in Nat /\ Len(writer_queue') \in Nat
      /\ free_packets \in Nat
  <2>1. /\ reader_queue \in [Streams -> Seq(Packets)] /\ free_packets \in Nat
        /\ writer_queue \in Seq(Packets \cup {NULL})
    BY DEF ServerInv, TypeOK
  <2>2. /\ Cardinality(Places(Streams, held)) \in Nat
        /\ Cardinality(Places(Streams, held))' \in Nat
    BY <2>1, HeldType, HeldTypeNext
  <2>3. Len(writer_queue) \in Nat /\ Len(writer_queue') \in Nat
    BY <2>1
  <2>4. QED
    BY <2>1, <2>2, <2>3
<1>2. MaxPackets \in Nat
  BY ServerAssumption
<1>3. QED
  BY <1>1, <1>2, SMTT(30) DEF ServerInv, PacketsCounted, QueuedCount

\* mrpc_packet_stream_read_data goes on with the next packet of the queue and
\* gives the one before back to the pool.
LEMMA ReadsOne ==
    ASSUME ServerInv, NEW s \in Streams, reader_queue[s] # <<>>,
           reader_queue' = [reader_queue EXCEPT ![s] = Tail(@)],
           current_read_packet' = [current_read_packet EXCEPT ![s] = NextPacket(s)],
           free_packets' = IF current_read_packet[s] = NULL THEN free_packets
                                                            ELSE free_packets + 1,
           UNCHANGED <<current_write_packet, writer_queue, reader, writer, writing>>
    PROVE  /\ NextPacket(s) \in Packets
           /\ reader_queue' \in [Streams -> Seq(Packets)]
           /\ current_read_packet' \in [Streams -> Packets \cup {NULL}]
           /\ free_packets' \in Nat
           /\ PacketsCounted'
<1>1. /\ reader_queue \in [Streams -> Seq(Packets)] /\ free_packets \in Nat
      /\ current_read_packet \in [Streams -> Packets \cup {NULL}]
      /\ writer_queue \in Seq(Packets \cup {NULL})
  BY DEF ServerInv, TypeOK
<1>2. /\ NextPacket(s) \in Packets /\ NextPacket(s) # NULL
      /\ Tail(reader_queue[s]) \in Seq(Packets)
      /\ Len(Tail(reader_queue[s])) = Len(reader_queue[s]) - 1
      /\ Len(reader_queue[s]) \in Nat
  BY <1>1, NullIsNoPacket DEF NextPacket
<1>3. /\ reader_queue' \in [Streams -> Seq(Packets)]
      /\ current_read_packet' \in [Streams -> Packets \cup {NULL}]
      /\ free_packets' \in Nat
  BY <1>1, <1>2
<1>4. HeldPackets(s)' =
        IF current_read_packet[s] = NULL THEN HeldPackets(s) ELSE HeldPackets(s) - 1
  BY <1>1, <1>2 DEF HeldPackets
<1>5. \A t \in Streams \ {s} :
        /\ reader_queue'[t] = reader_queue[t]
        /\ current_read_packet'[t] = current_read_packet[t]
        /\ current_write_packet'[t] = current_write_packet[t]
  BY <1>1
<1>6. Cardinality(Places(Streams, held))' =
        Cardinality(Places(Streams, held)) - HeldPackets(s) + HeldPackets(s)'
  BY <1>1, <1>3, <1>5, HeldChanges
<1>7. /\ Cardinality(Places(Streams, held)) \in Nat
      /\ HeldPackets(s) \in Nat
      /\ Len(writer_queue) \in Nat
  BY <1>1, HeldType
<1>8. free_packets' + Cardinality(Places(Streams, held))' + Len(writer_queue') =
        free_packets + Cardinality(Places(Streams, held)) + Len(writer_queue)
  BY <1>1, <1>4, <1>6, <1>7
<1>9. PacketsCounted'
  BY <1>1, <1>3, <1>8, MovesPackets
<1>10. QED
  BY <1>2, <1>3, <1>9

LEMMA ReadPacketStep ==
    ASSUME ServerInv, NEW s \in Streams, ReadPacket(s)
    PROVE  ServerInv'
<1> USE DEF stateVars, poolVars, readerVars, writerVars, clientVars, wireVars
<1>1. /\ reader_queue' \in [Streams -> Seq(Packets)]
      /\ current_read_packet' \in [Streams -> Packets \cup {NULL}]
      /\ free_packets' \in Nat
      /\ PacketsCounted'
  BY ReadsOne DEF ReadPacket, CanRead
<1>2. TypeOK'
  BY <1>1 DEF ServerInv, TypeOK, ReadPacket, ActiveIds, Range
<1>3. StreamsHeldOnce' /\ active_request_streams' \in [ActiveIds' -> Streams]
  BY SameWorkers DEF ReadPacket
<1>4. Holders'
  BY DEF ServerInv, Holders, ReadPacket
<1>5. FibersAgree' /\ Captured'
  <2>1. ActiveIds # {} /\ ActiveIds' = ActiveIds
    BY WorkerRuns DEF ReadPacket, CanRead, ActiveIds
  <2>2. request_streams_stop_event' = (request_streams_stop_event \/ ActiveIds' = {})
    BY <2>1 DEF ReadPacket, ServerInv, TypeOK
  <2>3. QED
    BY <2>1, <2>2, WorkerProtocol DEF ReadPacket
<1>6. QED
  BY <1>1, <1>2, <1>3, <1>4, <1>5 DEF ServerInv

LEMMA ReadLastPacketStep ==
    ASSUME ServerInv, NEW s \in Streams, ReadLastPacket(s)
    PROVE  ServerInv'
<1> USE DEF stateVars, poolVars, readerVars, writerVars, clientVars, wireVars
<1>1. /\ NextPacket(s) \in Packets
      /\ reader_queue' \in [Streams -> Seq(Packets)]
      /\ current_read_packet' \in [Streams -> Packets \cup {NULL}]
      /\ free_packets' \in Nat
      /\ PacketsCounted'
  BY ReadsOne DEF ReadLastPacket, CanRead
<1>2. worker \in [Streams -> Workers]
  BY DEF ServerInv, TypeOK
<1>3. PICK k \in 1 .. MaxResponsePackets :
        worker' = [worker EXCEPT ![s].pc = "write_first", ![s].left = k,
                                 ![s].call = NextPacket(s).call]
  BY DEF ReadLastPacket
<1>4. /\ worker' \in [Streams -> Workers]
      /\ worker'[s].pc = "write_first" /\ worker'[s].id = worker[s].id
      /\ \A t \in Streams \ {s} : worker'[t] = worker[t]
  <2>1. k \in 0 .. MaxResponsePackets /\ NextPacket(s).call \in 0 .. MaxRequests
    BY <1>1, ServerAssumption DEF Packets
  <2>2. QED
    BY <1>2, <1>3, <2>1, ZenonT(30) DEF Workers, WorkerStates
<1>5. TypeOK'
  BY <1>1, <1>4, SMTT(30) DEF ServerInv, TypeOK, ReadLastPacket, ActiveIds, Range
<1>6. StreamsHeldOnce' /\ active_request_streams' \in [ActiveIds' -> Streams]
  <2>1. \A t \in Streams : /\ worker'[t].pc # "none" <=> worker[t].pc # "none"
                           /\ worker'[t].id = worker[t].id
    BY <1>4 DEF ReadLastPacket, CanRead
  <2>2. QED
    BY <2>1, SameWorkers DEF ReadLastPacket
<1>7. Holders'
  BY <1>4 DEF ServerInv, Holders, ReadLastPacket, CanRead
<1>8. FibersAgree' /\ Captured'
  <2>1. ActiveIds # {} /\ ActiveIds' = ActiveIds
    BY WorkerRuns DEF ReadLastPacket, CanRead, ActiveIds
  <2>2. request_streams_stop_event' = (request_streams_stop_event \/ ActiveIds' = {})
    BY <2>1 DEF ReadLastPacket, ServerInv, TypeOK
  <2>3. QED
    BY <2>1, <2>2, WorkerProtocol DEF ReadLastPacket
<1>9. QED
  BY <1>1, <1>5, <1>6, <1>7, <1>8 DEF ServerInv

\* mrpc_packet_stream_shutdown gives back exactly what the stream holds.
LEMMA Shutting ==
    ASSUME ServerInv, NEW s \in Streams, NEW n \in Nat, ShutdownStream(s, n),
           UNCHANGED <<reader, writer, writing>>,
           writer_queue' \in Seq(Packets \cup {NULL}),
           Len(writer_queue') + n = Len(writer_queue) + HeldPackets(s)
    PROVE  /\ reader_queue' \in [Streams -> Seq(Packets)]
           /\ current_read_packet' \in [Streams -> Packets \cup {NULL}]
           /\ current_write_packet' \in [Streams -> {"none", "START", "MIDDLE"}]
           /\ current_write_packet'[s] = "none"
           /\ \A t \in Streams \ {s} : current_write_packet'[t] = current_write_packet[t]
           /\ free_packets' \in Nat
           /\ PacketsCounted'
<1>1. /\ reader_queue \in [Streams -> Seq(Packets)] /\ free_packets \in Nat
      /\ current_read_packet \in [Streams -> Packets \cup {NULL}]
      /\ current_write_packet \in [Streams -> {"none", "START", "MIDDLE"}]
      /\ writer_queue \in Seq(Packets \cup {NULL})
  BY DEF ServerInv, TypeOK
<1>2. /\ reader_queue' \in [Streams -> Seq(Packets)]
      /\ current_read_packet' \in [Streams -> Packets \cup {NULL}]
      /\ current_write_packet' \in [Streams -> {"none", "START", "MIDDLE"}]
      /\ free_packets' = free_packets + n
      /\ reader_queue'[s] = <<>> /\ current_read_packet'[s] = NULL
      /\ current_write_packet'[s] = "none"
      /\ \A t \in Streams \ {s} :
           /\ reader_queue'[t] = reader_queue[t]
           /\ current_read_packet'[t] = current_read_packet[t]
           /\ current_write_packet'[t] = current_write_packet[t]
  BY <1>1 DEF ShutdownStream
<1>3. HeldPackets(s)' = 0
  BY <1>2 DEF HeldPackets
<1>4. Cardinality(Places(Streams, held))' =
        Cardinality(Places(Streams, held)) - HeldPackets(s) + HeldPackets(s)'
  BY <1>1, <1>2, HeldChanges
<1>5. /\ Cardinality(Places(Streams, held)) \in Nat
      /\ HeldPackets(s) \in Nat
      /\ Len(writer_queue) \in Nat /\ Len(writer_queue') \in Nat
  BY <1>1, HeldType
<1>6. free_packets' + Cardinality(Places(Streams, held))' + Len(writer_queue') =
        free_packets + Cardinality(Places(Streams, held)) + Len(writer_queue)
  <2>1. free_packets' = free_packets + n /\ free_packets \in Nat
    BY <1>1, <1>2
  <2>2. QED
    BY <2>1, <1>3, <1>4, <1>5
<1>7. free_packets' \in Nat
  BY <1>1, <1>2
<1>8. PacketsCounted'
  BY <1>2, <1>6, <1>7, MovesPackets
<1>9. QED
  BY <1>2, <1>7, <1>8

\* A worker ends, after it has queued the last packet of its response or without.
LEMMA ReleaseStep ==
    ASSUME ServerInv, NEW s \in Streams, worker[s].pc # "none",
           NEW n \in Nat, ReleaseRequestStream(s, n),
           UNCHANGED <<readerVars, writerVars, clientVars, wireVars, unflushed>>,
           UNCHANGED stateVars \/ StopAsync,
           \/ writer_queue' = writer_queue /\ n = HeldPackets(s)
           \/ /\ \E p \in Packets : writer_queue' = Append(writer_queue, p)
              /\ n = HeldPackets(s) - 1
    PROVE  ServerInv'
<1> USE DEF readerVars, writerVars, clientVars, wireVars
<1>1. /\ writer_queue' \in Seq(Packets \cup {NULL})
      /\ Len(writer_queue') + n = Len(writer_queue) + HeldPackets(s)
  <2>1. /\ writer_queue \in Seq(Packets \cup {NULL}) /\ Len(writer_queue) \in Nat
        /\ HeldPackets(s) \in Nat
    BY HeldType DEF ServerInv, TypeOK
  <2>2. CASE writer_queue' = writer_queue /\ n = HeldPackets(s)
    BY <2>1, <2>2
  <2>3. CASE /\ \E p \in Packets : writer_queue' = Append(writer_queue, p)
             /\ n = HeldPackets(s) - 1
    <3>1. /\ writer_queue' \in Seq(Packets \cup {NULL})
          /\ Len(writer_queue') = Len(writer_queue) + 1
      BY <2>1, <2>3
    <3>2. QED
      BY <2>1, <2>3, <3>1
  <2>4. QED
    BY <2>2, <2>3
<1>2. ShutdownStream(s, n)
  BY DEF ReleaseRequestStream
<1>3. /\ reader_queue' \in [Streams -> Seq(Packets)]
      /\ current_read_packet' \in [Streams -> Packets \cup {NULL}]
      /\ current_write_packet' \in [Streams -> {"none", "START", "MIDDLE"}]
      /\ current_write_packet'[s] = "none"
      /\ \A t \in Streams \ {s} : current_write_packet'[t] = current_write_packet[t]
      /\ free_packets' \in Nat
      /\ PacketsCounted'
  BY <1>1, <1>2, Shutting
<1>4. /\ StreamsType' /\ StreamsHeldOnce'
      /\ ActiveIds # {} /\ ActiveIds' \subseteq ActiveIds
      /\ \A j \in ActiveIds' : active_request_streams'[j] = active_request_streams[j]
      /\ request_streams_stop_event' =
           (request_streams_stop_event \/ ActiveIds' = {})
      /\ worker' \in [Streams -> Workers]
  BY Releasing
<1>5. /\ state' \in {"STOPPED", "WORKING", "STOP_INITIATED"}
      /\ link' \in {"none", "up", "down", "closed"}
  BY DEF ServerInv, TypeOK, StopAsync, stateVars
<1>6. TypeOK'
  BY <1>1, <1>3, <1>4, <1>5 DEF ServerInv, TypeOK, StreamsType
<1>7. Holders'
  <2>1. worker'[s].pc = "none" /\ \A t \in Streams \ {s} : worker'[t] = worker[t]
    BY DEF ReleaseRequestStream, NoWorker, ServerInv, TypeOK
  <2>2. QED
    BY <1>3, <2>1 DEF ServerInv, Holders
<1>8. FibersAgree' /\ Captured'
  BY <1>4, WorkerProtocol
<1>9. QED
  BY <1>3, <1>4, <1>6, <1>7, <1>8 DEF ServerInv, StreamsType

LEMMA RequestFailsStep ==
    ASSUME ServerInv, NEW s \in Streams, RequestFails(s)
    PROVE  ServerInv'
<1>1. HeldPackets(s) \in Nat
  BY HeldType DEF ServerInv, TypeOK
<1>2. QED
  BY <1>1, ReleaseStep DEF RequestFails, CanRead

LEMMA ReadTimeoutStep ==
    ASSUME ServerInv, NEW s \in Streams, ReadTimeout(s)
    PROVE  ServerInv'
<1>1. HeldPackets(s) \in Nat
  BY HeldType DEF ServerInv, TypeOK
<1>2. QED
  BY <1>1, ReleaseStep DEF ReadTimeout

LEMMA FlushEndsStep ==
    ASSUME ServerInv, NEW s \in Streams, FlushEnds(s)
    PROVE  ServerInv'
<1>1. HeldPackets(s) \in Nat
  BY HeldType DEF ServerInv, TypeOK
<1>2. QED
  BY <1>1, ReleaseStep DEF FlushEnds

\* A worker gets a write packet, or queues the one it has filled and gets
\* another one or none.
WriteMoves(s, t) ==
    /\ current_write_packet' = [current_write_packet EXCEPT ![s] = t]
    /\ \/ /\ writer_queue' = writer_queue
          /\ current_write_packet[s] = "none" /\ t # "none"
       \/ /\ \E p \in Packets : writer_queue' = Append(writer_queue, p)
          /\ current_write_packet[s] # "none"
    /\ \/ free_packets > 0 /\ free_packets' = free_packets - 1 /\ t # "none"
       \/ free_packets' = free_packets /\ t = "none"

LEMMA WritesCount ==
    ASSUME ServerInv, NEW s \in Streams, NEW t \in {"none", "START", "MIDDLE"},
           WriteMoves(s, t),
           UNCHANGED <<reader_queue, current_read_packet, reader, writer, writing>>
    PROVE  /\ writer_queue' \in Seq(Packets \cup {NULL})
           /\ current_write_packet' \in [Streams -> {"none", "START", "MIDDLE"}]
           /\ current_write_packet'[s] = t
           /\ \A r \in Streams \ {s} : current_write_packet'[r] = current_write_packet[r]
           /\ free_packets' \in Nat
           /\ PacketsCounted'
<1>1. /\ reader_queue \in [Streams -> Seq(Packets)] /\ free_packets \in Nat
      /\ current_write_packet \in [Streams -> {"none", "START", "MIDDLE"}]
      /\ writer_queue \in Seq(Packets \cup {NULL})
  BY DEF ServerInv, TypeOK
<1>2. /\ current_write_packet' \in [Streams -> {"none", "START", "MIDDLE"}]
      /\ current_write_packet'[s] = t
      /\ \A r \in Streams \ {s} : current_write_packet'[r] = current_write_packet[r]
  BY <1>1 DEF WriteMoves
<1> DEFINE a == IF current_write_packet[s] = "none" THEN 0 ELSE 1
           b == IF t = "none" THEN 0 ELSE 1
           r == IF current_read_packet[s] = NULL THEN 0 ELSE 1
<1>n. a \in Nat /\ b \in Nat /\ r \in Nat
  OBVIOUS
<1>3. /\ writer_queue' \in Seq(Packets \cup {NULL})
      /\ Len(writer_queue') = Len(writer_queue) + a
      /\ Len(writer_queue) \in Nat
  <2>1. CASE writer_queue' = writer_queue /\ current_write_packet[s] = "none"
    BY <1>1, <2>1
  <2>2. CASE /\ \E p \in Packets : writer_queue' = Append(writer_queue, p)
             /\ current_write_packet[s] # "none"
    BY <1>1, <2>2
  <2>3. QED
    BY <2>1, <2>2 DEF WriteMoves
<1>4. free_packets' \in Nat /\ free_packets' = free_packets - b
  BY <1>1 DEF WriteMoves
<1>5. HeldPackets(s)' = HeldPackets(s) - a + b
  <2>1. Len(reader_queue[s]) \in Nat
    BY <1>1
  <2>2. HeldPackets(s) = Len(reader_queue[s]) + a + r
    BY DEF HeldPackets
  <2>3. HeldPackets(s)' = Len(reader_queue[s]) + b + r
    BY <1>2 DEF HeldPackets
  <2> HIDE DEF a, b, r
  <2>4. QED
    BY <1>n, <2>1, <2>2, <2>3
<1>6. Cardinality(Places(Streams, held))' =
        Cardinality(Places(Streams, held)) - HeldPackets(s) + HeldPackets(s)'
  BY <1>1, <1>2, HeldChanges
<1>7. /\ Cardinality(Places(Streams, held)) \in Nat
      /\ HeldPackets(s) \in Nat
  BY <1>1, HeldType
<1>8. free_packets' + Cardinality(Places(Streams, held))' + Len(writer_queue') =
        free_packets + Cardinality(Places(Streams, held)) + Len(writer_queue)
  <2>1. free_packets \in Nat
    BY <1>1
  <2> HIDE DEF a, b, r
  <2>2. QED
    BY <1>n, <1>3, <1>4, <1>5, <1>6, <1>7, <2>1
<1>9. PacketsCounted'
  BY <1>1, <1>3, <1>4, <1>8, MovesPackets
<1>10. QED
  BY <1>2, <1>3, <1>4, <1>9

LEMMA WritesOne ==
    ASSUME ServerInv, NEW s \in Streams, worker[s].pc # "none",
           NEW t \in {"none", "START", "MIDDLE"}, NEW w \in Workers,
           w.pc # "none", w.id = worker[s].id, w.pc = "write" <=> t # "none",
           worker' = [worker EXCEPT ![s] = w],
           WriteMoves(s, t),
           UNCHANGED <<stateVars, poolVars, reader_queue, current_read_packet,
                       readerVars, writerVars, clientVars, wireVars, unflushed>>
    PROVE  ServerInv'
<1> USE DEF stateVars, poolVars, readerVars, writerVars, clientVars, wireVars
<1>1. /\ worker' \in [Streams -> Workers]
      /\ worker'[s] = w /\ \A r \in Streams \ {s} : worker'[r] = worker[r]
  BY DEF ServerInv, TypeOK
<1>2. /\ writer_queue' \in Seq(Packets \cup {NULL})
      /\ current_write_packet' \in [Streams -> {"none", "START", "MIDDLE"}]
      /\ current_write_packet'[s] = t
      /\ \A r \in Streams \ {s} : current_write_packet'[r] = current_write_packet[r]
      /\ free_packets' \in Nat
      /\ PacketsCounted'
  BY WritesCount
<1>3. TypeOK'
  BY <1>1, <1>2 DEF ServerInv, TypeOK, ActiveIds, Range
<1>4. StreamsHeldOnce' /\ active_request_streams' \in [ActiveIds' -> Streams]
  BY <1>1, SameWorkers
<1>5. Holders'
  BY <1>1, <1>2 DEF ServerInv, Holders
<1>6. FibersAgree' /\ Captured'
  <2>1. ActiveIds # {} /\ ActiveIds' = ActiveIds
    BY WorkerRuns DEF ActiveIds
  <2>2. request_streams_stop_event' = (request_streams_stop_event \/ ActiveIds' = {})
    BY <2>1 DEF ServerInv, TypeOK
  <2>3. \/ writer_queue' = writer_queue
        \/ \E p \in Packets : writer_queue' = Append(writer_queue, p)
    BY DEF WriteMoves
  <2>4. QED
    BY <2>1, <2>2, <2>3, WorkerProtocol
<1>7. QED
  BY <1>2, <1>3, <1>4, <1>5, <1>6 DEF ServerInv

LEMMA GetWritePacketStep ==
    ASSUME ServerInv, NEW s \in Streams, GetWritePacket(s)
    PROVE  ServerInv'
<1> DEFINE t == IF worker[s].pc = "write_first" THEN "START" ELSE "MIDDLE"
           w == [worker[s] EXCEPT !.pc = "write"]
<1>1. worker[s] \in Workers /\ worker[s].pc \in {"write_first", "write_next"}
  BY DEF ServerInv, TypeOK, GetWritePacket
<1>2. /\ w \in Workers /\ w.pc = "write" /\ w.id = worker[s].id
      /\ t \in {"none", "START", "MIDDLE"} /\ t # "none"
  BY <1>1 DEF Workers, WorkerStates
<1>3. worker' = [worker EXCEPT ![s] = w]
  BY DEF GetWritePacket
<1>4. WriteMoves(s, t)
  <2>1. current_write_packet[s] = "none"
    BY <1>1 DEF ServerInv, Holders
  <2>2. QED
    BY <2>1, <1>2 DEF GetWritePacket, WriteMoves
<1>5. QED
  BY <1>1, <1>2, <1>3, <1>4, WritesOne DEF GetWritePacket

LEMMA WritePacketStep ==
    ASSUME ServerInv, NEW s \in Streams, WritePacket(s)
    PROVE  ServerInv'
<1> DEFINE p == Packet(worker[s].id, FullPacketType(s), worker[s].call)
<1>1. /\ worker[s] \in Workers /\ worker[s].pc = "write" /\ worker[s].left > 1
      /\ current_write_packet[s] \in {"START", "MIDDLE"}
  BY DEF ServerInv, TypeOK, Holders, WritePacket
<1>2. p \in Packets /\ writer_queue' = Append(writer_queue, p)
  BY <1>1, PacketType DEF Workers, FullPacketType, PacketTypes, WritePacket
<1>3. worker[s].left - 1 \in 0 .. MaxResponsePackets
  BY <1>1, ServerAssumption DEF Workers
<1>4. CASE free_packets > 0
  <2> DEFINE w == [worker[s] EXCEPT !.left = @ - 1]
  <2>1. w \in Workers /\ w.pc = "write" /\ w.id = worker[s].id
    BY <1>1, <1>3 DEF Workers
  <2>2. worker' = [worker EXCEPT ![s] = w]
    BY <1>4 DEF WritePacket
  <2>3. WriteMoves(s, "MIDDLE")
    BY <1>1, <1>2, <1>4 DEF WritePacket, WriteMoves
  <2>4. QED
    BY <1>1, <2>1, <2>2, <2>3, WritesOne DEF WritePacket
<1>5. CASE free_packets = 0
  <2> DEFINE w == [[worker[s] EXCEPT !.left = @ - 1] EXCEPT !.pc = "write_next"]
  <2>1. w \in Workers /\ w.pc = "write_next" /\ w.id = worker[s].id
    BY <1>1, <1>3 DEF Workers, WorkerStates
  <2>2. worker' = [worker EXCEPT ![s] = w]
    <3>1. worker' = [worker EXCEPT ![s].left = @ - 1, ![s].pc = "write_next"]
      BY <1>5 DEF WritePacket
    <3>2. worker \in [Streams -> Workers]
      BY DEF ServerInv, TypeOK
    <3>3. worker'[s] = w /\ \A r \in Streams \ {s} : worker'[r] = worker[r]
      BY <3>1, <3>2
    <3>4. QED
      BY <3>1, <3>2, <3>3
  <2>3. WriteMoves(s, "none")
    BY <1>1, <1>2, <1>5 DEF WritePacket, WriteMoves
  <2>4. QED
    BY <1>1, <2>1, <2>2, <2>3, WritesOne DEF WritePacket
<1>6. QED
  BY <1>4, <1>5 DEF WritePacket

LEMMA FlushStep ==
    ASSUME ServerInv, NEW s \in Streams, Flush(s)
    PROVE  ServerInv'
<1> DEFINE p == Packet(worker[s].id,
                  IF current_write_packet[s] = "START" THEN "SINGLE" ELSE "END",
                  worker[s].call)
<1>1. /\ worker[s] \in Workers /\ worker[s].pc = "write"
      /\ current_write_packet[s] \in {"START", "MIDDLE"}
  BY DEF ServerInv, TypeOK, Holders, Flush
<1>2. p \in Packets /\ writer_queue' = Append(writer_queue, p)
  BY <1>1, PacketType DEF Workers, PacketTypes, Flush
<1>3. CASE free_packets > 0
  <2>1. ReleaseRequestStream(s, HeldPackets(s) - 1)
    BY <1>3 DEF Flush
  <2>2. HeldPackets(s) - 1 \in Nat
    <3>1. Len(reader_queue[s]) \in Nat
      BY DEF ServerInv, TypeOK
    <3>2. HeldPackets(s) = Len(reader_queue[s]) + 1
                             + (IF current_read_packet[s] = NULL THEN 0 ELSE 1)
      BY <1>1 DEF HeldPackets
    <3>3. (IF current_read_packet[s] = NULL THEN 0 ELSE 1) \in Nat
      OBVIOUS
    <3>4. \A x, y \in Nat : (x + 1 + y) - 1 \in Nat
      OBVIOUS
    <3>5. (Len(reader_queue[s]) + 1 + (IF current_read_packet[s] = NULL THEN 0 ELSE 1)) - 1
            \in Nat
      BY <3>1, <3>3, <3>4, Zenon
    <3>6. QED
      BY <3>2, <3>5, Zenon
  <2>3. QED
    BY <1>1, <1>2, <2>1, <2>2, ReleaseStep DEF Flush
<1>4. CASE free_packets = 0
  <2> DEFINE w == [worker[s] EXCEPT !.pc = "flush_end"]
  <2>1. w \in Workers /\ w.pc = "flush_end" /\ w.id = worker[s].id
    BY <1>1 DEF Workers, WorkerStates
  <2>2. worker' = [worker EXCEPT ![s] = w]
    BY <1>4 DEF Flush
  <2>3. WriteMoves(s, "none")
    BY <1>1, <1>2, <1>4 DEF Flush, WriteMoves
  <2>4. UNCHANGED <<poolVars, reader_queue, current_read_packet>>
    BY <1>4 DEF Flush
  <2>5. UNCHANGED <<stateVars, readerVars, writerVars, clientVars, wireVars, unflushed>>
    BY DEF Flush
  <2>6. QED
    BY <1>1, <2>1, <2>2, <2>3, <2>4, <2>5, WritesOne
<1>5. QED
  BY <1>3, <1>4 DEF Flush

-----------------------------------------------------------------------------
(***************************************************************************)
(* Steps that leave the streams alone                                      *)
(***************************************************************************)
LEMMA StreamsAlone ==
    ASSUME ServerInv, UNCHANGED <<streamVars, active_request_streams,
                                  active_request_streams_cnt>>
    PROVE  /\ StreamsHeldOnce'
           /\ active_request_streams' \in [ActiveIds' -> Streams]
           /\ ActiveIds' = ActiveIds
           /\ Cardinality(Places(Streams, held))' = Cardinality(Places(Streams, held))
           /\ Cardinality(Places(Streams, held)) \in Nat
           /\ Len(writer_queue) \in Nat
           /\ free_packets \in Nat /\ MaxPackets \in Nat
           /\ \A s \in Streams :
                worker'[s].pc = "write" <=> current_write_packet'[s] # "none"
<1> USE DEF streamVars
<1>1. StreamsHeldOnce' /\ active_request_streams' \in [ActiveIds' -> Streams]
  BY SameWorkers
<1>2. Cardinality(Places(Streams, held))' = Cardinality(Places(Streams, held))
  BY HeldAlone
<1>3. Cardinality(Places(Streams, held)) \in Nat /\ Len(writer_queue) \in Nat
      /\ free_packets \in Nat
  BY HeldType DEF ServerInv, TypeOK
<1>4. QED
  BY <1>1, <1>2, <1>3, ServerAssumption DEF ActiveIds, ServerInv, Holders

\* Steps outside the protocol between the fibers.
LEMMA Aside ==
    ASSUME ServerInv, TypeOK',
           UNCHANGED <<streamVars, poolVars, reader, disconnecting, writerVars,
                       writer_queue, free_packets>>,
           UNCHANGED stateVars \/ (state # "STOPPED" /\ StopAsync)
             \/ (state' = state /\ link = "up" /\ link' = "down")
    PROVE  ServerInv'
<1> USE DEF poolVars, writerVars
<1>1. /\ StreamsHeldOnce'
      /\ active_request_streams' \in [ActiveIds' -> Streams]
      /\ ActiveIds' = ActiveIds
      /\ Cardinality(Places(Streams, held))' = Cardinality(Places(Streams, held))
      /\ Holders'
  BY StreamsAlone DEF ServerInv, Holders, streamVars
<1>2. Captured'
  BY <1>1 DEF ServerInv, Captured
<1>3. FibersAgree'
  <2>1. /\ link' = "none" <=> state' = "STOPPED"
        /\ reader' = "none" <=> state' = "STOPPED"
        /\ state' = "WORKING" => link' # "closed"
        /\ state' # state => state' = "STOP_INITIATED"
    BY DEF ServerInv, FibersAgree, StopAsync, stateVars
  <2>2. QED
    BY <1>1, <2>1 DEF ServerInv, FibersAgree
<1>4. PacketsCounted'
  BY <1>1 DEF ServerInv, PacketsCounted, QueuedCount
<1>5. QED
  BY <1>1, <1>2, <1>3, <1>4 DEF ServerInv

LEMMA ExternalStep ==
    ASSUME ServerInv,
           \/ StopRequested \/ LinkBreaks \/ ClientReceives \/ ClientSendsGarbage
           \/ \E i \in RequestIds : ClientBegins(i) \/ ClientSends(i)
    PROVE  ServerInv'
<1> USE DEF stateVars, poolVars, streamVars, readerVars, writerVars, clientVars, wireVars
<1>1. CASE StopRequested
  <2>1. TypeOK'
    BY <1>1 DEF StopRequested, StopAsync, ServerInv, TypeOK, ActiveIds, Range
  <2>2. QED
    BY <1>1, <2>1, Aside DEF StopRequested
<1>2. CASE LinkBreaks
  <2>1. TypeOK'
    BY <1>2 DEF LinkBreaks, ServerInv, TypeOK, ActiveIds, Range
  <2>2. QED
    BY <1>2, <2>1, Aside DEF LinkBreaks
<1>3. CASE ClientReceives
  <2>1. client' \in [RequestIds -> ClientRecords] /\ outbound' \in Seq(Packets)
    <3>1. UnusedId \in ClientRecords
      BY ServerAssumption DEF UnusedId, ClientRecords
    <3>2. outbound \in Seq(Packets) /\ outbound # <<>>
      BY <1>3 DEF ClientReceives, ServerInv, TypeOK
    <3>3. Head(outbound).id \in RequestIds /\ Tail(outbound) \in Seq(Packets)
      <4>1. Head(outbound) \in Packets /\ Tail(outbound) \in Seq(Packets)
        BY <3>2
      <4>2. QED
        BY <4>1 DEF Packets
    <3>4. QED
      <4>1. client \in [RequestIds -> ClientRecords]
        BY DEF ServerInv, TypeOK
      <4>2. client' = client \/ client' = [client EXCEPT ![Head(outbound).id] = UnusedId]
        BY <1>3 DEF ClientReceives
      <4>3. client' \in [RequestIds -> ClientRecords]
        BY <3>1, <3>3, <4>1, <4>2
      <4>4. QED
        BY <1>3, <3>3, <4>3 DEF ClientReceives
  <2>2. TypeOK'
    BY <1>3, <2>1 DEF ClientReceives, ServerInv, TypeOK, ActiveIds, Range
  <2>3. QED
    BY <1>3, <2>2, Aside DEF ClientReceives
<1>4. CASE ClientSendsGarbage
  <2>1. inbound' \in Seq(Packets)
    <3>1. PICK i \in RequestIds, t \in PacketTypes :
            inbound' = Append(inbound, Packet(i, t, 0))
      BY <1>4 DEF ClientSendsGarbage
    <3>2. Packet(i, t, 0) \in Packets
      BY PacketType, ServerAssumption
    <3>3. QED
      BY <3>1, <3>2 DEF ServerInv, TypeOK
  <2>2. garbage' \in 0 .. MaxGarbage
    BY <1>4, ServerAssumption DEF ClientSendsGarbage, ServerInv, TypeOK
  <2>3. TypeOK'
    BY <1>4, <2>1, <2>2 DEF ClientSendsGarbage, ServerInv, TypeOK, ActiveIds, Range
  <2>4. QED
    BY <1>4, <2>3, Aside DEF ClientSendsGarbage
<1>5. ASSUME NEW i \in RequestIds, ClientBegins(i) PROVE ServerInv'
  <2>1. requests' \in 0 .. MaxRequests /\ requests + 1 \in 0 .. MaxRequests
    BY <1>5, ServerAssumption DEF ClientBegins, ServerInv, TypeOK
  <2>2. client' \in [RequestIds -> ClientRecords]
    <3>1. PICK k \in 1 .. MaxRequestPackets : client' =
            [client EXCEPT ![i] = [call |-> requests + 1, size |-> k, left |-> k]]
      BY <1>5 DEF ClientBegins
    <3>2. [call |-> requests + 1, size |-> k, left |-> k] \in ClientRecords
      BY <2>1, ServerAssumption DEF ClientRecords
    <3>3. QED
      BY <3>1, <3>2 DEF ServerInv, TypeOK
  <2>3. TypeOK'
    BY <1>5, <2>1, <2>2 DEF ClientBegins, ServerInv, TypeOK, ActiveIds, Range
  <2>4. QED
    BY <1>5, <2>3, Aside DEF ClientBegins
<1>6. ASSUME NEW i \in RequestIds, ClientSends(i) PROVE ServerInv'
  <2>1. client[i] \in ClientRecords /\ client[i].left > 0
    BY <1>6 DEF ClientSends, ServerInv, TypeOK
  <2>2. inbound' \in Seq(Packets)
    <3> DEFINE t == TypeOfNth(client[i].size - client[i].left + 1, client[i].size)
    <3>1. Packet(i, t, client[i].call) \in Packets
      <4>1. t \in PacketTypes /\ client[i].call \in 0 .. MaxRequests
        BY <2>1 DEF TypeOfNth, PacketTypes, ClientRecords
      <4>2. QED
        BY <4>1, PacketType
    <3>2. QED
      BY <1>6, <3>1 DEF ClientSends, ServerInv, TypeOK
  <2>3. client' \in [RequestIds -> ClientRecords]
    <3>1. client[i].left - 1 \in 0 .. MaxRequestPackets
      BY <2>1, ServerAssumption DEF ClientRecords
    <3>2. [client[i] EXCEPT !.left = @ - 1] \in ClientRecords
      BY <2>1, <3>1 DEF ClientRecords
    <3>3. client' = [client EXCEPT ![i] = [client[i] EXCEPT !.left = @ - 1]]
      BY <1>6 DEF ClientSends
    <3>4. QED
      BY <3>2, <3>3 DEF ServerInv, TypeOK
  <2>4. TypeOK'
    BY <1>6, <2>2, <2>3 DEF ClientSends, ServerInv, TypeOK, ActiveIds, Range
  <2>5. QED
    BY <1>6, <2>4, Aside DEF ClientSends
<1>7. QED
  BY <1>1, <1>2, <1>3, <1>4, <1>5, <1>6

-----------------------------------------------------------------------------
(***************************************************************************)
(* Steps of the writer fiber                                               *)
(***************************************************************************)

\* What the writer fiber finds at the head of its queue.
LEMMA QueueHead ==
    ASSUME ServerInv, writer # "none", writer_queue # <<>>
    PROVE  /\ Head(writer_queue) \in Packets \cup {NULL}
           /\ Tail(writer_queue) \in Seq(Packets \cup {NULL})
           /\ Len(writer_queue) \in Nat /\ Len(writer_queue) > 0
           /\ Len(Tail(writer_queue)) = Len(writer_queue) - 1
           /\ \A k \in 1 .. Len(writer_queue) - 1 :
                Tail(writer_queue)[k] = writer_queue[k + 1]
           /\ Head(writer_queue) = writer_queue[1]
           /\ reader \notin {"none", "start"}
           /\ Head(writer_queue) = NULL <=>
                reader = "wait_writer" /\ Len(writer_queue) = 1
<1>1. writer_queue \in Seq(Packets \cup {NULL})
  BY DEF ServerInv, TypeOK
<1>2. /\ Head(writer_queue) \in Packets \cup {NULL}
      /\ Tail(writer_queue) \in Seq(Packets \cup {NULL})
      /\ Len(writer_queue) \in Nat /\ Len(writer_queue) > 0
      /\ Len(Tail(writer_queue)) = Len(writer_queue) - 1
      /\ \A k \in 1 .. Len(writer_queue) - 1 :
           Tail(writer_queue)[k] = writer_queue[k + 1]
      /\ Head(writer_queue) = writer_queue[1]
  BY <1>1
<1>3. reader \notin {"none", "start"}
  BY DEF ServerInv, FibersAgree
<1> DEFINE n == Len(writer_queue)
<1>one. 1 \in 1 .. n
  BY <1>2
<1>4. CASE reader = "wait_writer"
  <2>1. \A k \in 1 .. n : writer_queue[k] = NULL <=> k = n
    BY <1>4 DEF ServerInv, FibersAgree
  <2>2. QED
    BY <1>one, <1>2, <1>4, <2>1
<1>5. CASE reader # "wait_writer"
  <2>1. reader \in {"acquire", "read", "stop_all", "disconnect", "wait_streams"}
    BY <1>3, <1>5 DEF ServerInv, TypeOK
  <2>2. \A k \in 1 .. n : writer_queue[k] # NULL
    BY <2>1 DEF ServerInv, FibersAgree
  <2>3. QED
    BY <1>one, <1>2, <1>3, <1>5, <2>2
<1>6. QED
  BY <1>2, <1>3, <1>4, <1>5

\* The writer fiber takes a packet from the queue: the NULL packet is the last.
LEMMA TakesPacket ==
    ASSUME ServerInv, writer \in {"get", "skip"}, writer_queue # <<>>,
           writer_queue' = Tail(writer_queue),
           UNCHANGED <<stateVars, poolVars, streamVars, readerVars>>,
           \/ /\ Head(writer_queue) = NULL
              /\ writer' = "none" /\ writer_stop_event' = TRUE
           \/ /\ Head(writer_queue) # NULL
              /\ writer' \in {"skip", "write"} /\ UNCHANGED writer_stop_event
              /\ writer' = "skip" => writer = "skip"
    PROVE  FibersAgree' /\ Captured'
<1> USE DEF stateVars, poolVars, readerVars
<1>1. /\ Len(writer_queue) \in Nat /\ Len(writer_queue) > 0
      /\ writer_queue' \in Seq(Packets \cup {NULL})
      /\ Len(writer_queue') = Len(writer_queue) - 1
      /\ \A k \in 1 .. Len(writer_queue) - 1 : writer_queue'[k] = writer_queue[k + 1]
      /\ reader \notin {"none", "start"}
      /\ Head(writer_queue) = NULL <=> reader = "wait_writer" /\ Len(writer_queue) = 1
  BY QueueHead
<1>2. ActiveIds' = ActiveIds
  BY DEF ActiveIds
<1>3. Captured'
  BY <1>2 DEF ServerInv, Captured
<1>4. CASE Head(writer_queue) = NULL
  <2>1. writer_queue' = <<>> /\ reader = "wait_writer"
    BY <1>1, <1>4
  <2>2. QED
    BY <1>2, <1>3, <1>4, <2>1 DEF ServerInv, FibersAgree
<1>5. CASE Head(writer_queue) # NULL /\ reader = "wait_writer"
  <2>1. Len(writer_queue') > 0
    BY <1>1, <1>5
  <2>2. \A k \in 1 .. Len(writer_queue') :
          writer_queue'[k] = NULL <=> k = Len(writer_queue')
    <3>1. \A k \in 1 .. Len(writer_queue) : writer_queue[k] = NULL <=> k = Len(writer_queue)
      BY <1>5 DEF ServerInv, FibersAgree
    <3>2. SUFFICES ASSUME NEW k \in 1 .. Len(writer_queue')
                   PROVE  writer_queue'[k] = NULL <=> k = Len(writer_queue')
      OBVIOUS
    <3>3. k \in 1 .. Len(writer_queue) - 1 /\ k + 1 \in 1 .. Len(writer_queue)
      BY <1>1
    <3>4. writer_queue'[k] = writer_queue[k + 1]
      BY <1>1, <3>3
    <3>5. k + 1 = Len(writer_queue) <=> k = Len(writer_queue')
      BY <1>1, <3>3
    <3>6. QED
      BY <3>1, <3>3, <3>4, <3>5
  <2>3. QED
    BY <1>2, <1>3, <1>5, <2>1, <2>2 DEF ServerInv, FibersAgree
<1>6. CASE reader # "wait_writer"
  <2>0. reader \in {"acquire", "read", "stop_all", "disconnect", "wait_streams"}
    BY <1>1, <1>6 DEF ServerInv, TypeOK
  <2>1. \A k \in 1 .. Len(writer_queue') : writer_queue'[k] # NULL
    <3>1. \A k \in 1 .. Len(writer_queue) : writer_queue[k] # NULL
      BY <2>0 DEF ServerInv, FibersAgree
    <3>2. SUFFICES ASSUME NEW k \in 1 .. Len(writer_queue')
                   PROVE  writer_queue'[k] # NULL
      OBVIOUS
    <3>3. k \in 1 .. Len(writer_queue) - 1 /\ k + 1 \in 1 .. Len(writer_queue)
      BY <1>1
    <3>4. QED
      BY <1>1, <3>1, <3>3
  <2>2. /\ writer' # "none" /\ writer_stop_event' = writer_stop_event
        /\ writer' = "skip" => writer = "skip"
    BY <1>1, <1>6
  <2>3. FibersAgree'
    BY <1>2, <2>0, <2>1, <2>2 DEF ServerInv, FibersAgree
  <2>4. QED
    BY <1>3, <2>3
<1>7. QED
  BY <1>4, <1>5, <1>6

LEMMA WriterGetPacketStep ==
    ASSUME ServerInv, WriterGetPacket
    PROVE  ServerInv'
<1> USE DEF stateVars, poolVars, readerVars, writerVars, clientVars, wireVars
<1>1. /\ Head(writer_queue) \in Packets \cup {NULL}
      /\ Tail(writer_queue) \in Seq(Packets \cup {NULL})
      /\ Len(writer_queue) \in Nat /\ Len(Tail(writer_queue)) = Len(writer_queue) - 1
      /\ Head(writer_queue) = NULL => reader = "wait_writer"
  BY QueueHead DEF WriterGetPacket
<1>2. writer' \in {"none", "write"} /\ writer_stop_event' \in BOOLEAN
  <2>1. CASE Head(writer_queue) = NULL
    BY <2>1, Zenon DEF WriterGetPacket
  <2>2. CASE Head(writer_queue) # NULL
    BY <2>2 DEF WriterGetPacket, ServerInv, TypeOK
  <2>3. QED
    BY <2>1, <2>2
<1>3. TypeOK'
  BY <1>1, <1>2 DEF WriterGetPacket, ServerInv, TypeOK, streamVars, ActiveIds, Range
<1>4. /\ StreamsHeldOnce'
      /\ active_request_streams' \in [ActiveIds' -> Streams]
      /\ Cardinality(Places(Streams, held))' = Cardinality(Places(Streams, held))
      /\ Cardinality(Places(Streams, held)) \in Nat
      /\ free_packets \in Nat /\ MaxPackets \in Nat
      /\ \A s \in Streams :
           worker'[s].pc = "write" <=> current_write_packet'[s] # "none"
  BY StreamsAlone DEF WriterGetPacket
<1>5. Holders'
  BY <1>4 DEF WriterGetPacket, Holders
<1>6. FibersAgree' /\ Captured'
  BY TakesPacket DEF WriterGetPacket
<1>7. PacketsCounted'
  <2>1. writing = NULL
    BY DEF WriterGetPacket, ServerInv, Holders
  <2>2. QED
    BY <1>1, <1>4, <2>1
       DEF WriterGetPacket, ServerInv, PacketsCounted, QueuedCount
<1>8. QED
  BY <1>3, <1>4, <1>5, <1>6, <1>7 DEF ServerInv

LEMMA WriterSkipPacketStep ==
    ASSUME ServerInv, WriterSkipPacket
    PROVE  ServerInv'
<1> USE DEF stateVars, poolVars, readerVars, writerVars, clientVars, wireVars
<1>1. /\ Head(writer_queue) \in Packets \cup {NULL}
      /\ Tail(writer_queue) \in Seq(Packets \cup {NULL})
      /\ Len(writer_queue) \in Nat /\ Len(Tail(writer_queue)) = Len(writer_queue) - 1
      /\ Head(writer_queue) = NULL => reader = "wait_writer"
  BY QueueHead DEF WriterSkipPacket
<1>2. /\ writer' \in {"none", "skip"} /\ writer_stop_event' \in BOOLEAN
      /\ free_packets' \in Nat
  <2>1. CASE Head(writer_queue) = NULL
    <3>1. writer_stop_event' \in BOOLEAN
      BY <2>1, Zenon DEF WriterSkipPacket
    <3>2. QED
      BY <2>1, <3>1 DEF WriterSkipPacket, ServerInv, TypeOK
  <2>2. CASE Head(writer_queue) # NULL
    BY <2>2 DEF WriterSkipPacket, ServerInv, TypeOK
  <2>3. QED
    BY <2>1, <2>2
<1>3. TypeOK'
  BY <1>1, <1>2 DEF WriterSkipPacket, ServerInv, TypeOK, streamVars, ActiveIds, Range
<1>4. /\ StreamsHeldOnce'
      /\ active_request_streams' \in [ActiveIds' -> Streams]
      /\ Cardinality(Places(Streams, held))' = Cardinality(Places(Streams, held))
      /\ Cardinality(Places(Streams, held)) \in Nat
      /\ free_packets \in Nat /\ MaxPackets \in Nat
      /\ \A s \in Streams :
           worker'[s].pc = "write" <=> current_write_packet'[s] # "none"
  BY StreamsAlone DEF WriterSkipPacket
<1>5. Holders'
  BY <1>4 DEF WriterSkipPacket, ServerInv, Holders
<1>6. FibersAgree' /\ Captured'
  BY TakesPacket DEF WriterSkipPacket
<1>7. PacketsCounted'
  <2> DEFINE w == IF writing = NULL THEN 0 ELSE 1
  <2>1. w \in Nat /\ w' = w
    BY DEF WriterSkipPacket
  <2>2. free_packets + Cardinality(Places(Streams, held)) + QueuedCount
          + (IF reader = "read" THEN 1 ELSE 0) + w = MaxPackets
    BY DEF ServerInv, PacketsCounted
  <2>3. CASE Head(writer_queue) = NULL
    <3>1. /\ reader = "wait_writer" /\ Len(writer_queue) = 1 /\ Len(writer_queue') = 0
          /\ reader' = reader /\ writer = "skip" /\ writer' = "none"
          /\ free_packets' = free_packets
      BY <1>1, <2>3, QueueHead DEF WriterSkipPacket
    <3>2. QueuedCount = 0 /\ QueuedCount' = 0
      BY <3>1 DEF QueuedCount
    <3> HIDE DEF w
    <3>3. QED
      BY <1>4, <2>1, <2>2, <3>1, <3>2 DEF PacketsCounted, w
  <2>4. CASE Head(writer_queue) # NULL
    <3>1. /\ reader' = reader /\ writer = "skip" /\ writer' = "skip"
          /\ free_packets' = free_packets + 1
          /\ Len(writer_queue') = Len(writer_queue) - 1
      BY <1>1, <2>4 DEF WriterSkipPacket
    <3>2. QueuedCount' = QueuedCount - 1 /\ QueuedCount \in Int
      BY <1>1, <3>1 DEF QueuedCount
    <3> DEFINE r == IF reader = "read" THEN 1 ELSE 0
    <3>3. r \in Nat /\ r' = r
      BY <3>1
    <3>4. /\ free_packets + Cardinality(Places(Streams, held)) + QueuedCount + r + w
               = MaxPackets
          /\ PacketsCounted' <=>
               free_packets' + Cardinality(Places(Streams, held))' + QueuedCount' + r' + w'
                 = MaxPackets
      BY <2>2 DEF PacketsCounted
    <3> HIDE DEF r, w
    <3>5. QED
      BY <1>4, <2>1, <3>1, <3>2, <3>3, <3>4
  <2>5. QED
    BY <2>3, <2>4
<1>8. QED
  BY <1>3, <1>4, <1>5, <1>6, <1>7 DEF ServerInv

\* The writer fiber goes on or begins to skip.
LEMMA WriterGoesOn ==
    ASSUME ServerInv, writer \in {"write", "flush"}, writer' \in {"get", "flush", "skip"},
           \/ UNCHANGED stateVars /\ writer' # "skip"
           \/ StopAsync,
           UNCHANGED <<poolVars, readerVars, writer_stop_event, writer_queue>>
    PROVE  FibersAgree' /\ Captured'
<1> USE DEF stateVars, poolVars, readerVars
<1>1. ActiveIds' = ActiveIds
  BY DEF ActiveIds
<1>2. Captured'
  BY <1>1 DEF ServerInv, Captured
<1>3. reader \notin {"none", "start"}
  BY DEF ServerInv, FibersAgree
<1>4. /\ link' = "none" <=> state' = "STOPPED"
      /\ reader' = "none" <=> state' = "STOPPED"
      /\ state' = "WORKING" => link' # "closed"
      /\ state' # state => state' = "STOP_INITIATED"
      /\ writer' = "skip" => state' = "STOP_INITIATED"
  BY <1>3 DEF ServerInv, FibersAgree, StopAsync
<1>5. FibersAgree'
  BY <1>1, <1>3, <1>4 DEF ServerInv, FibersAgree
<1>6. QED
  BY <1>2, <1>5

LEMMA WriterWritePacketStep ==
    ASSUME ServerInv, WriterWritePacket
    PROVE  ServerInv'
<1> USE DEF stateVars, poolVars, readerVars, writerVars, clientVars, wireVars
<1>1. writing \in Packets /\ writing # NULL
  BY NullIsNoPacket DEF WriterWritePacket, ServerInv, TypeOK, Holders
<1>2. /\ unflushed' \in Seq(Packets) /\ free_packets' \in Nat
      /\ free_packets' = free_packets + 1 /\ writing' = NULL
      /\ writer' \in {"get", "flush", "skip"}
      /\ state' \in {"STOPPED", "WORKING", "STOP_INITIATED"}
      /\ link' \in {"none", "up", "down", "closed"}
  <2>1. /\ unflushed \in Seq(Packets) /\ free_packets \in Nat
        /\ state \in {"STOPPED", "WORKING", "STOP_INITIATED"}
        /\ link \in {"none", "up", "down", "closed"}
    BY DEF ServerInv, TypeOK
  <2>2. Append(unflushed, writing) \in Seq(Packets)
    BY <1>1, <2>1
  <2>3. unflushed' = Append(unflushed, writing) \/ unflushed' = unflushed
    BY DEF WriterWritePacket
  <2>4. /\ free_packets' = free_packets + 1 /\ writing' = NULL
        /\ writer' \in {"get", "flush", "skip"}
    BY DEF WriterWritePacket, AfterWrite
  <2>5. UNCHANGED stateVars \/ StopAsync
    BY DEF WriterWritePacket
  <2>6. QED
    BY <2>1, <2>2, <2>3, <2>4, <2>5 DEF StopAsync
<1>3. TypeOK'
  BY <1>2 DEF WriterWritePacket, ServerInv, TypeOK, streamVars, ActiveIds, Range
<1>4. /\ StreamsHeldOnce'
      /\ active_request_streams' \in [ActiveIds' -> Streams]
      /\ Cardinality(Places(Streams, held))' = Cardinality(Places(Streams, held))
      /\ Cardinality(Places(Streams, held)) \in Nat
      /\ free_packets \in Nat /\ MaxPackets \in Nat
      /\ \A s \in Streams :
           worker'[s].pc = "write" <=> current_write_packet'[s] # "none"
  BY StreamsAlone DEF WriterWritePacket
<1>5. Holders'
  BY <1>2, <1>4 DEF Holders
<1>6. FibersAgree' /\ Captured'
  <2>1. \/ UNCHANGED stateVars /\ writer' # "skip"
        \/ StopAsync
    BY DEF WriterWritePacket, AfterWrite
  <2>2. QED
    BY <1>2, <2>1, WriterGoesOn DEF WriterWritePacket
<1>7. PacketsCounted'
  <2>1. QueuedCount' = QueuedCount /\ QueuedCount \in Int
    <3>1. Len(writer_queue) \in Nat
      BY DEF ServerInv, TypeOK
    <3>2. writer # "none" /\ writer' # "none"
      BY <1>2 DEF WriterWritePacket
    <3>3. QED
      BY <3>1, <3>2 DEF QueuedCount, WriterWritePacket
  <2>2. reader' = reader
    BY DEF WriterWritePacket
  <2>3. QED
    BY <1>1, <1>2, <1>4, <2>1, <2>2 DEF ServerInv, PacketsCounted
<1>8. QED
  BY <1>3, <1>4, <1>5, <1>6, <1>7 DEF ServerInv

LEMMA WriterFlushStep ==
    ASSUME ServerInv, WriterFlush
    PROVE  ServerInv'
<1> USE DEF stateVars, poolVars, readerVars, writerVars, clientVars, wireVars
<1>1. /\ unflushed' \in Seq(Packets) /\ outbound' \in Seq(Packets)
      /\ writer' \in {"get", "flush", "skip"} /\ writer' # "write"
      /\ state' \in {"STOPPED", "WORKING", "STOP_INITIATED"}
      /\ link' \in {"none", "up", "down", "closed"}
  <2>1. /\ unflushed \in Seq(Packets) /\ outbound \in Seq(Packets)
        /\ state \in {"STOPPED", "WORKING", "STOP_INITIATED"}
        /\ link \in {"none", "up", "down", "closed"}
    BY DEF ServerInv, TypeOK
  <2>2. outbound \o unflushed \in Seq(Packets) /\ <<>> \in Seq(Packets)
    BY <2>1
  <2>3. /\ outbound' = outbound \o unflushed \/ outbound' = outbound
        /\ unflushed' = <<>> \/ unflushed' = unflushed
        /\ writer' \in {"get", "skip"}
    BY DEF WriterFlush
  <2>4. UNCHANGED stateVars \/ StopAsync
    BY DEF WriterFlush
  <2>5. QED
    BY <2>1, <2>2, <2>3, <2>4 DEF StopAsync
<1>2. TypeOK'
  BY <1>1 DEF WriterFlush, ServerInv, TypeOK, streamVars, ActiveIds, Range
<1>3. /\ StreamsHeldOnce'
      /\ active_request_streams' \in [ActiveIds' -> Streams]
      /\ Cardinality(Places(Streams, held))' = Cardinality(Places(Streams, held))
      /\ \A s \in Streams :
           worker'[s].pc = "write" <=> current_write_packet'[s] # "none"
  BY StreamsAlone DEF WriterFlush
<1>4. Holders'
  BY <1>1, <1>3 DEF WriterFlush, ServerInv, Holders
<1>5. FibersAgree' /\ Captured'
  <2>1. \/ UNCHANGED stateVars /\ writer' # "skip"
        \/ StopAsync
    BY DEF WriterFlush
  <2>2. QED
    BY <1>1, <2>1, WriterGoesOn DEF WriterFlush
<1>6. PacketsCounted'
  <2>1. writer # "none" /\ writer' # "none"
    BY <1>1 DEF WriterFlush
  <2>2. QED
    BY <1>3, <2>1 DEF WriterFlush, ServerInv, PacketsCounted, QueuedCount
<1>7. QED
  BY <1>2, <1>3, <1>4, <1>5, <1>6 DEF ServerInv

-----------------------------------------------------------------------------
(***************************************************************************)
(* Steps of the reader fiber                                               *)
(***************************************************************************)
LEMMA StartStep ==
    ASSUME ServerInv, Start
    PROVE  ServerInv'
<1> USE DEF stateVars, poolVars, readerVars, writerVars, clientVars, wireVars
<1>1. connections' \in 0 .. MaxConnections
  BY ServerAssumption DEF Start, ServerInv, TypeOK
<1>2. TypeOK'
  BY <1>1 DEF Start, ServerInv, TypeOK, streamVars, ActiveIds, Range
<1>3. /\ StreamsHeldOnce' /\ ActiveIds' = ActiveIds
      /\ active_request_streams' \in [ActiveIds' -> Streams]
      /\ Cardinality(Places(Streams, held))' = Cardinality(Places(Streams, held))
      /\ \A s \in Streams :
           worker'[s].pc = "write" <=> current_write_packet'[s] # "none"
  BY StreamsAlone DEF Start
<1>4. reader = "none"
  BY DEF Start, ServerInv, FibersAgree
<1>5. Holders' /\ Captured'
  BY <1>3, <1>4 DEF Start, ServerInv, Holders, Captured
<1>6. FibersAgree'
  BY <1>3, <1>4 DEF Start, ServerInv, FibersAgree
<1>7. PacketsCounted'
  BY <1>3, <1>4 DEF Start, ServerInv, PacketsCounted, QueuedCount
<1>8. QED
  BY <1>2, <1>3, <1>5, <1>6, <1>7 DEF ServerInv

LEMMA ReaderStartsStep ==
    ASSUME ServerInv, ReaderStarts
    PROVE  ServerInv'
<1> USE DEF stateVars, poolVars, readerVars, writerVars, clientVars, wireVars
<1>1. request_streams_stop_event' \in BOOLEAN
  BY Zenon DEF ReaderStarts
<1>2. TypeOK'
  BY <1>1 DEF ReaderStarts, ServerInv, TypeOK, streamVars, ActiveIds, Range
<1>3. /\ StreamsHeldOnce' /\ ActiveIds' = ActiveIds
      /\ active_request_streams' \in [ActiveIds' -> Streams]
      /\ Cardinality(Places(Streams, held))' = Cardinality(Places(Streams, held))
      /\ \A s \in Streams :
           worker'[s].pc = "write" <=> current_write_packet'[s] # "none"
  BY StreamsAlone DEF ReaderStarts
<1>4. /\ writer = "none" /\ ActiveIds = {} /\ ~writer_stop_event
      /\ writer_queue = <<>> /\ state # "STOPPED" /\ link # "none"
  BY DEF ReaderStarts, ServerInv, FibersAgree
<1>5. Holders' /\ Captured'
  BY <1>3, <1>4 DEF ReaderStarts, ServerInv, Holders, Captured
<1>6. FibersAgree'
  BY <1>3, <1>4 DEF ReaderStarts, ServerInv, FibersAgree
<1>7. PacketsCounted'
  BY <1>3, <1>4 DEF ReaderStarts, ServerInv, PacketsCounted, QueuedCount
<1>8. QED
  BY <1>2, <1>3, <1>5, <1>6, <1>7 DEF ServerInv

LEMMA ReaderAcquirePacketStep ==
    ASSUME ServerInv, ReaderAcquirePacket
    PROVE  ServerInv'
<1> USE DEF stateVars, poolVars, readerVars, writerVars, clientVars, wireVars
<1>1. free_packets' \in Nat /\ free_packets' = free_packets - 1
  BY DEF ReaderAcquirePacket, ServerInv, TypeOK
<1>2. TypeOK'
  BY <1>1 DEF ReaderAcquirePacket, ServerInv, TypeOK, streamVars, ActiveIds, Range
<1>3. /\ StreamsHeldOnce' /\ ActiveIds' = ActiveIds
      /\ active_request_streams' \in [ActiveIds' -> Streams]
      /\ Cardinality(Places(Streams, held))' = Cardinality(Places(Streams, held))
      /\ Cardinality(Places(Streams, held)) \in Nat
      /\ Len(writer_queue) \in Nat /\ free_packets \in Nat /\ MaxPackets \in Nat
      /\ \A s \in Streams :
           worker'[s].pc = "write" <=> current_write_packet'[s] # "none"
  BY StreamsAlone DEF ReaderAcquirePacket
<1>4. Holders' /\ Captured'
  BY <1>3 DEF ReaderAcquirePacket, ServerInv, Holders, Captured
<1>5. FibersAgree'
  BY <1>3 DEF ReaderAcquirePacket, ServerInv, FibersAgree
<1>6. PacketsCounted'
  BY <1>1, <1>3 DEF ReaderAcquirePacket, ServerInv, PacketsCounted, QueuedCount
<1>7. QED
  BY <1>2, <1>3, <1>4, <1>5, <1>6 DEF ServerInv

\* The reader fiber gives up: the packet it holds goes back to the pool.
LEMMA ReaderGivesUp ==
    ASSUME ServerInv, TypeOK', reader = "read", reader' = "stop_all",
           free_packets' = free_packets + 1, StopAsync,
           UNCHANGED <<poolVars, streamVars, disconnecting, writerVars, writer_queue>>
    PROVE  ServerInv'
<1> USE DEF poolVars, writerVars
<1>1. /\ StreamsHeldOnce' /\ ActiveIds' = ActiveIds
      /\ active_request_streams' \in [ActiveIds' -> Streams]
      /\ Cardinality(Places(Streams, held))' = Cardinality(Places(Streams, held))
      /\ Cardinality(Places(Streams, held)) \in Nat
      /\ Len(writer_queue) \in Nat /\ free_packets \in Nat /\ MaxPackets \in Nat
      /\ \A s \in Streams :
           worker'[s].pc = "write" <=> current_write_packet'[s] # "none"
  BY StreamsAlone
<1>2. Holders' /\ Captured'
  BY <1>1 DEF ServerInv, Holders, Captured
<1>3. FibersAgree'
  BY <1>1 DEF ServerInv, FibersAgree, StopAsync
<1>4. PacketsCounted'
  BY <1>1 DEF ServerInv, PacketsCounted, QueuedCount
<1>5. QED
  BY <1>1, <1>2, <1>3, <1>4 DEF ServerInv

LEMMA ReaderFailsStep ==
    ASSUME ServerInv, ReaderFails
    PROVE  ServerInv'
<1> USE DEF stateVars, poolVars, readerVars, writerVars, clientVars, wireVars
<1>1. TypeOK'
  BY DEF ReaderFails, StopAsync, ServerInv, TypeOK, streamVars, ActiveIds, Range
<1>2. QED
  BY <1>1, ReaderGivesUp DEF ReaderFails

LEMMA StopStreamWriterStep ==
    ASSUME ServerInv, StopStreamWriter
    PROVE  ServerInv'
<1> USE DEF stateVars, poolVars, readerVars, writerVars, clientVars, wireVars
<1>1. /\ writer_queue \in Seq(Packets \cup {NULL}) /\ Len(writer_queue) \in Nat
      /\ writer_queue' = Append(writer_queue, NULL)
  BY DEF StopStreamWriter, ServerInv, TypeOK
<1>2. /\ writer_queue' \in Seq(Packets \cup {NULL})
      /\ Len(writer_queue') = Len(writer_queue) + 1
      /\ \A k \in 1 .. Len(writer_queue) : writer_queue'[k] = writer_queue[k]
      /\ writer_queue'[Len(writer_queue) + 1] = NULL
  BY <1>1
<1>3. request_streams_stop_event' \in BOOLEAN
  BY Zenon DEF StopStreamWriter
<1>4. TypeOK'
  BY <1>2, <1>3 DEF StopStreamWriter, ServerInv, TypeOK, streamVars, ActiveIds, Range
<1>5. /\ StreamsHeldOnce' /\ ActiveIds' = ActiveIds
      /\ active_request_streams' \in [ActiveIds' -> Streams]
      /\ Cardinality(Places(Streams, held))' = Cardinality(Places(Streams, held))
      /\ Cardinality(Places(Streams, held)) \in Nat
      /\ free_packets \in Nat /\ MaxPackets \in Nat
      /\ \A s \in Streams :
           worker'[s].pc = "write" <=> current_write_packet'[s] # "none"
  BY StreamsAlone DEF StopStreamWriter
<1>6. /\ writer # "none" /\ ~writer_stop_event /\ ActiveIds = {}
      /\ \A k \in 1 .. Len(writer_queue) : writer_queue[k] # NULL
      /\ state = "STOP_INITIATED" /\ link # "none"
  BY DEF StopStreamWriter, ServerInv, FibersAgree
<1>7. Holders' /\ Captured'
  BY <1>5 DEF StopStreamWriter, ServerInv, Holders, Captured
<1>8. \A k \in 1 .. Len(writer_queue') : writer_queue'[k] = NULL <=> k = Len(writer_queue')
  BY <1>1, <1>2, <1>6
<1>9. FibersAgree'
  BY <1>1, <1>2, <1>5, <1>6, <1>8 DEF StopStreamWriter, FibersAgree
<1>10. PacketsCounted'
  <2>1. QueuedCount' = QueuedCount
    BY <1>1, <1>2, <1>6 DEF StopStreamWriter, QueuedCount
  <2>2. QED
    BY <1>5, <2>1 DEF StopStreamWriter, ServerInv, PacketsCounted
<1>11. QED
  BY <1>4, <1>5, <1>7, <1>9, <1>10 DEF ServerInv

LEMMA ReaderEndsStep ==
    ASSUME ServerInv, ReaderEnds
    PROVE  ServerInv'
<1> USE DEF stateVars, poolVars, readerVars, writerVars, clientVars, wireVars
<1>1. writer_stop_event' \in BOOLEAN
  BY Zenon DEF ReaderEnds
<1>2. client' \in [RequestIds -> ClientRecords]
  BY ServerAssumption DEF ReaderEnds, UnusedId, ClientRecords
<1>3. TypeOK'
  BY <1>1, <1>2 DEF ReaderEnds, ServerInv, TypeOK, streamVars, ActiveIds, Range
<1>4. /\ StreamsHeldOnce' /\ ActiveIds' = ActiveIds
      /\ active_request_streams' \in [ActiveIds' -> Streams]
      /\ Cardinality(Places(Streams, held))' = Cardinality(Places(Streams, held))
      /\ \A s \in Streams :
           worker'[s].pc = "write" <=> current_write_packet'[s] # "none"
  BY StreamsAlone DEF ReaderEnds
<1>5. /\ writer = "none" /\ ActiveIds = {} /\ ~request_streams_stop_event
      /\ writer_queue = <<>>
  BY DEF ReaderEnds, ServerInv, FibersAgree
<1>6. Holders' /\ Captured'
  BY <1>4 DEF ReaderEnds, ServerInv, Holders, Captured
<1>7. FibersAgree'
  BY <1>4, <1>5 DEF ReaderEnds, ServerInv, FibersAgree
<1>8. PacketsCounted'
  BY <1>4, <1>5 DEF ReaderEnds, ServerInv, PacketsCounted, QueuedCount
<1>9. QED
  BY <1>3, <1>4, <1>6, <1>7, <1>8 DEF ServerInv

\* A packet is put into the reader queue of stream s.
LEMMA QueueGrows ==
    ASSUME ServerInv, NEW s \in Streams, NEW p \in Packets,
           reader_queue' = [reader_queue EXCEPT ![s] = Append(@, p)],
           UNCHANGED <<current_read_packet, current_write_packet>>
    PROVE  /\ reader_queue' \in [Streams -> Seq(Packets)]
           /\ Cardinality(Places(Streams, held)) \in Nat
           /\ Cardinality(Places(Streams, held))' = Cardinality(Places(Streams, held)) + 1
<1>1. reader_queue \in [Streams -> Seq(Packets)]
  BY DEF ServerInv, TypeOK
<1>2. /\ Append(reader_queue[s], p) \in Seq(Packets)
      /\ Len(Append(reader_queue[s], p)) = Len(reader_queue[s]) + 1
      /\ Len(reader_queue[s]) \in Nat
  BY <1>1
<1>3. reader_queue' \in [Streams -> Seq(Packets)]
  BY <1>1, <1>2
<1>4. Cardinality(Places(Streams, held))' =
        Cardinality(Places(Streams, held)) - HeldPackets(s) + HeldPackets(s)'
  BY <1>1, <1>3, HeldChanges
<1>5. HeldPackets(s)' = HeldPackets(s) + 1
  <2>1. reader_queue'[s] = Append(reader_queue[s], p)
    BY <1>1
  <2> DEFINE a == IF current_write_packet[s] = "none" THEN 0 ELSE 1
             b == IF current_read_packet[s] = NULL THEN 0 ELSE 1
  <2>2. a \in Nat /\ b \in Nat
    OBVIOUS
  <2>3. /\ HeldPackets(s) = Len(reader_queue[s]) + a + b
        /\ HeldPackets(s)' = Len(reader_queue[s]) + 1 + a + b
    BY <1>2, <2>1 DEF HeldPackets
  <2> HIDE DEF a, b
  <2>4. QED
    BY <1>2, <2>2, <2>3
<1>6. HeldPackets(s) \in Nat /\ Cardinality(Places(Streams, held)) \in Nat
  BY <1>1, HeldType
<1>7. QED
  BY <1>3, <1>4, <1>5, <1>6

\* The reader fiber hands the packet it has read to stream s.
LEMMA HandsOver ==
    ASSUME ServerInv, NEW s \in Streams, NEW p \in Packets,
           reader = "read", reader' = "acquire",
           reader_queue' = [reader_queue EXCEPT ![s] = Append(@, p)],
           UNCHANGED <<current_read_packet, current_write_packet, writer,
                       writing, writer_queue, free_packets>>
    PROVE  PacketsCounted'
<1>1. /\ Cardinality(Places(Streams, held)) \in Nat
      /\ Cardinality(Places(Streams, held))' = Cardinality(Places(Streams, held)) + 1
  BY QueueGrows
<1>2. Len(writer_queue) \in Nat /\ free_packets \in Nat /\ MaxPackets \in Nat
  BY ServerAssumption DEF ServerInv, TypeOK
<1>3. QueuedCount' = QueuedCount /\ QueuedCount \in Int
  BY <1>2 DEF QueuedCount
<1>4. QED
  BY <1>1, <1>2, <1>3 DEF ServerInv, PacketsCounted

\* The first packet of a request.
LEMMA FirstPacketStep ==
    ASSUME ServerInv, TypeOK', NEW p \in Packets, p.id \notin ActiveIds,
           NEW s \in FreeStreams, AcquireRequestStream(p.id, s),
           reader = "read", reader' = "acquire",
           reader_queue' = [reader_queue EXCEPT ![s] = Append(@, p)],
           UNCHANGED <<stateVars, current_read_packet, current_write_packet,
                       disconnecting, writerVars, writer_queue, free_packets>>
    PROVE  ServerInv'
<1> USE DEF stateVars, writerVars
<1>1. p.id \in RequestIds \ ActiveIds /\ s \in Streams
  BY DEF Packets, FreeStreams
<1>2. /\ StreamsHeldOnce' /\ StreamsType'
      /\ ActiveIds' = ActiveIds \cup {p.id}
      /\ request_streams_stop_event' = (request_streams_stop_event /\ ActiveIds # {})
  BY <1>1, Acquiring
<1>3. active_request_streams' \in [ActiveIds' -> Streams]
  BY <1>2 DEF StreamsType
<1>4. Holders'
  <2>1. /\ worker[s].pc = "none" /\ worker \in [Streams -> Workers]
    BY <1>1 DEF ServerInv, TypeOK, StreamsHeldOnce
  <2>2. /\ worker'[s].pc = "read"
        /\ \A t \in Streams \ {s} : worker'[t] = worker[t]
    BY <1>1, <2>1 DEF AcquireRequestStream
  <2>3. QED
    BY <1>1, <2>1, <2>2 DEF ServerInv, Holders
<1>5. disconnecting = {}
  BY DEF ServerInv, Captured
<1>6. Captured'
  BY <1>5 DEF Captured
<1>7. FibersAgree'
  <2>1. request_streams_stop_event' <=> ActiveIds' = {}
    BY <1>2 DEF ServerInv, FibersAgree
  <2>2. QED
    BY <2>1 DEF ServerInv, FibersAgree
<1>8. PacketsCounted'
  BY <1>1, HandsOver
<1>9. QED
  BY <1>2, <1>3, <1>4, <1>6, <1>7, <1>8 DEF ServerInv

\* A further packet of a request.
LEMMA FurtherPacketStep ==
    ASSUME ServerInv, TypeOK', NEW p \in Packets, NEW s \in Streams,
           reader = "read", reader' = "acquire",
           reader_queue' = [reader_queue EXCEPT ![s] = Append(@, p)],
           UNCHANGED <<stateVars, poolVars, current_read_packet, current_write_packet,
                       worker, disconnecting, writerVars, writer_queue, free_packets>>
    PROVE  ServerInv'
<1> USE DEF stateVars, poolVars, writerVars
<1>1. /\ StreamsHeldOnce' /\ active_request_streams' \in [ActiveIds' -> Streams]
      /\ ActiveIds' = ActiveIds
  BY SameWorkers DEF ActiveIds
<1>2. Holders' /\ Captured'
  BY <1>1 DEF ServerInv, Holders, Captured
<1>3. FibersAgree'
  BY <1>1 DEF ServerInv, FibersAgree
<1>4. PacketsCounted'
  BY HandsOver
<1>5. QED
  BY <1>1, <1>2, <1>3, <1>4 DEF ServerInv

LEMMA ReaderReadPacketStep ==
    ASSUME ServerInv, ReaderReadPacket
    PROVE  ServerInv'
<1> USE DEF stateVars, poolVars, readerVars, writerVars, clientVars, wireVars
<1> DEFINE p == Head(inbound)
<1>1. /\ p \in Packets /\ inbound' \in Seq(Packets)
      /\ reader = "read"
  <2>1. /\ inbound \in Seq(Packets) /\ inbound # <<>> /\ inbound' = Tail(inbound)
        /\ reader = "read"
    BY DEF ReaderReadPacket, ServerInv, TypeOK
  <2>2. QED
    BY <2>1
<1> HIDE DEF p
<1>2. CASE /\ ~Misplaced(p) /\ StartsRequest(p)
           /\ \E s \in FreeStreams :
                /\ AcquireRequestStream(p.id, s)
                /\ reader_queue' = [reader_queue EXCEPT ![s] = Append(@, p)]
           /\ reader' = "acquire"
           /\ UNCHANGED <<stateVars, free_packets>>
  <2>1. PICK s \in FreeStreams :
          /\ AcquireRequestStream(p.id, s)
          /\ reader_queue' = [reader_queue EXCEPT ![s] = Append(@, p)]
    BY <1>2
  <2>2. p.id \in RequestIds \ ActiveIds /\ s \in Streams
    BY <1>1, <1>2 DEF Misplaced, Packets, FreeStreams
  <2>3. /\ StreamsType' /\ worker' \in [Streams -> Workers]
    BY <2>1, <2>2, Acquiring
  <2>4. UNCHANGED <<current_read_packet, current_write_packet>>
    BY DEF ReaderReadPacket
  <2>5. reader_queue' \in [Streams -> Seq(Packets)]
    BY <1>1, <2>1, <2>2, <2>4, QueueGrows
  <2>6. TypeOK'
    BY <1>1, <1>2, <2>3, <2>5 DEF ReaderReadPacket, ServerInv, TypeOK, StreamsType
  <2>7. QED
    BY <1>1, <1>2, <2>1, <2>2, <2>6, FirstPacketStep DEF ReaderReadPacket
<1>3. CASE /\ ~Misplaced(p) /\ ~StartsRequest(p)
           /\ reader_queue' =
                [reader_queue EXCEPT ![active_request_streams[p.id]] = Append(@, p)]
           /\ reader' = "acquire"
           /\ UNCHANGED <<stateVars, poolVars, worker, free_packets>>
  <2>1. active_request_streams[p.id] \in Streams
    BY <1>3 DEF Misplaced, ServerInv
  <2>2. UNCHANGED <<current_read_packet, current_write_packet>>
    BY DEF ReaderReadPacket
  <2>3. reader_queue' \in [Streams -> Seq(Packets)]
    BY <1>1, <1>3, <2>1, <2>2, QueueGrows
  <2>4. UNCHANGED <<disconnecting, connections, writerVars, clientVars, outbound,
                    writer_queue, unflushed>>
    BY DEF ReaderReadPacket
  <2>5. TypeOK'
    <3>1. TypeOK
      BY DEF ServerInv
    <3>2. reader' = "acquire" /\ UNCHANGED <<stateVars, poolVars, worker, free_packets>>
      BY <1>3
    <3>3. QED
      BY <1>1, <2>2, <2>3, <2>4, <3>1, <3>2 DEF TypeOK, ActiveIds, Range
  <2>6. QED
    BY <1>1, <1>3, <2>1, <2>2, <2>4, <2>5, FurtherPacketStep
<1>4. CASE /\ free_packets' = free_packets + 1
           /\ reader' = "stop_all"
           /\ StopAsync
           /\ UNCHANGED <<poolVars, worker, reader_queue>>
  <2>1. TypeOK'
    BY <1>1, <1>4, SMTT(30) DEF ReaderReadPacket, StopAsync, ServerInv, TypeOK, ActiveIds, Range
  <2>2. QED
    BY <1>1, <1>4, <2>1, ReaderGivesUp DEF ReaderReadPacket, streamVars
<1>5. QED
  BY <1>2, <1>3, <1>4 DEF ReaderReadPacket, p

\* stop_all_request_streams: each packet it takes ends up in the queue of a stream
\* of its own, and the stream it goes on to wait for works for one id only.
LEMMA Disconnecting ==
    ASSUME ServerInv, NEW first \in Nat, NEW captured \in SUBSET Streams,
           IsFiniteSet(captured), Cardinality(captured) \in 0 .. free_packets,
           \A s \in captured : \A i \in ActiveFrom(first) : active_request_streams[i] # s,
           UNCHANGED <<current_read_packet, current_write_packet>>,
           DisconnectFrom(first, captured)
    PROVE  /\ free_packets' \in Nat
           /\ reader_queue' \in [Streams -> Seq(Packets)]
           /\ free_packets' + Cardinality(Places(Streams, held))' =
                free_packets + Cardinality(Places(Streams, held))
           /\ \/ reader' = "wait_streams" /\ disconnecting' = {}
              \/ /\ reader' = "disconnect"
                 /\ \E i \in ActiveIds : disconnecting' = {<<i, active_request_streams[i]>>}
<1> DEFINE todo == ActiveFrom(first)
           room == free_packets - Cardinality(captured)
           ars == active_request_streams
<1>1. PICK served \in SUBSET todo :
          /\ \/ served = todo /\ Cardinality(served) <= room
             \/ served # todo /\ Cardinality(served) = room
          /\ free_packets' = room - Cardinality(served)
          /\ reader_queue' = [s \in Streams |->
               IF s \in captured \cup {ars[i] : i \in served}
                 THEN Append(reader_queue[s], Disconnected)
                 ELSE reader_queue[s]]
          /\ IF served = todo
               THEN reader' = "wait_streams" /\ disconnecting' = {}
               ELSE LET i == Min(todo \ served) IN
                    /\ reader' = "disconnect"
                    /\ disconnecting' = {<<i, ars[i]>>}
  BY DEF DisconnectFrom, ActiveFrom
<1>2. /\ todo \subseteq ActiveIds /\ ActiveIds \subseteq RequestIds
      /\ ars \in [ActiveIds -> Streams] /\ free_packets \in Nat
      /\ reader_queue \in [Streams -> Seq(Packets)]
      /\ \A s \in captured : \A i \in todo : ars[i] # s
  BY DEF ServerInv, TypeOK, ActiveFrom
<1> HIDE DEF todo
<1>3. IsFiniteSet(served) /\ Cardinality(served) \in Nat
  BY <1>2, ActiveIdsFinite
<1>4. free_packets' \in Nat
  <2>1. room \in Int /\ Cardinality(served) <= room
    BY <1>1, <1>2, <1>3
  <2>2. QED
    BY <1>1, <1>3, <2>1
<1> DEFINE chosen == {ars[i] : i \in served}
<1>5. IsFiniteSet(chosen) /\ Cardinality(chosen) = Cardinality(served)
  <2> DEFINE f == [i \in served |-> ars[i]]
  <2>1. \A i, j \in served : ars[i] = ars[j] => i = j
    BY <1>2, StreamOfWorker
  <2>2. f \in Bijection(served, chosen)
    BY <2>1 DEF Bijection, Injection, Surjection, IsInjective
  <2>3. QED
    BY <1>3, <2>2, FS_Bijection DEF ExistsBijection
<1>6. /\ chosen \in SUBSET Streams /\ captured \cap chosen = {}
  BY <1>2
<1> HIDE DEF chosen
<1> DEFINE T == captured \cup chosen
<1>7. Cardinality(T) = Cardinality(captured) + Cardinality(served)
  <2>1. Cardinality(captured \cap chosen) = 0
    BY <1>6, FS_EmptySet
  <2>2. Cardinality(T) = Cardinality(captured) + Cardinality(chosen)
                           - Cardinality(captured \cap chosen)
    BY <1>5, FS_Union
  <2>3. Cardinality(captured) \in Nat
    BY FS_CardinalityType
  <2>4. QED
    BY <1>3, <1>5, <2>1, <2>2, <2>3
<1>8. T \in SUBSET Streams
  BY <1>6
<1>9. reader_queue' = [s \in Streams |-> IF s \in T THEN Append(reader_queue[s], Disconnected)
                                                   ELSE reader_queue[s]]
  BY <1>1 DEF chosen
<1> HIDE DEF T
<1>10. Disconnected \in Packets
  BY PacketType, RequestIdsFinite, ServerAssumption DEF Disconnected, PacketTypes
<1>11. \A s \in Streams : /\ Append(reader_queue[s], Disconnected) \in Seq(Packets)
                          /\ reader_queue[s] \in Seq(Packets)
                          /\ Len(reader_queue[s]) \in Nat
                          /\ Len(Append(reader_queue[s], Disconnected)) = Len(reader_queue[s]) + 1
  BY <1>2, <1>10
<1>12. reader_queue' \in [Streams -> Seq(Packets)]
  BY <1>9, <1>11
<1>13. held \in [Streams -> Nat] /\ held' \in [Streams -> Nat]
       /\ Cardinality(Places(Streams, held)) \in Nat
  BY <1>2, <1>12, HeldType, HeldTypeNext
<1>14. ASSUME NEW s \in Streams
       PROVE  held'[s] = IF s \in T THEN held[s] + 1 ELSE held[s]
  <2> DEFINE a == IF current_write_packet[s] = "none" THEN 0 ELSE 1
             b == IF current_read_packet[s] = NULL THEN 0 ELSE 1
  <2>1. a \in Nat /\ b \in Nat
    OBVIOUS
  <2>2. held[s] = Len(reader_queue[s]) + a + b
    BY DEF held, HeldPackets
  <2>3. held'[s] = Len(reader_queue'[s]) + a + b
    BY DEF held, HeldPackets
  <2> HIDE DEF a, b
  <2>4. Len(reader_queue'[s]) = IF s \in T THEN Len(reader_queue[s]) + 1
                                           ELSE Len(reader_queue[s])
    BY <1>9, <1>11
  <2>5. Len(reader_queue[s]) \in Nat
    BY <1>11
  <2>6. QED
    BY <2>1, <2>2, <2>3, <2>4, <2>5
<1>15. Cardinality(Places(Streams, held')) =
         Cardinality(Places(Streams, held)) + Cardinality(T)
  BY <1>8, <1>13, <1>14, CountManyGrow
<1>16. Cardinality(Places(Streams, held))' = Cardinality(Places(Streams, held'))
  BY DEF Places
<1>17. free_packets' + Cardinality(Places(Streams, held))' =
         free_packets + Cardinality(Places(Streams, held))
  <2>1. Cardinality(captured) \in Nat
    BY FS_CardinalityType
  <2>2. QED
    BY <1>1, <1>2, <1>3, <1>7, <1>13, <1>15, <1>16, <2>1
<1>18. ASSUME served # todo
       PROVE  Min(todo \ served) \in ActiveIds
  <2>1. todo \ served # {} /\ todo \ served \in SUBSET Nat
    BY <1>2, <1>18, RequestIdsFinite
  <2>2. \E i \in todo \ served : \A j \in todo \ served : i <= j
    BY <2>1, LeastElement
  <2>3. Min(todo \ served) \in todo \ served
    BY <2>2 DEF Min
  <2>4. QED
    BY <1>2, <2>3
<1>19. QED
  BY <1>1, <1>4, <1>12, <1>17, <1>18

LEMMA StopAllRequestStreamsStep ==
    ASSUME ServerInv, StopAllRequestStreams
    PROVE  ServerInv'
<1> USE DEF stateVars, poolVars, readerVars, writerVars, clientVars, wireVars
<1>1. UNCHANGED <<current_read_packet, current_write_packet>>
  BY DEF StopAllRequestStreams
<1>2. /\ free_packets \in Nat /\ disconnecting \subseteq RequestIds \X Streams
      /\ reader_queue \in [Streams -> Seq(Packets)]
  BY DEF ServerInv, TypeOK
<1>3. /\ free_packets' \in Nat
      /\ reader_queue' \in [Streams -> Seq(Packets)]
      /\ free_packets' + Cardinality(Places(Streams, held))' =
           free_packets + Cardinality(Places(Streams, held))
      /\ \/ reader' = "wait_streams" /\ disconnecting' = {}
         \/ /\ reader' = "disconnect"
            /\ \E i \in ActiveIds : disconnecting' = {<<i, active_request_streams[i]>>}
  <2>1. CASE DisconnectFrom(0, {})
    <3>1. IsFiniteSet({}) /\ Cardinality({}) \in 0 .. free_packets
      BY <1>2, FS_EmptySet
    <3>2. QED
      BY <1>1, <2>1, <3>1, Disconnecting
  <2>2. CASE /\ free_packets > 0
             /\ \E d \in disconnecting : DisconnectFrom(d[1] + 1, {d[2]})
    <3>1. PICK d \in disconnecting : DisconnectFrom(d[1] + 1, {d[2]})
      BY <2>2
    <3>2. d[1] + 1 \in Nat /\ {d[2]} \in SUBSET Streams /\ d[1] \in Nat
      <4>1. d \in RequestIds \X Streams
        BY <1>2
      <4>2. d[1] \in RequestIds /\ d[2] \in Streams
        BY <4>1
      <4>3. d[1] \in Nat
        BY <4>2, RequestIdsFinite
      <4>4. QED
        BY <4>2, <4>3
    <3>3. IsFiniteSet({d[2]}) /\ Cardinality({d[2]}) = 1
      BY FS_Singleton
    <3>4. Cardinality({d[2]}) \in 0 .. free_packets
      BY <1>2, <2>2, <3>3
    <3>5. \A s \in {d[2]} : \A i \in ActiveFrom(d[1] + 1) : active_request_streams[i] # s
      <4>1. \A j \in ActiveIds : active_request_streams[j] = d[2] => j = d[1]
        BY DEF ServerInv, Captured
      <4>2. QED
        BY <3>2, <4>1 DEF ActiveFrom
    <3>6. QED
      BY <1>1, <3>1, <3>2, <3>3, <3>4, <3>5, Disconnecting
  <2>3. QED
    BY <2>1, <2>2 DEF StopAllRequestStreams
<1>4. /\ StreamsHeldOnce' /\ active_request_streams' \in [ActiveIds' -> Streams]
      /\ ActiveIds' = ActiveIds
  BY SameWorkers DEF StopAllRequestStreams, ActiveIds
<1>5. reader \in {"stop_all", "disconnect"}
  BY DEF StopAllRequestStreams
<1>6. /\ ActiveIds \subseteq RequestIds
      /\ \A i \in ActiveIds : active_request_streams[i] \in Streams
  BY DEF ServerInv, TypeOK
<1>7. /\ disconnecting' \subseteq RequestIds \X Streams
      /\ reader' \in {"wait_streams", "disconnect"}
  BY <1>3, <1>6
<1>8. TypeOK'
  BY <1>3, <1>7 DEF StopAllRequestStreams, ServerInv, TypeOK, ActiveIds, Range
<1>9. Captured'
  <2>1. \A i, j \in ActiveIds :
          active_request_streams[i] = active_request_streams[j] => i = j
    BY StreamOfWorker
  <2>2. active_request_streams' = active_request_streams
    BY DEF StopAllRequestStreams
  <2>3. CASE reader' = "wait_streams" /\ disconnecting' = {}
    BY <2>3 DEF Captured
  <2>4. CASE /\ reader' = "disconnect"
             /\ \E i \in ActiveIds : disconnecting' = {<<i, active_request_streams[i]>>}
    <3>1. PICK i \in ActiveIds : disconnecting' = {<<i, active_request_streams[i]>>}
      BY <2>4
    <3>2. \A d \in disconnecting' : d[1] = i /\ d[2] = active_request_streams[i]
      BY <3>1
    <3>3. \A d, e \in disconnecting' : d = e
      BY <3>1
    <3>4. disconnecting' # {}
      BY <3>1
    <3>5. QED
      BY <1>4, <2>1, <2>2, <2>4, <3>2, <3>3, <3>4 DEF Captured
  <2>5. QED
    BY <1>3, <2>3, <2>4
<1>10. Holders'
  BY DEF StopAllRequestStreams, ServerInv, Holders
<1>11. FibersAgree'
  BY <1>4, <1>5, <1>7 DEF StopAllRequestStreams, ServerInv, FibersAgree
<1>12. PacketsCounted'
  <2>1. /\ Cardinality(Places(Streams, held)) \in Nat
        /\ Cardinality(Places(Streams, held))' \in Nat
        /\ Len(writer_queue) \in Nat /\ MaxPackets \in Nat
    BY <1>2, <1>3, HeldType, HeldTypeNext, ServerAssumption DEF ServerInv, TypeOK
  <2>2. QueuedCount' = QueuedCount /\ QueuedCount \in Int
    BY <1>5, <1>7, <2>1 DEF StopAllRequestStreams, QueuedCount
  <2>3. /\ reader # "read" /\ reader' # "read" /\ writing' = writing
    BY <1>5, <1>7 DEF StopAllRequestStreams
  <2>4. QED
    BY <1>2, <1>3, <2>1, <2>2, <2>3 DEF ServerInv, PacketsCounted
<1>13. QED
  BY <1>4, <1>8, <1>9, <1>10, <1>11, <1>12 DEF ServerInv

-----------------------------------------------------------------------------
(***************************************************************************)
(* The invariant holds                                                     *)
(***************************************************************************)
LEMMA ServerInit == Init => ServerInv
<1> SUFFICES ASSUME Init PROVE ServerInv
  OBVIOUS
<1>1. ActiveIds = {} /\ Range(active_request_streams) = {} /\ Cardinality({}) = 0
  BY FS_EmptySet DEF Init, ActiveIds, Range
<1>2. /\ worker \in [Streams -> Workers] /\ client \in [RequestIds -> ClientRecords]
      /\ \A s \in Streams : worker[s].pc = "none"
  BY RequestIdsFinite, ServerAssumption
     DEF Init, Workers, WorkerStates, NoWorker, ClientRecords, UnusedId
<1>3. /\ reader_queue \in [Streams -> Seq(Packets)]
      /\ writer_queue \in Seq(Packets \cup {NULL})
      /\ unflushed \in Seq(Packets) /\ inbound \in Seq(Packets) /\ outbound \in Seq(Packets)
  BY DEF Init
<1>4. TypeOK
  <2>1. request_streams_stop_event \in BOOLEAN /\ writer_stop_event \in BOOLEAN
    BY Zenon DEF Init
  <2>2. QED
    BY <1>1, <1>2, <1>3, <2>1, ServerAssumption DEF Init, TypeOK
<1>5. active_request_streams \in [ActiveIds -> Streams]
  BY <1>1 DEF Init
<1>6. StreamsHeldOnce
  BY <1>1, <1>2 DEF Init, StreamsHeldOnce, FreeStreams
<1>7. Holders /\ Captured /\ FibersAgree
  BY <1>1, <1>2 DEF Init, Holders, Captured, FibersAgree
<1>8. PacketsCounted
  <2>1. held \in [Streams -> Nat] /\ \A s \in Streams : held[s] = 0
    BY <1>3, HeldType DEF Init, held, HeldPackets
  <2>2. Cardinality(Places(Streams, held)) = 0
    BY <2>1, PlacesNone
  <2>3. QED
    BY <2>2, ServerAssumption DEF Init, PacketsCounted, QueuedCount
<1>9. QED
  BY <1>4, <1>5, <1>6, <1>7, <1>8 DEF ServerInv

LEMMA ServerStutters ==
    ASSUME ServerInv, UNCHANGED vars
    PROVE  ServerInv'
<1> USE DEF vars, stateVars, poolVars, streamVars, readerVars, writerVars, clientVars, wireVars
<1>1. TypeOK'
  BY DEF ServerInv, TypeOK, ActiveIds, Range
<1>2. QED
  BY <1>1, Aside

LEMMA ServerStep == ServerInv /\ [Next]_vars => ServerInv'
<1> SUFFICES ASSUME ServerInv, [Next]_vars PROVE ServerInv'
  OBVIOUS
<1>1. CASE Start
  BY <1>1, StartStep
<1>2. CASE ReaderStep
  BY <1>2, ReaderStartsStep, ReaderAcquirePacketStep, ReaderReadPacketStep, ReaderFailsStep,
     StopAllRequestStreamsStep, StopStreamWriterStep, ReaderEndsStep DEF ReaderStep
<1>3. CASE WriterStep
  BY <1>3, WriterGetPacketStep, WriterWritePacketStep, WriterFlushStep, WriterSkipPacketStep
     DEF WriterStep
<1>4. ASSUME NEW s \in Streams, WorkerGoesOn(s) \/ ReadTimeout(s)
      PROVE  ServerInv'
  BY <1>4, ReadPacketStep, ReadLastPacketStep, RequestFailsStep, GetWritePacketStep,
     WritePacketStep, FlushStep, FlushEndsStep, ReadTimeoutStep DEF WorkerGoesOn
<1>5. CASE \/ StopRequested \/ LinkBreaks \/ ClientReceives \/ ClientSendsGarbage
           \/ \E i \in RequestIds : ClientBegins(i) \/ ClientSends(i)
  BY <1>5, ExternalStep
<1>6. CASE Terminated \/ UNCHANGED vars
  BY <1>6, ServerStutters DEF Terminated
<1>7. QED
  BY <1>1, <1>2, <1>3, <1>4, <1>5, <1>6 DEF Next

LEMMA ServerAlways == Spec => []ServerInv
BY ServerInit, ServerStep, PTL DEF Spec

-----------------------------------------------------------------------------
(***************************************************************************)
(* Theorems                                                                *)
(***************************************************************************)

\* The state of struct mrpc_server_stream_processor keeps its types.
THEOREM TypeCorrect == Spec => []TypeOK
BY ServerAlways, PTL DEF ServerInv

\* acquire_request_stream and release_request_stream: a stream of the pool works
\* for at most one request id and every active id has a stream with a worker of
\* its own, whatever the client sends and whenever workers end.
THEOREM StreamsExclusive == Spec => []StreamsHeldOnce
BY ServerAlways, PTL DEF ServerInv

\* No packet of packets_pool is lost or given back twice: not by
\* mrpc_packet_stream_shutdown, the writer fiber that skips its queue or the
\* disconnects of stop_all_request_streams.
THEOREM PacketsKept == Spec => []PacketsConserved
<1>1. ServerInv => PacketsConserved
  <2> SUFFICES ASSUME ServerInv PROVE PacketsConserved
    OBVIOUS
  <2>1. StreamPackets = Places(Streams, held)
    BY DEF StreamPackets, Places, held
  <2>2. writer_queue \in Seq(Packets \cup {NULL}) /\ Len(writer_queue) \in Nat
    BY DEF ServerInv, TypeOK
  <2>3. Cardinality(QueuedPackets) = QueuedCount
    <3>1. CASE reader = "wait_writer" /\ writer # "none"
      <4>1. /\ Len(writer_queue) > 0
            /\ \A k \in 1 .. Len(writer_queue) :
                 writer_queue[k] = NULL <=> k = Len(writer_queue)
        BY <3>1 DEF ServerInv, FibersAgree
      <4>2. QueuedPackets = 1 .. Len(writer_queue) - 1
        BY <2>2, <4>1 DEF QueuedPackets
      <4>3. Cardinality(1 .. Len(writer_queue) - 1) = Len(writer_queue) - 1
        BY <2>2, <4>1, FS_Interval
      <4>4. QED
        BY <3>1, <4>2, <4>3 DEF QueuedCount
    <3>2. CASE ~(reader = "wait_writer" /\ writer # "none")
      <4>1. writer_queue = <<>> \/ \A k \in 1 .. Len(writer_queue) : writer_queue[k] # NULL
        BY <3>2 DEF ServerInv, TypeOK, FibersAgree
      <4>2. QueuedPackets = 1 .. Len(writer_queue)
        BY <2>2, <4>1 DEF QueuedPackets
      <4>3. Cardinality(1 .. Len(writer_queue)) = Len(writer_queue)
        BY <2>2, FS_Interval
      <4>4. QED
        BY <2>2, <3>2, <4>2, <4>3 DEF QueuedCount
    <3>3. QED
      BY <3>1, <3>2
  <2>4. QED
    BY <2>1, <2>3 DEF ServerInv, PacketsCounted, PacketsConserved
<1>2. QED
  BY <1>1, ServerAlways, PTL

\* While some request id is free, so is some stream.
StreamForEveryId == ActiveIds # RequestIds => FreeStreams # {}

\* acquire_request_stream never waits for a stream of request_streams_pool:
\* stream_reader_func, which calls it, goes on reading.
THEOREM PoolSuffices == Spec => []StreamForEveryId
<1>1. ServerInv => StreamForEveryId
  <2> SUFFICES ASSUME ServerInv, ActiveIds # RequestIds, FreeStreams = {}
               PROVE  FALSE
    BY DEF StreamForEveryId
  <2> DEFINE ars == active_request_streams
  <2>1. ActiveIds \subseteq RequestIds /\ ars \in [ActiveIds -> Streams]
    BY DEF ServerInv, TypeOK
  <2>2. IsFiniteSet(ActiveIds) /\ Cardinality(ActiveIds) \in Nat
    BY <2>1, ActiveIdsFinite
  <2>3. Cardinality(ActiveIds) < MaxStreams
    <3>1. Cardinality(ActiveIds) <= Cardinality(RequestIds)
      BY <2>1, RequestIdsFinite, FS_Subset
    <3>2. Cardinality(ActiveIds) # Cardinality(RequestIds)
      BY <2>1, RequestIdsFinite, FS_Subset
    <3>3. QED
      BY <2>2, <3>1, <3>2, RequestIdsFinite, ServerAssumption
  <2>4. ars \in Surjection(ActiveIds, Streams)
    <3>1. \A s \in Streams : \E i \in ActiveIds : ars[i] = s
      BY DEF FreeStreams, Range, ActiveIds
    <3>2. QED
      BY <2>1, <3>1 DEF Surjection
  <2>5. Cardinality(Streams) <= Cardinality(ActiveIds)
    BY <2>2, <2>4, FS_Surjection
  <2>6. QED
    BY <2>2, <2>3, <2>5, ServerAssumption
<1>2. QED
  BY <1>1, ServerAlways, PTL

\* A worker that is about to queue a packet finds room for it.
QueueHasRoom == \A s \in Streams : worker[s].pc = "write" => Len(writer_queue) < MaxPackets

\* "it is safe to set writer_queue's size to MAX_PACKETS_CNT": a worker never
\* blocks on the queue while it holds a packet for it.
THEOREM WorkersDontBlock == Spec => []QueueHasRoom
<1>1. ServerInv => QueueHasRoom
  <2> SUFFICES ASSUME ServerInv, NEW s \in Streams, worker[s].pc = "write"
               PROVE  Len(writer_queue) < MaxPackets
    BY DEF QueueHasRoom
  <2>1. /\ Len(writer_queue) \in Nat /\ free_packets \in Nat /\ MaxPackets \in Nat
        /\ reader_queue \in [Streams -> Seq(Packets)]
    BY ServerAssumption DEF ServerInv, TypeOK
  <2>2. held \in [Streams -> Nat] /\ Cardinality(Places(Streams, held)) \in Nat
    BY <2>1, HeldType
  <2>3. held[s] >= 1
    <3>1. current_write_packet[s] # "none"
      BY DEF ServerInv, Holders
    <3>2. Len(reader_queue[s]) \in Nat
      BY <2>1
    <3> DEFINE b == IF current_read_packet[s] = NULL THEN 0 ELSE 1
    <3>3. b \in Nat
      OBVIOUS
    <3>4. held[s] = Len(reader_queue[s]) + 1 + b
      BY <3>1 DEF held, HeldPackets
    <3> HIDE DEF b
    <3>5. QED
      BY <3>2, <3>3, <3>4
  <2>4. Cardinality(Places(Streams, held)) # 0
    BY <2>2, <2>3, PlacesSome, ServerAssumption
  <2>5. reader # "wait_writer"
    BY WorkerRuns
  <2>6. free_packets + Cardinality(Places(Streams, held)) + Len(writer_queue) <= MaxPackets
    <3> DEFINE a == IF reader = "read" THEN 1 ELSE 0
               b == IF writing = NULL THEN 0 ELSE 1
    <3>1. a \in Nat /\ b \in Nat
      OBVIOUS
    <3>2. QueuedCount = Len(writer_queue)
      BY <2>1, <2>5 DEF QueuedCount
    <3>3. free_packets + Cardinality(Places(Streams, held)) + Len(writer_queue) + a + b
            = MaxPackets
      BY <3>2 DEF ServerInv, PacketsCounted
    <3> HIDE DEF a, b
    <3>4. ASSUME NEW f \in Nat, NEW c \in Nat, NEW q \in Nat, NEW x \in Nat, NEW y \in Nat
          PROVE  f + c + q <= f + c + q + x + y
      OBVIOUS
    <3>5. QED
      BY <2>1, <2>2, <3>1, <3>3, <3>4
  <2>7. QED
    BY <2>1, <2>2, <2>4, <2>6
<1>2. QED
  BY <1>1, ServerAlways, PTL

\* What stream_reader_func leaves behind, apart from the packets of pooled streams.
StopLeavesNothing ==
    state = "STOPPED" =>
        /\ reader = "none" /\ writer = "none"
        /\ \A s \in Streams : worker[s].pc = "none"
        /\ ActiveIds = {}
        /\ ~request_streams_stop_event /\ ~writer_stop_event
        /\ writer_queue = <<>>

\* When stream_reader_func has ended, the writer fiber and all workers have ended
\* before it, both events are reset and nothing waits in the writer queue: the
\* assertions of mrpc_server_stream_processor_start and of the delete function.
THEOREM StopProtocol == Spec => []StopLeavesNothing
<1>1. ServerInv => StopLeavesNothing
  <2> SUFFICES ASSUME ServerInv, state = "STOPPED"
               PROVE  StopLeavesNothing
    BY DEF StopLeavesNothing
  <2>1. /\ reader = "none" /\ writer = "none" /\ ActiveIds = {}
        /\ ~request_streams_stop_event /\ ~writer_stop_event
        /\ writer_queue = <<>>
    BY DEF ServerInv, FibersAgree
  <2>2. \A s \in Streams : worker[s].pc = "none"
    BY <2>1, StreamOfWorker
  <2>3. QED
    BY <2>1, <2>2 DEF StopLeavesNothing
<1>2. QED
  BY <1>1, ServerAlways, PTL

-----------------------------------------------------------------------------
(***************************************************************************)
(* Stopping leaves no data of a request.  stop_all_request_streams looks a *)
(* stream up, waits for a packet and then uses the stream: if its worker   *)
(* has ended meanwhile, the END packet goes into the queue of a pooled     *)
(* stream.  No other packet can get there.                                 *)
(***************************************************************************)
OnlyEnds(q) == Range(q) \subseteq {Disconnected}

LEMMA OnlyEndsEmpty == OnlyEnds(<<>>)
BY DEF OnlyEnds, Range

LEMMA OnlyEndsAppend ==
    ASSUME NEW q \in Seq(Packets), OnlyEnds(q)
    PROVE  OnlyEnds(Append(q, Disconnected))
<1> DEFINE r == Append(q, Disconnected)
<1>1. /\ Len(q) \in Nat /\ DOMAIN q = 1 .. Len(q) /\ DOMAIN r = 1 .. Len(q) + 1
      /\ r[Len(q) + 1] = Disconnected /\ \A i \in 1 .. Len(q) : r[i] = q[i]
  OBVIOUS
<1>2. \A i \in 1 .. Len(q) : q[i] = Disconnected
  BY <1>1 DEF OnlyEnds, Range
<1> HIDE DEF r
<1>3. \A i \in 1 .. Len(q) + 1 : r[i] = Disconnected
  <2>1. \A i \in 1 .. Len(q) + 1 : i \in 1 .. Len(q) \/ i = Len(q) + 1
    BY <1>1
  <2>2. QED
    BY <1>1, <1>2, <2>1
<1>4. Range(r) \subseteq {Disconnected}
  BY <1>1, <1>3 DEF Range
<1>5. QED
  BY <1>4 DEF OnlyEnds, r

\* A stream in the pool holds no packet with data.
PooledStreamsHoldNoData ==
    \A s \in Streams : worker[s].pc = "none" =>
        OnlyEnds(reader_queue[s]) /\ current_read_packet[s] = NULL

\* The streams whose packets change have a worker, become empty or get the END
\* packet of a disconnect.
LEMMA NoDataStays ==
    ASSUME ServerInv, PooledStreamsHoldNoData,
           \A s \in Streams :
             \/ worker'[s].pc # "none"
             \/ reader_queue'[s] = <<>> /\ current_read_packet'[s] = NULL
             \/ /\ worker[s].pc = "none" /\ current_read_packet'[s] = current_read_packet[s]
                /\ reader_queue'[s] \in {reader_queue[s], Append(reader_queue[s], Disconnected)}
    PROVE  PooledStreamsHoldNoData'
<1> SUFFICES ASSUME NEW s \in Streams, worker'[s].pc = "none"
             PROVE  OnlyEnds(reader_queue'[s]) /\ current_read_packet'[s] = NULL
  BY DEF PooledStreamsHoldNoData, OnlyEnds
<1>1. CASE reader_queue'[s] = <<>> /\ current_read_packet'[s] = NULL
  BY <1>1, OnlyEndsEmpty
<1>2. CASE /\ worker[s].pc = "none" /\ current_read_packet'[s] = current_read_packet[s]
           /\ reader_queue'[s] \in {reader_queue[s], Append(reader_queue[s], Disconnected)}
  <2>1. /\ OnlyEnds(reader_queue[s]) /\ current_read_packet[s] = NULL
        /\ reader_queue[s] \in Seq(Packets)
    BY <1>2 DEF PooledStreamsHoldNoData, ServerInv, TypeOK
  <2>2. OnlyEnds(Append(reader_queue[s], Disconnected))
    BY <2>1, OnlyEndsAppend
  <2>3. QED
    BY <1>2, <2>1, <2>2
<1>3. QED
  BY <1>1, <1>2

\* Steps of a worker that goes on touch its own stream only.
LEMMA NoDataWorker ==
    ASSUME ServerInv, PooledStreamsHoldNoData, NEW s \in Streams, worker'[s].pc # "none",
           \A t \in Streams \ {s} :
              /\ worker'[t] = worker[t]
              /\ reader_queue'[t] = reader_queue[t]
              /\ current_read_packet'[t] = current_read_packet[t]
    PROVE  PooledStreamsHoldNoData'
BY NoDataStays

LEMMA NoDataRelease ==
    ASSUME ServerInv, PooledStreamsHoldNoData, NEW s \in Streams, NEW n,
           ReleaseRequestStream(s, n)
    PROVE  PooledStreamsHoldNoData'
<1>1. /\ reader_queue \in [Streams -> Seq(Packets)]
      /\ current_read_packet \in [Streams -> Packets \cup {NULL}]
      /\ worker \in [Streams -> Workers]
  BY DEF ServerInv, TypeOK
<1>2. /\ reader_queue'[s] = <<>> /\ current_read_packet'[s] = NULL
      /\ \A t \in Streams \ {s} :
           /\ worker'[t] = worker[t]
           /\ reader_queue'[t] = reader_queue[t]
           /\ current_read_packet'[t] = current_read_packet[t]
  BY <1>1 DEF ReleaseRequestStream, ShutdownStream
<1>3. QED
  BY <1>2, NoDataStays

LEMMA NoDataAlone ==
    ASSUME PooledStreamsHoldNoData, UNCHANGED streamVars
    PROVE  PooledStreamsHoldNoData'
BY DEF PooledStreamsHoldNoData, OnlyEnds, streamVars

LEMMA NoDataWorkerStep ==
    ASSUME ServerInv, PooledStreamsHoldNoData, NEW s \in Streams,
           WorkerGoesOn(s) \/ ReadTimeout(s)
    PROVE  PooledStreamsHoldNoData'
<1>0. /\ reader_queue \in [Streams -> Seq(Packets)]
      /\ current_read_packet \in [Streams -> Packets \cup {NULL}]
      /\ current_write_packet \in [Streams -> {"none", "START", "MIDDLE"}]
      /\ worker \in [Streams -> Workers]
  BY DEF ServerInv, TypeOK
<1>1. CASE ReadPacket(s)
  BY <1>0, <1>1, NoDataWorker DEF ReadPacket, CanRead
<1>2. CASE ReadLastPacket(s)
  <2>1. /\ worker'[s].pc = "write_first"
        /\ \A t \in Streams \ {s} : worker'[t] = worker[t]
    <3>1. PICK k \in 1 .. MaxResponsePackets :
            worker' = [worker EXCEPT ![s].pc = "write_first", ![s].left = k,
                                     ![s].call = NextPacket(s).call]
      BY <1>2, Zenon DEF ReadLastPacket
    <3>2. QED
      BY <1>0, <3>1 DEF Workers
  <2>2. QED
    BY <1>0, <1>2, <2>1, NoDataWorker DEF ReadLastPacket
<1>3. CASE RequestFails(s) \/ ReadTimeout(s) \/ FlushEnds(s)
  <2>1. ReleaseRequestStream(s, HeldPackets(s))
    BY <1>3 DEF RequestFails, ReadTimeout, FlushEnds
  <2>2. QED
    BY <2>1, NoDataRelease
<1>4. CASE GetWritePacket(s)
  <2>1. /\ worker'[s].pc = "write"
        /\ \A t \in Streams \ {s} : worker'[t] = worker[t]
    BY <1>0, <1>4 DEF GetWritePacket, Workers
  <2>2. \A t \in Streams \ {s} :
          /\ reader_queue'[t] = reader_queue[t]
          /\ current_read_packet'[t] = current_read_packet[t]
          /\ current_write_packet'[t] = current_write_packet[t]
    BY <1>0, <1>4 DEF GetWritePacket
  <2>3. QED
    BY <2>1, <2>2, NoDataWorker
<1>5. CASE WritePacket(s)
  <2>1. /\ worker'[s].pc # "none"
        /\ \A t \in Streams \ {s} : worker'[t] = worker[t]
    <3>1. /\ worker[s].pc = "write"
          /\ \/ worker' = [worker EXCEPT ![s].left = @ - 1]
             \/ worker' = [worker EXCEPT ![s].left = @ - 1, ![s].pc = "write_next"]
      BY <1>5 DEF WritePacket
    <3>2. worker[s] \in Workers
      BY <1>0
    <3>3. worker'[s].pc \in {"write", "write_next"}
      BY <1>0, <3>1, <3>2 DEF Workers
    <3>4. QED
      BY <1>0, <3>1, <3>3
  <2>2. \A t \in Streams \ {s} :
          /\ reader_queue'[t] = reader_queue[t]
          /\ current_read_packet'[t] = current_read_packet[t]
          /\ current_write_packet'[t] = current_write_packet[t]
    BY <1>0, <1>5 DEF WritePacket
  <2>3. QED
    BY <2>1, <2>2, NoDataWorker
<1>6. CASE Flush(s)
  <2>1. CASE ReleaseRequestStream(s, HeldPackets(s) - 1)
    BY <2>1, NoDataRelease
  <2>2. CASE /\ current_write_packet' = [current_write_packet EXCEPT ![s] = "none"]
             /\ worker' = [worker EXCEPT ![s].pc = "flush_end"]
             /\ UNCHANGED <<poolVars, reader_queue, current_read_packet, free_packets>>
    <3>1. /\ worker'[s].pc = "flush_end"
          /\ \A t \in Streams \ {s} : worker'[t] = worker[t]
      BY <1>0, <2>2 DEF Workers
    <3>2. \A t \in Streams \ {s} :
            /\ reader_queue'[t] = reader_queue[t]
            /\ current_read_packet'[t] = current_read_packet[t]
            /\ current_write_packet'[t] = current_write_packet[t]
      BY <1>0, <2>2
    <3>3. QED
      BY <3>1, <3>2, NoDataWorker
  <2>3. QED
    BY <1>6, <2>1, <2>2 DEF Flush
<1>7. QED
  BY <1>1, <1>2, <1>3, <1>4, <1>5, <1>6 DEF WorkerGoesOn

LEMMA NoDataReaderReadPacket ==
    ASSUME ServerInv, PooledStreamsHoldNoData, ReaderReadPacket
    PROVE  PooledStreamsHoldNoData'
<1>0. /\ reader_queue \in [Streams -> Seq(Packets)]
      /\ worker \in [Streams -> Workers]
      /\ UNCHANGED <<current_read_packet, current_write_packet>>
  BY DEF ReaderReadPacket, ServerInv, TypeOK
<1> DEFINE p == Head(inbound)
<1>1. CASE \E s \in FreeStreams :
             /\ AcquireRequestStream(p.id, s)
             /\ reader_queue' = [reader_queue EXCEPT ![s] = Append(@, p)]
  <2>1. PICK s \in FreeStreams :
             /\ AcquireRequestStream(p.id, s)
             /\ reader_queue' = [reader_queue EXCEPT ![s] = Append(@, p)]
    BY <1>1
  <2>2. s \in Streams
    BY DEF FreeStreams
  <2>3. /\ worker'[s].pc = "read"
        /\ \A t \in Streams \ {s} : worker'[t] = worker[t]
    BY <1>0, <2>1, <2>2 DEF AcquireRequestStream
  <2>4. QED
    BY <1>0, <2>1, <2>2, <2>3, NoDataWorker
<1>2. CASE /\ ~Misplaced(p) /\ ~StartsRequest(p)
           /\ reader_queue' =
                [reader_queue EXCEPT ![active_request_streams[p.id]] = Append(@, p)]
           /\ UNCHANGED worker
  <2> DEFINE s == active_request_streams[p.id]
  <2>1. p.id \in ActiveIds
    BY <1>2 DEF Misplaced
  <2>2. s \in Streams /\ worker[s].pc # "none"
    BY <2>1, StreamOfWorker DEF ServerInv
  <2> HIDE DEF s
  <2>3. reader_queue' = [reader_queue EXCEPT ![s] = Append(@, p)]
    BY <1>2 DEF s
  <2>4. QED
    BY <1>0, <1>2, <2>2, <2>3, NoDataWorker
<1>3. CASE UNCHANGED <<worker, reader_queue>>
  BY <1>0, <1>3, NoDataAlone DEF streamVars
<1>4. QED
  BY <1>1, <1>2, <1>3 DEF ReaderReadPacket, poolVars

LEMMA NoDataStopAll ==
    ASSUME ServerInv, PooledStreamsHoldNoData, StopAllRequestStreams
    PROVE  PooledStreamsHoldNoData'
<1>0. UNCHANGED <<current_read_packet, worker>>
  BY DEF StopAllRequestStreams
<1>1. PICK first, captured : DisconnectFrom(first, captured)
  BY DEF StopAllRequestStreams
<1>2. PICK served :
        reader_queue' = [s \in Streams |->
             IF s \in captured \cup {active_request_streams[i] : i \in served}
               THEN Append(reader_queue[s], Disconnected)
               ELSE reader_queue[s]]
  BY <1>1 DEF DisconnectFrom
<1>3. \A s \in Streams :
        reader_queue'[s] \in {reader_queue[s], Append(reader_queue[s], Disconnected)}
  BY <1>2
<1>4. QED
  BY <1>0, <1>3, NoDataStays

LEMMA NoDataStep ==
    ServerInv /\ PooledStreamsHoldNoData /\ [Next]_vars
      => PooledStreamsHoldNoData'
<1> SUFFICES ASSUME ServerInv, PooledStreamsHoldNoData, [Next]_vars
             PROVE  PooledStreamsHoldNoData'
  OBVIOUS
<1>1. CASE ReaderReadPacket
  BY <1>1, NoDataReaderReadPacket
<1>2. CASE StopAllRequestStreams
  BY <1>2, NoDataStopAll
<1>3. ASSUME NEW s \in Streams, WorkerGoesOn(s) \/ ReadTimeout(s)
      PROVE  PooledStreamsHoldNoData'
  BY <1>3, NoDataWorkerStep
<1>4. CASE \/ Start \/ StopRequested \/ ReaderStarts \/ ReaderAcquirePacket \/ ReaderFails
           \/ StopStreamWriter \/ ReaderEnds \/ LinkBreaks
  BY <1>4, NoDataAlone DEF Start, StopRequested, ReaderStarts, ReaderAcquirePacket,
     ReaderFails, StopStreamWriter, ReaderEnds, LinkBreaks
<1>5. CASE WriterStep
  BY <1>5, NoDataAlone DEF WriterStep, WriterGetPacket, WriterWritePacket, WriterFlush,
     WriterSkipPacket
<1>6. CASE \/ ClientReceives \/ ClientSendsGarbage
           \/ \E i \in RequestIds : ClientBegins(i) \/ ClientSends(i)
  BY <1>6, NoDataAlone DEF ClientReceives, ClientSendsGarbage, ClientBegins, ClientSends
<1>7. CASE Terminated \/ UNCHANGED vars
  BY <1>7, NoDataAlone DEF Terminated, vars
<1>8. QED
  BY <1>1, <1>2, <1>3, <1>4, <1>5, <1>6, <1>7 DEF Next, ReaderStep

\* A stopped processor is ready for the next connection: nothing of the fibers,
\* the ids, the events and the queue is left, and no stream of the pool keeps data
\* of a request, however its worker ended - in the middle of a response too - for
\* every number of streams and packets.
THEOREM StopCorrect == Spec => []StoppedMeansStopped
<1>1. Init => PooledStreamsHoldNoData
  BY OnlyEndsEmpty DEF Init, PooledStreamsHoldNoData
<1>2. ServerInv /\ StopLeavesNothing /\ PooledStreamsHoldNoData => StoppedMeansStopped
  <2> SUFFICES ASSUME ServerInv, StopLeavesNothing, PooledStreamsHoldNoData,
                      state = "STOPPED"
               PROVE  StoppedMeansStopped
    BY DEF StoppedMeansStopped
  <2>1. \A s \in Streams : worker[s].pc = "none"
    BY DEF StopLeavesNothing
  <2>2. \A s \in Streams : current_write_packet[s] = "none"
    BY <2>1 DEF ServerInv, Holders
  <2>3. \A s \in Streams : /\ current_read_packet[s] = NULL
                           /\ Range(reader_queue[s]) \subseteq {Disconnected}
    BY <2>1 DEF PooledStreamsHoldNoData, OnlyEnds
  <2>4. QED
    BY <2>1, <2>2, <2>3 DEF StopLeavesNothing, StoppedMeansStopped
<1>3. QED
  BY <1>1, <1>2, NoDataStep, ServerAlways, StopProtocol, PTL DEF Spec

-----------------------------------------------------------------------------
(***************************************************************************)
(* Whose data the packets at the server carry: proofs that requests are    *)
(* never mixed and that a response always belongs to the request for which *)
(* the client uses the id now, for every number of streams, packets,       *)
(* requests and connections.  Request ids are used again as soon as the    *)
(* client has the whole response, streams as soon as a worker has queued   *)
(* it, so both rest on the order of the packets of one id on the wire, in  *)
(* the stream and in the writer queue.                                     *)
(***************************************************************************)

(***************************************************************************)
(* Sets of packets                                                         *)
(***************************************************************************)

\* packets with data; those of a request of id i, the first and the last ones
\* of it, those of a call other than n; what does not belong to call n of id i
AllData == {p \in Packets : p.call # 0}
Data(i) == {p \in AllData : p.id = i}
First(i) == {p \in Data(i) : StartsRequest(p)}
Last(i) == {p \in Data(i) : p.type \in {"SINGLE", "END"}}
Foreign(i, n) == {p \in Data(i) : p.call # n}
Alien(i, n) == {p \in AllData : p.id # i \/ p.call # n}
OfCall(n) == {p \in AllData : p.call = n}

\* the packets of a response to id i, the last ones of it, those of a call
\* other than n
Response(i) == {p \in Packets : p.id = i}
Ends(i) == {p \in Response(i) : p.type \in {"SINGLE", "END"}}
Wrong(i, n) == {p \in Response(i) : p.call # n}

\* where they can be
InStream(s, P) == Occurs(reader_queue[s], P) \/ current_read_packet[s] \in P

Answered(P) ==
    Occurs(outbound, P) \/ Occurs(unflushed, P) \/ writing \in P \/ Occurs(writer_queue, P)

\* the worker of stream s reads the request of id i; it writes the response
Reading(s, i) == worker[s].pc = "read" /\ worker[s].id = i
Answering(s, i) == worker[s].pc \in {"write_first", "write", "write_next"} /\ worker[s].id = i

Calls == 0 .. MaxRequests

-----------------------------------------------------------------------------
(***************************************************************************)
(* The invariant                                                           *)
(***************************************************************************)

\* The connection is usable only while the processor works, and a stopped
\* processor has none.
LinkWorks ==
    /\ link \in {"up", "down"} => state = "WORKING"
    /\ state = "STOPPED" =>
         /\ inbound = <<>> /\ outbound = <<>> /\ unflushed = <<>>
         /\ client = [i \in RequestIds |-> UnusedId]

\* A stream has data of one request only, and in the pool none.
StreamsUnmixed ==
    \A s \in Streams :
        /\ worker[s].pc = "none" => ~InStream(s, AllData)
        /\ \A m, n \in Calls : m # n => ~InStream(s, OfCall(m)) \/ ~InStream(s, OfCall(n))

\* What the client has sent and the reader fiber has not read: packets of the
\* request for which the client uses the id now, in the order it sends them.
RequestsSent(i) ==
    /\ client[i].left <= client[i].size
    /\ client[i].size = 0 => client[i] = UnusedId
    /\ client[i].size # 0 => client[i].call # 0
    /\ ~Occurs(inbound, Foreign(i, client[i].call))
    /\ NoneAfter(inbound, Data(i), First(i))
    /\ NoneAfter(inbound, Last(i), Data(i))
    /\ client[i].left > 0 => ~Occurs(inbound, Last(i))
    /\ client[i].left = client[i].size => ~Occurs(inbound, Data(i))

\* the client is in the middle of a request, or its packets are on the wire
Begun(i) ==
    Occurs(inbound, Data(i)) \/ (client[i].left > 0 /\ client[i].left < client[i].size)

\* A request whose first packet has been read has its worker.
RequestsReceived(i) ==
    Begun(i) /\ ~Occurs(inbound, First(i)) => \E s \in Streams : Reading(s, i)

\* What a worker reads.
StreamReads(s, i) ==
    /\ ~InStream(s, Alien(i, client[i].call))
    /\ NoneAfter(reader_queue[s], Last(i), Data(i))
    /\ Occurs(reader_queue[s], Last(i)) => ~Occurs(inbound, Data(i)) /\ client[i].left = 0
    /\ InStream(s, AllData) =>
         /\ client[i].left < client[i].size
         /\ ~Occurs(inbound, First(i)) /\ ~Answered(Response(i))

\* What a worker writes: nothing of the request is left on the wire, and the
\* response is not yet complete.
StreamAnswers(s, i) ==
    /\ worker[s].call = client[i].call
    /\ client[i].size # 0 /\ client[i].left = 0
    /\ ~Occurs(inbound, Data(i)) /\ ~Answered(Ends(i))

\* What is on its way to the client: packets of the response it waits for,
\* none behind the last one.
ResponsesInOrder(i) ==
    /\ NoneAfter(outbound, Ends(i), Response(i))
    /\ NoneAfter(unflushed, Ends(i), Response(i))
    /\ NoneAfter(writer_queue, Ends(i), Response(i))
    /\ Occurs(outbound, Ends(i)) =>
         /\ ~Occurs(unflushed, Response(i))
         /\ writing \notin Response(i)
         /\ ~Occurs(writer_queue, Response(i))
    /\ Occurs(unflushed, Ends(i)) =>
         writing \notin Response(i) /\ ~Occurs(writer_queue, Response(i))
    /\ writing \in Ends(i) => ~Occurs(writer_queue, Response(i))

ResponsesAwaited(i) ==
    /\ ~Answered(Wrong(i, client[i].call))
    /\ Answered(Response(i)) =>
         /\ client[i].size # 0 /\ client[i].left = 0
         /\ ~Occurs(inbound, Data(i))

IdInOrder(i) ==
    /\ RequestsSent(i) /\ RequestsReceived(i) /\ ResponsesInOrder(i) /\ ResponsesAwaited(i)
    /\ \A s \in Streams : /\ Reading(s, i) => StreamReads(s, i)
                          /\ Answering(s, i) => StreamAnswers(s, i)

InOrder == \A i \in RequestIds : IdInOrder(i)

\* What the steps preserve one by one.
DataRest == StreamsUnmixed /\ (state = "WORKING" => InOrder)

DataInv == LinkWorks /\ DataRest

ConnectionInv == ServerInv /\ DataInv

\* Without mistakes of the client no packet is empty, except the one that tells
\* a stream of the disconnect, and a worker that reads has data.
Empty == {p \in Packets : p.call = 0}
EmptyRequest == {p \in Empty : p.type # "END"}

NoEmptyPackets ==
    garbage = 0 =>
        /\ \A s \in Streams : ~Occurs(reader_queue[s], EmptyRequest)
        /\ state = "WORKING" =>
             /\ ~Occurs(inbound, Empty)
             /\ \A s \in Streams : worker[s].pc = "read" => InStream(s, AllData)

-----------------------------------------------------------------------------
(***************************************************************************)
(* Facts about these sets                                                  *)
(***************************************************************************)

LEMMA DataSets ==
    /\ \A i : /\ First(i) \subseteq Data(i) /\ Last(i) \subseteq Data(i)
              /\ Data(i) \subseteq AllData /\ Data(i) \subseteq Response(i)
              /\ Ends(i) \subseteq Response(i) /\ Response(i) \subseteq Packets
    /\ \A i, n : /\ Foreign(i, n) \subseteq Data(i) /\ Alien(i, n) \subseteq AllData
                 /\ Wrong(i, n) \subseteq Response(i) /\ OfCall(n) \subseteq AllData
    /\ AllData \subseteq Packets
BY DEF AllData, Data, First, Last, Foreign, Alien, OfCall, Response, Ends, Wrong

LEMMA Types ==
    ASSUME ServerInv
    PROVE  /\ writer_queue \in Seq(Packets \cup {NULL})
           /\ unflushed \in Seq(Packets) /\ outbound \in Seq(Packets)
           /\ inbound \in Seq(Packets)
           /\ reader_queue \in [Streams -> Seq(Packets)]
           /\ current_read_packet \in [Streams -> Packets \cup {NULL}]
           /\ worker \in [Streams -> Workers]
           /\ client \in [RequestIds -> ClientRecords]
           /\ \A i \in RequestIds : client[i].call \in Calls /\ client[i].left \in Nat
                                    /\ client[i].size \in Nat
           /\ TypeOK
<1>1. TypeOK
  BY DEF ServerInv
<1>2. \A r \in ClientRecords : r.call \in Calls /\ r.left \in Nat /\ r.size \in Nat
  BY ServerAssumption DEF ClientRecords, Calls
<1>3. QED
  BY <1>1, <1>2 DEF TypeOK

\* Two workers never serve the same id.
LEMMA OneWorker ==
    ASSUME ServerInv, NEW s \in Streams, NEW t \in Streams, worker[s].pc # "none",
           worker[t].pc # "none", worker[s].id = worker[t].id
    PROVE  s = t
BY StreamOfWorker

\* The workers' ids are ids.
LEMMA WorkerId ==
    ASSUME ServerInv, NEW s \in Streams
    PROVE  worker[s].id \in RequestIds
BY Types DEF Workers

-----------------------------------------------------------------------------
(***************************************************************************)
(* Steps that leave the data of an id, or of the streams, alone            *)
(***************************************************************************)

LEMMA StreamsStay ==
    ASSUME StreamsUnmixed,
           \A s \in Streams :
             /\ worker'[s].pc = "none" => worker[s].pc = "none"
             /\ \A P : P \subseteq AllData => (InStream(s, P)' => InStream(s, P))
    PROVE  StreamsUnmixed'
<1>1. \A n : OfCall(n) \subseteq AllData
  BY DataSets
<1>2. QED
  BY <1>1 DEF StreamsUnmixed

LEMMA IdStays ==
    ASSUME NEW i \in RequestIds, IdInOrder(i), client'[i] = client[i],
           \A P : P \subseteq Data(i) => (Occurs(inbound', P) <=> Occurs(inbound, P)),
           \A L, D : L \subseteq Data(i) /\ D \subseteq Data(i) =>
             (NoneAfter(inbound, L, D) => NoneAfter(inbound', L, D)),
           \A P : P \subseteq Response(i) => (Answered(P)' => Answered(P)),
           ResponsesInOrder(i)',
           \A s \in Streams :
             /\ Reading(s, i)' <=> Reading(s, i)
             /\ Answering(s, i)' => Answering(s, i) /\ worker'[s].call = worker[s].call
             /\ Reading(s, i) =>
                  /\ \A P : P \subseteq AllData =>
                       /\ Occurs(reader_queue'[s], P) => Occurs(reader_queue[s], P)
                       /\ InStream(s, P)' => InStream(s, P)
                  /\ NoneAfter(reader_queue[s], Last(i), Data(i)) =>
                       NoneAfter(reader_queue'[s], Last(i), Data(i))
    PROVE  IdInOrder(i)'
<1>1. /\ RequestsSent(i) /\ RequestsReceived(i) /\ ResponsesAwaited(i)
      /\ \A s \in Streams : /\ Reading(s, i) => StreamReads(s, i)
                            /\ Answering(s, i) => StreamAnswers(s, i)
  BY DEF IdInOrder
<1>2. /\ Occurs(inbound', Data(i)) <=> Occurs(inbound, Data(i))
      /\ Occurs(inbound', First(i)) <=> Occurs(inbound, First(i))
      /\ Occurs(inbound', Last(i)) <=> Occurs(inbound, Last(i))
      /\ \A n : Occurs(inbound', Foreign(i, n)) <=> Occurs(inbound, Foreign(i, n))
      /\ NoneAfter(inbound, Data(i), First(i)) => NoneAfter(inbound', Data(i), First(i))
      /\ NoneAfter(inbound, Last(i), Data(i)) => NoneAfter(inbound', Last(i), Data(i))
  BY DataSets
<1>3. /\ Answered(Response(i))' => Answered(Response(i))
      /\ Answered(Ends(i))' => Answered(Ends(i))
      /\ \A n : Answered(Wrong(i, n))' => Answered(Wrong(i, n))
  BY DataSets
<1>4. RequestsSent(i)'
  BY <1>1, <1>2 DEF RequestsSent
<1>5. RequestsReceived(i)'
  BY <1>1, <1>2 DEF RequestsReceived, Begun
<1>6. ResponsesAwaited(i)'
  BY <1>1, <1>2, <1>3 DEF ResponsesAwaited
<1>7. ASSUME NEW s \in Streams, Reading(s, i)' PROVE StreamReads(s, i)'
  <2>1. StreamReads(s, i) /\ Reading(s, i)
    BY <1>1, <1>7
  <2>2. /\ Occurs(reader_queue'[s], Last(i)) => Occurs(reader_queue[s], Last(i))
        /\ InStream(s, AllData)' => InStream(s, AllData)
        /\ \A n : InStream(s, Alien(i, n))' => InStream(s, Alien(i, n))
    BY <2>1, DataSets
  <2>3. QED
    BY <1>2, <1>3, <2>1, <2>2 DEF StreamReads
<1>8. ASSUME NEW s \in Streams, Answering(s, i)' PROVE StreamAnswers(s, i)'
  BY <1>1, <1>2, <1>3, <1>8 DEF StreamAnswers
<1>9. QED
  BY <1>4, <1>5, <1>6, <1>7, <1>8 DEF IdInOrder

\* The streams are left alone.
LEMMA StreamsAside ==
    ASSUME UNCHANGED <<reader_queue, current_read_packet, worker>>
    PROVE  /\ StreamsUnmixed => StreamsUnmixed'
           /\ \A i : \A s \in Streams :
                /\ Reading(s, i)' <=> Reading(s, i)
                /\ Answering(s, i)' => Answering(s, i) /\ worker'[s].call = worker[s].call
                /\ \A P : /\ Occurs(reader_queue'[s], P) => Occurs(reader_queue[s], P)
                          /\ InStream(s, P)' => InStream(s, P)
                /\ NoneAfter(reader_queue[s], Last(i), Data(i)) =>
                     NoneAfter(reader_queue'[s], Last(i), Data(i))
BY DEF StreamsUnmixed, Reading, Answering, InStream

\* The packets on the wire and in the writer queue are left alone.
LEMMA WireAside ==
    ASSUME UNCHANGED <<inbound, outbound, unflushed, writing, writer_queue>>
    PROVE  /\ \A P : Occurs(inbound', P) <=> Occurs(inbound, P)
           /\ \A L, D : NoneAfter(inbound, L, D) => NoneAfter(inbound', L, D)
           /\ \A P : Answered(P)' <=> Answered(P)
           /\ \A i : ResponsesInOrder(i) => ResponsesInOrder(i)'
BY DEF Answered, ResponsesInOrder

\* Nothing happens to the data.
LEMMA DataStays ==
    ASSUME DataRest, UNCHANGED <<reader_queue, current_read_packet, worker>>,
           \/ state' # "WORKING"
           \/ /\ state = "WORKING"
              /\ UNCHANGED <<client, inbound, outbound, unflushed, writing, writer_queue>>
    PROVE  DataRest'
<1>1. StreamsUnmixed'
  BY StreamsAside DEF DataRest
<1>2. CASE state' # "WORKING"
  BY <1>1, <1>2 DEF DataRest
<1>3. CASE /\ state = "WORKING"
           /\ UNCHANGED <<client, inbound, outbound, unflushed, writing, writer_queue>>
  <2>1. ASSUME NEW i \in RequestIds PROVE IdInOrder(i)'
    <3>1. IdInOrder(i) /\ ResponsesInOrder(i)
      BY <1>3 DEF DataRest, InOrder, IdInOrder
    <3>2. QED
      BY <1>3, <3>1, StreamsAside, WireAside, IdStays
  <2>2. QED
    BY <1>1, <2>1 DEF DataRest, InOrder
<1>4. QED
  BY <1>2, <1>3

-----------------------------------------------------------------------------
(***************************************************************************)
(* Steps of a worker                                                       *)
(***************************************************************************)

\* A worker takes the packet at the front of its queue.
LEMMA TakesFront ==
    ASSUME ServerInv, NEW s \in Streams, reader_queue[s] # <<>>,
           reader_queue' = [reader_queue EXCEPT ![s] = Tail(@)],
           current_read_packet' = [current_read_packet EXCEPT ![s] = Head(reader_queue[s])]
    PROVE  /\ Head(reader_queue[s]) \in Packets
           /\ \A P : Head(reader_queue[s]) \in P => Occurs(reader_queue[s], P)
           /\ \A t \in Streams :
                /\ \A P : /\ Occurs(reader_queue'[t], P) => Occurs(reader_queue[t], P)
                          /\ InStream(t, P)' => InStream(t, P)
                /\ \A L, D : NoneAfter(reader_queue[t], L, D) => NoneAfter(reader_queue'[t], L, D)
<1>1. /\ reader_queue[s] \in Seq(Packets) /\ reader_queue'[s] = Tail(reader_queue[s])
      /\ current_read_packet'[s] = Head(reader_queue[s])
      /\ \A t \in Streams \ {s} : /\ reader_queue'[t] = reader_queue[t]
                                  /\ current_read_packet'[t] = current_read_packet[t]
  BY Types
<1>2. /\ Head(reader_queue[s]) \in Packets
      /\ \A P : Occurs(reader_queue[s], P) <=>
           Head(reader_queue[s]) \in P \/ Occurs(Tail(reader_queue[s]), P)
      /\ \A L, D : NoneAfter(reader_queue[s], L, D) => NoneAfter(Tail(reader_queue[s]), L, D)
  BY <1>1, OccursTail
<1>3. ASSUME NEW t \in Streams
      PROVE  /\ \A P : /\ Occurs(reader_queue'[t], P) => Occurs(reader_queue[t], P)
                       /\ InStream(t, P)' => InStream(t, P)
             /\ \A L, D : NoneAfter(reader_queue[t], L, D) => NoneAfter(reader_queue'[t], L, D)
  <2>1. CASE t = s
    BY <1>1, <1>2, <2>1 DEF InStream
  <2>2. CASE t # s
    BY <1>1, <2>2 DEF InStream
  <2>3. QED
    BY <2>1, <2>2
<1>4. QED
  BY <1>2, <1>3

LEMMA ReadPacketData ==
    ASSUME ConnectionInv, NEW s \in Streams, ReadPacket(s)
    PROVE  DataRest'
<1>1. /\ ServerInv /\ DataRest /\ reader_queue[s] # <<>>
      /\ reader_queue' = [reader_queue EXCEPT ![s] = Tail(@)]
      /\ current_read_packet' = [current_read_packet EXCEPT ![s] = Head(reader_queue[s])]
      /\ UNCHANGED <<worker, state, client, inbound, outbound, unflushed, writing, writer_queue>>
  BY DEF ReadPacket, CanRead, NextPacket, ConnectionInv, DataInv, stateVars, writerVars,
         clientVars, wireVars
<1>2. \A t \in Streams :
        /\ \A P : /\ Occurs(reader_queue'[t], P) => Occurs(reader_queue[t], P)
                  /\ InStream(t, P)' => InStream(t, P)
        /\ \A L, D : NoneAfter(reader_queue[t], L, D) => NoneAfter(reader_queue'[t], L, D)
  BY <1>1, TakesFront
<1>3. StreamsUnmixed'
  BY <1>1, <1>2, StreamsStay DEF DataRest
<1>4. ASSUME state = "WORKING", NEW i \in RequestIds PROVE IdInOrder(i)'
  <2>1. IdInOrder(i) /\ ResponsesInOrder(i)
    BY <1>1, <1>4 DEF DataRest, InOrder, IdInOrder
  <2>2. \A t \in Streams :
          /\ Reading(t, i)' <=> Reading(t, i)
          /\ Answering(t, i)' => Answering(t, i) /\ worker'[t].call = worker[t].call
    BY <1>1 DEF Reading, Answering
  <2>3. QED
    BY <1>1, <1>2, <2>1, <2>2, WireAside, IdStays
<1>5. QED
  BY <1>1, <1>3, <1>4 DEF DataRest, InOrder

\* The worker has the whole request: nothing of it is left on the wire.
LEMMA ReadLastPacketData ==
    ASSUME ConnectionInv, NEW s \in Streams, ReadLastPacket(s)
    PROVE  DataRest'
<1>0. PICK k \in 1 .. MaxResponsePackets :
        worker' = [worker EXCEPT ![s].pc = "write_first", ![s].left = k,
                                 ![s].call = NextPacket(s).call]
  BY Zenon DEF ReadLastPacket
<1>1. /\ ServerInv /\ DataRest /\ reader_queue[s] # <<>> /\ worker[s].pc = "read"
      /\ reader_queue' = [reader_queue EXCEPT ![s] = Tail(@)]
      /\ current_read_packet' = [current_read_packet EXCEPT ![s] = Head(reader_queue[s])]
      /\ Head(reader_queue[s]).type \in {"SINGLE", "END"} /\ Head(reader_queue[s]).call # 0
      /\ UNCHANGED <<state, client, inbound, outbound, unflushed, writing, writer_queue>>
  BY DEF ReadLastPacket, CanRead, NextPacket, ConnectionInv, DataInv, stateVars, writerVars,
         clientVars, wireVars
<1>2. /\ Head(reader_queue[s]) \in Packets
      /\ \A P : Head(reader_queue[s]) \in P => Occurs(reader_queue[s], P)
      /\ \A t \in Streams :
           /\ \A P : /\ Occurs(reader_queue'[t], P) => Occurs(reader_queue[t], P)
                     /\ InStream(t, P)' => InStream(t, P)
           /\ \A L, D : NoneAfter(reader_queue[t], L, D) => NoneAfter(reader_queue'[t], L, D)
  BY <1>1, TakesFront
<1>3. PICK i \in RequestIds : i = worker[s].id
  BY <1>1, WorkerId
<1>4. /\ worker'[s].pc = "write_first" /\ worker'[s].id = i
      /\ worker'[s].call = Head(reader_queue[s]).call
      /\ \A t \in Streams \ {s} : worker'[t] = worker[t]
  BY <1>0, <1>1, <1>3, Types DEF NextPacket, Workers
<1>5. StreamsUnmixed'
  BY <1>1, <1>2, <1>4, StreamsStay DEF DataRest
<1>6. ASSUME state = "WORKING", NEW j \in RequestIds \ {i} PROVE IdInOrder(j)'
  <2>1. IdInOrder(j) /\ ResponsesInOrder(j)
    BY <1>1, <1>6 DEF DataRest, InOrder, IdInOrder
  <2>2. \A t \in Streams :
          /\ Reading(t, j)' <=> Reading(t, j)
          /\ Answering(t, j)' => Answering(t, j) /\ worker'[t].call = worker[t].call
    BY <1>3, <1>4 DEF Reading, Answering
  <2>3. QED
    BY <1>1, <1>2, <2>1, <2>2, WireAside, IdStays
<1>7. ASSUME state = "WORKING" PROVE IdInOrder(i)'
  <2>1. IdInOrder(i)
    BY <1>1, <1>7 DEF DataRest, InOrder
  <2>2. StreamReads(s, i)
    BY <1>1, <1>3, <2>1 DEF IdInOrder, Reading
  <2>3. Head(reader_queue[s]) \in AllData
    BY <1>1, <1>2 DEF AllData
  <2>4. Head(reader_queue[s]) \notin Alien(i, client[i].call)
    BY <1>2, <2>2 DEF StreamReads, InStream
  <2>5. Head(reader_queue[s]) \in Last(i) /\ Head(reader_queue[s]).call = client[i].call
    BY <1>1, <2>3, <2>4 DEF Last, Data, Alien
  <2>6. /\ ~Occurs(inbound, Data(i)) /\ client[i].left = 0 /\ client[i].left < client[i].size
        /\ ~Answered(Response(i))
    BY <1>2, <2>2, <2>3, <2>5 DEF StreamReads, InStream
  <2>7. ~Answered(Ends(i))
    <3>1. \A q : Occurs(q, Ends(i)) => Occurs(q, Response(i))
      BY DataSets, OccursWithin
    <3>2. QED
      BY <2>6, <3>1, DataSets DEF Answered
  <2>8. StreamAnswers(s, i)'
    <3>1. ~Answered(Ends(i))'
      BY <1>1, <2>7, WireAside
    <3>2. client[i].size # 0
      BY <2>6
    <3>3. QED
      BY <1>1, <1>4, <2>5, <2>6, <3>1, <3>2 DEF StreamAnswers
  <2>9. ASSUME NEW t \in Streams, Reading(t, i)' \/ Answering(t, i)'
        PROVE  t = s
    <3>1. CASE t # s
      BY <1>1, <1>3, <1>4, <2>9, <3>1, OneWorker DEF Reading, Answering
    <3>2. QED
      BY <3>1
  <2>10. ~Reading(s, i)'
    BY <1>4 DEF Reading
  <2>11. RequestsSent(i)' /\ ResponsesAwaited(i)'
    BY <1>1, <2>1, WireAside DEF IdInOrder, RequestsSent, ResponsesAwaited
  <2>12. ~Begun(i)'
    BY <1>1, <2>6, WireAside DEF Begun
  <2>13. ResponsesInOrder(i)'
    BY <1>1, <2>1, WireAside DEF IdInOrder
  <2>14. QED
    BY <2>8, <2>9, <2>10, <2>11, <2>12, <2>13 DEF IdInOrder, RequestsReceived
<1>8. QED
  BY <1>1, <1>5, <1>6, <1>7 DEF DataRest, InOrder

LEMMA GetWritePacketData ==
    ASSUME ConnectionInv, NEW s \in Streams, GetWritePacket(s)
    PROVE  DataRest'
<1>1. /\ ServerInv /\ DataRest /\ worker[s].pc \in {"write_first", "write_next"}
      /\ worker' = [worker EXCEPT ![s].pc = "write"]
      /\ UNCHANGED <<reader_queue, current_read_packet, state, client, inbound, outbound,
                     unflushed, writing, writer_queue>>
  BY DEF GetWritePacket, ConnectionInv, DataInv, stateVars, writerVars, clientVars, wireVars
<1>2. /\ worker'[s].pc = "write" /\ worker'[s].id = worker[s].id
      /\ worker'[s].call = worker[s].call
      /\ \A t \in Streams \ {s} : worker'[t] = worker[t]
  BY <1>1, Types DEF Workers
<1>3. \A t \in Streams : \A P : InStream(t, P)' <=> InStream(t, P)
  BY <1>1 DEF InStream
<1>4. StreamsUnmixed'
  BY <1>1, <1>2, <1>3, StreamsStay DEF DataRest
<1>5. ASSUME state = "WORKING", NEW i \in RequestIds PROVE IdInOrder(i)'
  <2>1. IdInOrder(i) /\ ResponsesInOrder(i)
    BY <1>1, <1>5 DEF DataRest, InOrder, IdInOrder
  <2>2. \A t \in Streams :
          /\ Reading(t, i)' <=> Reading(t, i)
          /\ Answering(t, i)' => Answering(t, i) /\ worker'[t].call = worker[t].call
    BY <1>1, <1>2 DEF Reading, Answering
  <2>3. QED
    BY <1>1, <1>3, <2>1, <2>2, WireAside, IdStays
<1>6. QED
  BY <1>1, <1>4, <1>5 DEF DataRest, InOrder

\* A worker queues a packet of its response.
LEMMA QueuesResponse ==
    ASSUME ConnectionInv, state = "WORKING", NEW s \in Streams, NEW i \in RequestIds,
           Answering(s, i), NEW t \in PacketTypes, NEW n \in Calls, n = worker[s].call,
           writer_queue' = Append(writer_queue, Packet(i, t, n)),
           UNCHANGED <<client, inbound, outbound, unflushed, writing>>,
           \A u \in Streams \ {s} : /\ worker'[u] = worker[u]
                                    /\ reader_queue'[u] = reader_queue[u]
                                    /\ current_read_packet'[u] = current_read_packet[u],
           worker'[s].pc # "read",
           \A j : Answering(s, j)' =>
             j = i /\ worker'[s].call = worker[s].call /\ t \notin {"SINGLE", "END"}
    PROVE  InOrder'
<1>1. PICK p \in Packets : p = Packet(i, t, n)
  BY PacketType DEF Calls
<1>2. ServerInv /\ InOrder /\ writer_queue \in Seq(Packets \cup {NULL})
  BY Types DEF ConnectionInv, DataInv, DataRest
<1>3. /\ \A P : Occurs(writer_queue', P) <=> Occurs(writer_queue, P) \/ p \in P
      /\ \A L, D : NoneAfter(writer_queue, L, D) /\ (Occurs(writer_queue, L) => p \notin D)
                     => NoneAfter(writer_queue', L, D)
  BY <1>1, <1>2, OccursAppend
<1>4. \A P : Answered(P)' <=> Answered(P) \/ p \in P
  BY <1>3 DEF Answered
<1>5. \A u \in Streams, j \in RequestIds :
        /\ Reading(u, j)' <=> Reading(u, j)
        /\ Answering(u, j)' => Answering(u, j) /\ worker'[u].call = worker[u].call
  BY DEF Reading, Answering
<1>6. ASSUME NEW j \in RequestIds \ {i} PROVE IdInOrder(j)'
  <2>1. IdInOrder(j) /\ ResponsesInOrder(j)
    BY <1>2 DEF InOrder, IdInOrder
  <2>2. p \notin Response(j)
    BY <1>1 DEF Packet, Response
  <2>3. \A P : P \subseteq Response(j) => (Answered(P)' => Answered(P))
    BY <1>4, <2>2
  <2>4. ResponsesInOrder(j)'
    BY <1>3, <2>1, <2>2, DataSets DEF ResponsesInOrder
  <2>5. \A u \in Streams : Reading(u, j) =>
          /\ reader_queue'[u] = reader_queue[u]
          /\ \A P : InStream(u, P)' <=> InStream(u, P)
    BY DEF Reading, Answering, InStream
  <2>6. QED
    BY <1>5, <2>1, <2>3, <2>4, <2>5, IdStays
<1>7. IdInOrder(i)'
  <2>1. IdInOrder(i)
    BY <1>2 DEF InOrder
  <2>2. StreamAnswers(s, i)
    BY <2>1 DEF IdInOrder
  <2>3. ResponsesInOrder(i)'
    BY <1>3, <2>1, <2>2 DEF IdInOrder, StreamAnswers, Answered, ResponsesInOrder
  <2>4. RequestsSent(i)'
    BY <2>1 DEF IdInOrder, RequestsSent
  <2>5. RequestsReceived(i)'
    BY <2>2 DEF StreamAnswers, RequestsReceived, Begun
  <2>6. ResponsesAwaited(i)'
    <3>1. p \notin Wrong(i, client[i].call)
      BY <1>1, <2>2 DEF Packet, Wrong, StreamAnswers
    <3>2. QED
      BY <1>4, <2>1, <2>2, <3>1 DEF IdInOrder, ResponsesAwaited, StreamAnswers
  <2>7. ASSUME NEW u \in Streams, Reading(u, i)' \/ Answering(u, i)' PROVE u = s
    BY <1>2, <1>5, <2>7, OneWorker DEF Reading, Answering
  <2>8. ~Reading(s, i)'
    BY DEF Reading
  <2>9. ASSUME Answering(s, i)' PROVE StreamAnswers(s, i)'
    <3>1. p \notin Ends(i)
      BY <1>1, <2>9 DEF Packet, Ends
    <3>2. ~Answered(Ends(i))'
      BY <1>4, <2>2, <3>1 DEF StreamAnswers
    <3>3. QED
      BY <2>2, <2>9, <3>2 DEF StreamAnswers
  <2>10. QED
    BY <2>3, <2>4, <2>5, <2>6, <2>7, <2>8, <2>9 DEF IdInOrder
<1>8. QED
  BY <1>6, <1>7 DEF InOrder

\* A stream goes back to the pool without data.
LEMMA ReleasesData ==
    ASSUME ServerInv, StreamsUnmixed, NEW s \in Streams, NEW n, ReleaseRequestStream(s, n)
    PROVE  /\ StreamsUnmixed'
           /\ worker'[s].pc = "none"
           /\ \A u \in Streams \ {s} : /\ worker'[u] = worker[u]
                                       /\ reader_queue'[u] = reader_queue[u]
                                       /\ current_read_packet'[u] = current_read_packet[u]
<1>1. /\ worker'[s].pc = "none" /\ reader_queue'[s] = <<>> /\ current_read_packet'[s] = NULL
      /\ \A u \in Streams \ {s} : /\ worker'[u] = worker[u]
                                  /\ reader_queue'[u] = reader_queue[u]
                                  /\ current_read_packet'[u] = current_read_packet[u]
  BY Types DEF ReleaseRequestStream, ShutdownStream, NoWorker
<1>2. NULL \notin AllData
  BY NullIsNoPacket, DataSets
<1>3. \A P : P \subseteq AllData => ~InStream(s, P)'
  BY <1>1, <1>2, OccursEmpty DEF InStream
<1>4. \A u \in Streams \ {s} : \A P : InStream(u, P)' <=> InStream(u, P)
  BY <1>1 DEF InStream
<1>5. StreamsUnmixed'
  BY <1>1, <1>3, <1>4, DataSets DEF StreamsUnmixed
<1>6. QED
  BY <1>1, <1>5

LEMMA WritePacketData ==
    ASSUME ConnectionInv, NEW s \in Streams, WritePacket(s)
    PROVE  DataRest'
<1>0. PICK i \in RequestIds : i = worker[s].id
  BY WorkerId DEF ConnectionInv
<1>1. PICK n \in Calls : n = worker[s].call
  BY Types DEF ConnectionInv, Workers, Calls
<1>2. PICK t \in {"START", "MIDDLE"} : t = current_write_packet[s]
  BY DEF WritePacket, ConnectionInv, ServerInv, Holders, TypeOK
<1>3. /\ ServerInv /\ DataRest /\ Answering(s, i)
      /\ writer_queue' = Append(writer_queue, Packet(i, t, n))
      /\ UNCHANGED <<reader_queue, current_read_packet, state, client, inbound, outbound,
                     unflushed, writing>>
      /\ \/ worker' = [worker EXCEPT ![s].left = @ - 1]
         \/ worker' = [worker EXCEPT ![s].left = @ - 1, ![s].pc = "write_next"]
  BY <1>0, <1>1, <1>2
  DEF WritePacket, FullPacketType, Answering, ConnectionInv, DataInv, stateVars, writerVars,
      clientVars, wireVars
<1>4. /\ worker'[s].pc \in {"write", "write_next"} /\ worker'[s].id = i /\ worker'[s].call = n
      /\ \A u \in Streams \ {s} : worker'[u] = worker[u]
  BY <1>0, <1>1, <1>3, Types DEF Workers, WritePacket
<1>5. \A u \in Streams : \A P : InStream(u, P)' <=> InStream(u, P)
  BY <1>3 DEF InStream
<1>6. StreamsUnmixed'
  BY <1>3, <1>4, <1>5, StreamsStay DEF DataRest
<1>7. ASSUME state = "WORKING" PROVE InOrder'
  <2>1. \A j : Answering(s, j)' =>
          j = i /\ worker'[s].call = worker[s].call /\ t \notin {"SINGLE", "END"}
    BY <1>1, <1>4 DEF Answering
  <2>2. t \in PacketTypes
    BY DEF PacketTypes
  <2>3. QED
    BY <1>1, <1>3, <1>4, <1>7, <2>1, <2>2, QueuesResponse
<1>8. QED
  BY <1>3, <1>6, <1>7 DEF DataRest

LEMMA FlushData ==
    ASSUME ConnectionInv, NEW s \in Streams, Flush(s)
    PROVE  DataRest'
<1>0. PICK i \in RequestIds : i = worker[s].id
  BY WorkerId DEF ConnectionInv
<1>1. PICK n \in Calls : n = worker[s].call
  BY Types DEF ConnectionInv, Workers, Calls
<1>2. PICK t \in PacketTypes : t = IF current_write_packet[s] = "START" THEN "SINGLE" ELSE "END"
  BY DEF PacketTypes
<1>3. /\ ServerInv /\ DataRest /\ Answering(s, i)
      /\ writer_queue' = Append(writer_queue, Packet(i, t, n))
      /\ UNCHANGED <<state, client, inbound, outbound, unflushed, writing>>
  BY <1>0, <1>1, <1>2
  DEF Flush, Answering, ConnectionInv, DataInv, stateVars, writerVars, clientVars, wireVars
<1>4. /\ StreamsUnmixed' /\ worker'[s].pc \in {"none", "flush_end"}
      /\ \A u \in Streams \ {s} : /\ worker'[u] = worker[u]
                                  /\ reader_queue'[u] = reader_queue[u]
                                  /\ current_read_packet'[u] = current_read_packet[u]
  <2>1. CASE ReleaseRequestStream(s, HeldPackets(s) - 1)
    BY <1>3, <2>1, ReleasesData DEF DataRest
  <2>2. CASE /\ worker' = [worker EXCEPT ![s].pc = "flush_end"]
             /\ UNCHANGED <<reader_queue, current_read_packet>>
    <3>1. /\ worker'[s].pc = "flush_end"
          /\ \A u \in Streams \ {s} : worker'[u] = worker[u]
      BY <1>3, <2>2, Types DEF Workers
    <3>2. \A u \in Streams : \A P : InStream(u, P)' <=> InStream(u, P)
      BY <2>2 DEF InStream
    <3>3. StreamsUnmixed'
      BY <1>3, <3>1, <3>2, StreamsStay DEF DataRest
    <3>4. QED
      BY <2>2, <3>1, <3>3
  <2>3. QED
    BY <2>1, <2>2 DEF Flush
<1>5. ASSUME state = "WORKING" PROVE InOrder'
  <2>1. \A j : ~Answering(s, j)'
    BY <1>4 DEF Answering
  <2>2. QED
    BY <1>1, <1>3, <1>4, <1>5, <2>1, QueuesResponse
<1>6. QED
  BY <1>3, <1>4, <1>5 DEF DataRest

LEMMA FlushEndsData ==
    ASSUME ConnectionInv, NEW s \in Streams, FlushEnds(s)
    PROVE  DataRest'
<1>1. /\ ServerInv /\ DataRest /\ worker[s].pc = "flush_end"
      /\ ReleaseRequestStream(s, HeldPackets(s))
      /\ UNCHANGED <<state, client, inbound, outbound, unflushed, writing, writer_queue>>
  BY DEF FlushEnds, ConnectionInv, DataInv, stateVars, writerVars, clientVars, wireVars
<1>2. /\ StreamsUnmixed' /\ worker'[s].pc = "none"
      /\ \A u \in Streams \ {s} : /\ worker'[u] = worker[u]
                                  /\ reader_queue'[u] = reader_queue[u]
                                  /\ current_read_packet'[u] = current_read_packet[u]
  BY <1>1, ReleasesData DEF DataRest
<1>3. ASSUME state = "WORKING", NEW i \in RequestIds PROVE IdInOrder(i)'
  <2>1. IdInOrder(i) /\ ResponsesInOrder(i)
    BY <1>1, <1>3 DEF DataRest, InOrder, IdInOrder
  <2>2. \A t \in Streams :
          /\ Reading(t, i)' <=> Reading(t, i)
          /\ Answering(t, i)' => Answering(t, i) /\ worker'[t].call = worker[t].call
    BY <1>1, <1>2 DEF Reading, Answering
  <2>3. \A t \in Streams : Reading(t, i) =>
          /\ reader_queue'[t] = reader_queue[t]
          /\ \A P : InStream(t, P)' <=> InStream(t, P)
    BY <1>1, <1>2 DEF Reading, InStream
  <2>4. QED
    BY <1>1, <2>1, <2>2, <2>3, WireAside, IdStays
<1>4. QED
  BY <1>1, <1>2, <1>3 DEF DataRest, InOrder

LEMMA WorkerData ==
    ASSUME ConnectionInv, NEW s \in Streams, WorkerGoesOn(s) \/ ReadTimeout(s)
    PROVE  DataRest'
<1>1. CASE RequestFails(s) \/ ReadTimeout(s)
  <2>1. /\ ServerInv /\ StreamsUnmixed /\ ReleaseRequestStream(s, HeldPackets(s))
        /\ state' # "WORKING"
    BY <1>1 DEF RequestFails, ReadTimeout, StopAsync, ConnectionInv, DataInv, DataRest
  <2>2. QED
    BY <2>1, ReleasesData DEF DataRest
<1>2. QED
  BY <1>1, ReadPacketData, ReadLastPacketData, GetWritePacketData, WritePacketData, FlushData,
     FlushEndsData DEF WorkerGoesOn

-----------------------------------------------------------------------------
(***************************************************************************)
(* Steps of the reader fiber                                               *)
(***************************************************************************)

\* A new connection finds nothing of the last one.
LEMMA StartData ==
    ASSUME ConnectionInv, Start
    PROVE  DataRest'
<1>1. /\ ServerInv /\ DataRest /\ state = "STOPPED"
      /\ UNCHANGED <<reader_queue, current_read_packet, worker, client, inbound, outbound,
                     unflushed, writing, writer_queue>>
  BY DEF Start, ConnectionInv, DataInv, streamVars, writerVars, clientVars, wireVars
<1>2. /\ inbound = <<>> /\ outbound = <<>> /\ unflushed = <<>>
      /\ client = [i \in RequestIds |-> UnusedId]
  BY <1>1 DEF ConnectionInv, DataInv, LinkWorks
<1>3. writer_queue = <<>> /\ writing = NULL
  BY <1>1 DEF ServerInv, FibersAgree, Holders
<1>4. \A s \in Streams : worker[s].pc = "none"
  BY <1>1, WorkerRuns
<1>5. StreamsUnmixed'
  BY <1>1, StreamsAside DEF DataRest
<1>6. ASSUME NEW i \in RequestIds PROVE IdInOrder(i)'
  <2>1. client'[i] = UnusedId
    BY <1>1, <1>2
  <2>2. NULL \notin Response(i) /\ NULL \notin Ends(i) /\ \A n : NULL \notin Wrong(i, n)
    BY NullIsNoPacket, DataSets
  <2>3. ResponsesInOrder(i)'
    BY <1>1, <1>2, <1>3, <2>2, OccursEmpty DEF ResponsesInOrder
  <2>4. ResponsesAwaited(i)'
    BY <1>1, <1>2, <1>3, <2>2, OccursEmpty DEF ResponsesAwaited, Answered
  <2>5. RequestsSent(i)'
    BY <1>1, <1>2, <2>1, OccursEmpty DEF RequestsSent, UnusedId
  <2>6. RequestsReceived(i)'
    BY <1>1, <1>2, <2>1, OccursEmpty DEF RequestsReceived, Begun, UnusedId
  <2>7. \A s \in Streams : ~Reading(s, i)' /\ ~Answering(s, i)'
    BY <1>1, <1>4 DEF Reading, Answering
  <2>8. QED
    BY <2>3, <2>4, <2>5, <2>6, <2>7 DEF IdInOrder
<1>7. QED
  BY <1>5, <1>6 DEF DataRest, InOrder

\* The reader fiber hands packet p over to the stream of its id, which reads
\* the request now: what becomes of the id.
LEMMA RequestHandedOver ==
    ASSUME ConnectionInv, state = "WORKING", NEW p \in Packets, NEW i \in RequestIds,
           NEW s \in Streams, Reading(s, i)', p.id = i,
           \A u \in Streams : u # s => ~Reading(u, i)' /\ ~Answering(u, i)',
           UNCHANGED <<client, outbound, unflushed, writing, writer_queue>>,
           \A P : Occurs(inbound, P) <=> p \in P \/ Occurs(inbound', P),
           \A L, D : NoneAfter(inbound, L, D) =>
             NoneAfter(inbound', L, D) /\ (p \in L => ~Occurs(inbound', D)),
           \A P : P \subseteq AllData => (InStream(s, P)' => p \in P \/ InStream(s, P)),
           \A P : P \subseteq AllData =>
             (Occurs(reader_queue'[s], P) => p \in P \/ Occurs(reader_queue[s], P)),
           NoneAfter(reader_queue'[s], Last(i), Data(i)),
           ~InStream(s, AllData) \/ (Reading(s, i) /\ ~StartsRequest(p))
    PROVE  IdInOrder(i)'
<1>1. IdInOrder(i) /\ ServerInv
  BY DEF ConnectionInv, DataInv, DataRest, InOrder
<1>2. \A P : Answered(P)' <=> Answered(P)
  BY DEF Answered
<1>3. RequestsSent(i)'
  BY <1>1 DEF IdInOrder, RequestsSent
<1>4. RequestsReceived(i)'
  BY DEF RequestsReceived
<1>5. ResponsesInOrder(i)'
  BY <1>1 DEF IdInOrder, ResponsesInOrder
<1>6. ResponsesAwaited(i)'
  BY <1>1, <1>2 DEF IdInOrder, ResponsesAwaited
<1>7. p \in AllData => p \in Data(i) /\ p.call = client[i].call
  BY <1>1 DEF IdInOrder, RequestsSent, Data, Foreign
<1>8. ~Answering(s, i)'
  BY DEF Reading, Answering
<1>9. client[i].left \in Nat /\ client[i].size \in Nat
  BY <1>1, Types
<1>10. p \in AllData =>
         /\ client[i].left < client[i].size
         /\ ~Occurs(inbound', First(i)) /\ ~Answered(Response(i))
         /\ p \in Last(i) => ~Occurs(inbound', Data(i)) /\ client[i].left = 0
  BY <1>1, <1>7, <1>9 DEF IdInOrder, RequestsSent, ResponsesAwaited
<1>11. StreamReads(s, i)'
  <2>1. ASSUME NEW P, P \subseteq AllData, ~InStream(s, AllData) PROVE ~InStream(s, P)
    <3>1. \A q : Occurs(q, P) => Occurs(q, AllData)
      BY <2>1, OccursWithin
    <3>2. QED
      BY <2>1, <3>1 DEF InStream
  <2>2. \/ ~InStream(s, AllData) /\ ~Occurs(reader_queue[s], Last(i))
           /\ \A n : ~InStream(s, Alien(i, n))
        \/ StreamReads(s, i) /\ Reading(s, i) /\ ~StartsRequest(p)
    BY <1>1, <2>1, DataSets DEF IdInOrder, InStream
  <2>3. ~InStream(s, Alien(i, client[i].call))'
    <3>1. p \notin Alien(i, client[i].call)
      BY <1>7 DEF Alien, Data
    <3>2. QED
      BY <2>2, <3>1, DataSets DEF StreamReads
  <2>4. Occurs(reader_queue'[s], Last(i)) => ~Occurs(inbound', Data(i)) /\ client[i].left = 0
    <3>1. Last(i) \subseteq AllData
      BY DataSets
    <3>2. QED
      BY <1>10, <2>2, <3>1 DEF StreamReads
  <2>5. InStream(s, AllData)' =>
          /\ client[i].left < client[i].size
          /\ ~Occurs(inbound', First(i)) /\ ~Answered(Response(i))
    BY <1>10, <2>2 DEF StreamReads
  <2>6. QED
    BY <1>2, <2>3, <2>4, <2>5 DEF StreamReads
<1>12. QED
  BY <1>3, <1>4, <1>5, <1>6, <1>8, <1>11 DEF IdInOrder

\* A packet arrives at stream s.
LEMMA PacketPushed ==
    ASSUME ServerInv, inbound # <<>>, inbound' = Tail(inbound), NEW s \in Streams,
           reader_queue' = [reader_queue EXCEPT ![s] = Append(@, Head(inbound))],
           UNCHANGED current_read_packet
    PROVE  /\ Head(inbound) \in Packets
           /\ \A P : Occurs(inbound, P) <=> Head(inbound) \in P \/ Occurs(inbound', P)
           /\ \A L, D : NoneAfter(inbound, L, D) =>
                NoneAfter(inbound', L, D) /\ (Head(inbound) \in L => ~Occurs(inbound', D))
           /\ \A P : /\ Occurs(reader_queue'[s], P) <=>
                          Head(inbound) \in P \/ Occurs(reader_queue[s], P)
                     /\ InStream(s, P)' <=> Head(inbound) \in P \/ InStream(s, P)
           /\ \A L, D :
                /\ NoneAfter(reader_queue[s], L, D)
                /\ Occurs(reader_queue[s], L) => Head(inbound) \notin D
                => NoneAfter(reader_queue'[s], L, D)
           /\ \A u \in Streams \ {s} : /\ reader_queue'[u] = reader_queue[u]
                                       /\ \A P : InStream(u, P)' <=> InStream(u, P)
<1>1. /\ inbound \in Seq(Packets) /\ reader_queue[s] \in Seq(Packets)
      /\ reader_queue'[s] = Append(reader_queue[s], Head(inbound))
      /\ \A u \in Streams \ {s} : reader_queue'[u] = reader_queue[u]
  BY Types
<1>2. Head(inbound) \in Packets
  BY <1>1
<1>3. /\ \A P : Occurs(inbound, P) <=> Head(inbound) \in P \/ Occurs(inbound', P)
      /\ \A L, D : NoneAfter(inbound, L, D) =>
           NoneAfter(inbound', L, D) /\ (Head(inbound) \in L => ~Occurs(inbound', D))
  BY <1>1, OccursTail
<1>4. /\ \A P : Occurs(reader_queue'[s], P) <=>
           Occurs(reader_queue[s], P) \/ Head(inbound) \in P
      /\ \A L, D : /\ NoneAfter(reader_queue[s], L, D)
                   /\ Occurs(reader_queue[s], L) => Head(inbound) \notin D
                   => NoneAfter(reader_queue'[s], L, D)
  BY <1>1, <1>2, OccursAppend
<1>5. QED
  BY <1>1, <1>2, <1>3, <1>4 DEF InStream

\* The other ids do not notice.
LEMMA OthersNotHandedOver ==
    ASSUME ConnectionInv, state = "WORKING", NEW p \in Packets, NEW s \in Streams,
           NEW j \in RequestIds, p.id # j \/ p \notin AllData,
           UNCHANGED <<client, outbound, unflushed, writing, writer_queue>>,
           \A P : Occurs(inbound, P) <=> p \in P \/ Occurs(inbound', P),
           \A L, D : NoneAfter(inbound, L, D) => NoneAfter(inbound', L, D),
           \A u \in Streams : /\ Reading(u, j)' <=> Reading(u, j)
                              /\ Answering(u, j)' <=> Answering(u, j)
                              /\ Answering(u, j) => worker'[u].call = worker[u].call,
           \A u \in Streams : Reading(u, j) =>
             /\ \A P : P \subseteq AllData =>
                  /\ Occurs(reader_queue'[u], P) => Occurs(reader_queue[u], P)
                  /\ InStream(u, P)' => InStream(u, P)
             /\ NoneAfter(reader_queue[u], Last(j), Data(j)) =>
                  NoneAfter(reader_queue'[u], Last(j), Data(j))
    PROVE  IdInOrder(j)'
<1>1. IdInOrder(j)
  BY DEF ConnectionInv, DataInv, DataRest, InOrder
<1>2. p \notin Data(j)
  BY DEF Data
<1>3. ResponsesInOrder(j)' /\ \A P : Answered(P)' <=> Answered(P)
  BY <1>1 DEF IdInOrder, ResponsesInOrder, Answered
<1>4. QED
  BY <1>1, <1>2, <1>3, IdStays

\* The first packet of a request gets a stream of its own.
LEMMA FirstPacketData ==
    ASSUME ConnectionInv, state = "WORKING", NEW p \in Packets, inbound # <<>>,
           p = Head(inbound), inbound' = Tail(inbound), StartsRequest(p), p.id \notin ActiveIds,
           NEW s \in FreeStreams, AcquireRequestStream(p.id, s),
           reader_queue' = [reader_queue EXCEPT ![s] = Append(@, p)],
           UNCHANGED <<state, current_read_packet, client, outbound, unflushed, writing,
                       writer_queue>>
    PROVE  DataRest'
<1>0. PICK i \in RequestIds : i = p.id
  BY DEF Packets
<1>1. s \in Streams /\ worker[s].pc = "none" /\ ServerInv /\ StreamsUnmixed
  BY DEF FreeStreams, ConnectionInv, ServerInv, StreamsHeldOnce, DataInv, DataRest
<1>2. /\ worker'[s].pc = "read" /\ worker'[s].id = i
      /\ \A u \in Streams \ {s} : worker'[u] = worker[u]
  BY <1>0, <1>1, Types DEF AcquireRequestStream
<1>3. /\ \A P : Occurs(inbound, P) <=> p \in P \/ Occurs(inbound', P)
      /\ \A L, D : NoneAfter(inbound, L, D) =>
           NoneAfter(inbound', L, D) /\ (p \in L => ~Occurs(inbound', D))
      /\ \A P : /\ Occurs(reader_queue'[s], P) <=> p \in P \/ Occurs(reader_queue[s], P)
                /\ InStream(s, P)' <=> p \in P \/ InStream(s, P)
      /\ \A L, D :
           /\ NoneAfter(reader_queue[s], L, D) /\ (Occurs(reader_queue[s], L) => p \notin D)
           => NoneAfter(reader_queue'[s], L, D)
      /\ \A u \in Streams \ {s} : /\ reader_queue'[u] = reader_queue[u]
                                  /\ \A P : InStream(u, P)' <=> InStream(u, P)
  BY <1>1, PacketPushed
<1>4. ~InStream(s, AllData) /\ \A P : P \subseteq AllData => ~InStream(s, P)
  <2>1. ~InStream(s, AllData)
    BY <1>1 DEF StreamsUnmixed
  <2>2. \A q, P : P \subseteq AllData /\ Occurs(q, P) => Occurs(q, AllData)
    BY OccursWithin
  <2>3. QED
    BY <2>1, <2>2 DEF InStream
<1>5. \A u \in Streams : u # s => ~Reading(u, i)' /\ ~Answering(u, i)'
  BY <1>0, <1>1, <1>2, StreamOfWorker DEF Reading, Answering
<1>6. StreamsUnmixed'
  <2>1. ASSUME NEW u \in Streams \ {s}
        PROVE  /\ worker'[u].pc = "none" => ~InStream(u, AllData)'
               /\ \A m, n \in Calls :
                    m # n => ~InStream(u, OfCall(m))' \/ ~InStream(u, OfCall(n))'
    BY <1>1, <1>2, <1>3 DEF StreamsUnmixed
  <2>2. ASSUME NEW m \in Calls, NEW n \in Calls, m # n
        PROVE  ~InStream(s, OfCall(m))' \/ ~InStream(s, OfCall(n))'
    <3>1. p \notin OfCall(m) \/ p \notin OfCall(n)
      BY <2>2 DEF OfCall
    <3>2. ~InStream(s, OfCall(m)) /\ ~InStream(s, OfCall(n))
      BY <1>4, DataSets
    <3>3. QED
      BY <1>3, <3>1, <3>2
  <2>3. QED
    BY <1>2, <2>1, <2>2 DEF StreamsUnmixed
<1>7. IdInOrder(i)'
  <2>1. NoneAfter(reader_queue'[s], Last(i), Data(i))
    <3>1. ~Occurs(reader_queue[s], Last(i))
      BY <1>4, DataSets DEF InStream
    <3>2. NoneAfter(reader_queue[s], Last(i), Data(i))
      BY <3>1 DEF Occurs, NoneAfter
    <3>3. QED
      BY <1>3, <3>1, <3>2
  <2>2. Reading(s, i)'
    BY <1>2 DEF Reading
  <2>3. QED
    BY <1>0, <1>1, <1>3, <1>4, <1>5, <2>1, <2>2, RequestHandedOver
<1>8. ASSUME NEW j \in RequestIds \ {i} PROVE IdInOrder(j)'
  <2>1. \A u \in Streams : /\ Reading(u, j)' <=> Reading(u, j)
                           /\ Answering(u, j)' <=> Answering(u, j)
                           /\ Answering(u, j) => worker'[u].call = worker[u].call
    BY <1>1, <1>2 DEF Reading, Answering
  <2>2. \A u \in Streams : Reading(u, j) =>
          /\ reader_queue'[u] = reader_queue[u]
          /\ \A P : InStream(u, P)' => InStream(u, P)
    BY <1>1, <1>3 DEF Reading
  <2>3. QED
    BY <1>0, <1>1, <1>3, <2>1, <2>2, OthersNotHandedOver
<1>9. QED
  BY <1>6, <1>7, <1>8 DEF DataRest, InOrder

\* A further packet goes to the stream of its id, which has got the first one.
LEMMA FurtherPacketData ==
    ASSUME ConnectionInv, state = "WORKING", NEW p \in Packets, inbound # <<>>,
           p = Head(inbound), inbound' = Tail(inbound), ~StartsRequest(p), p.id \in ActiveIds,
           reader_queue' = [reader_queue EXCEPT ![active_request_streams[p.id]] = Append(@, p)],
           UNCHANGED <<state, worker, current_read_packet, client, outbound, unflushed, writing,
                       writer_queue>>
    PROVE  DataRest'
<1>0. PICK i \in RequestIds : i = p.id
  BY DEF Packets
<1>1. PICK s \in Streams : s = active_request_streams[i]
  BY <1>0 DEF ConnectionInv, ServerInv
<1>2. /\ ServerInv /\ StreamsUnmixed /\ InOrder
      /\ worker[s].pc # "none" /\ worker[s].id = i
  BY <1>0, <1>1, StreamOfWorker DEF ConnectionInv, DataInv, DataRest, ServerInv, StreamsHeldOnce
<1>3. /\ \A P : Occurs(inbound, P) <=> p \in P \/ Occurs(inbound', P)
      /\ \A L, D : NoneAfter(inbound, L, D) =>
           NoneAfter(inbound', L, D) /\ (p \in L => ~Occurs(inbound', D))
      /\ \A P : /\ Occurs(reader_queue'[s], P) <=> p \in P \/ Occurs(reader_queue[s], P)
                /\ InStream(s, P)' <=> p \in P \/ InStream(s, P)
      /\ \A L, D :
           /\ NoneAfter(reader_queue[s], L, D) /\ (Occurs(reader_queue[s], L) => p \notin D)
           => NoneAfter(reader_queue'[s], L, D)
      /\ \A u \in Streams \ {s} : /\ reader_queue'[u] = reader_queue[u]
                                  /\ \A P : InStream(u, P)' <=> InStream(u, P)
  BY <1>0, <1>1, <1>2, PacketPushed
<1>4. \A u \in Streams, j \in RequestIds :
        /\ Reading(u, j)' <=> Reading(u, j)
        /\ Answering(u, j)' <=> Answering(u, j)
        /\ worker'[u].call = worker[u].call
  BY DEF Reading, Answering
<1>5. CASE p \notin AllData
  <2>1. \A u \in Streams :
          /\ \A P : P \subseteq AllData =>
               /\ Occurs(reader_queue'[u], P) => Occurs(reader_queue[u], P)
               /\ InStream(u, P)' => InStream(u, P)
          /\ \A L, D : D \subseteq AllData =>
               (NoneAfter(reader_queue[u], L, D) => NoneAfter(reader_queue'[u], L, D))
    <3>1. ASSUME NEW u \in Streams
          PROVE  /\ \A P : P \subseteq AllData =>
                      /\ Occurs(reader_queue'[u], P) => Occurs(reader_queue[u], P)
                      /\ InStream(u, P)' => InStream(u, P)
                 /\ \A L, D : D \subseteq AllData =>
                      (NoneAfter(reader_queue[u], L, D) => NoneAfter(reader_queue'[u], L, D))
      <4>1. CASE u = s
        BY <1>3, <1>5, <4>1
      <4>2. CASE u # s
        BY <1>3, <4>2
      <4>3. QED
        BY <4>1, <4>2
    <3>2. QED
      BY <3>1
  <2>2. StreamsUnmixed'
    BY <1>2, <2>1, StreamsStay
  <2>3. \A j \in RequestIds : IdInOrder(j)'
    BY <1>3, <1>4, <1>5, <2>1, DataSets, OthersNotHandedOver
  <2>4. QED
    BY <2>2, <2>3 DEF DataRest, InOrder
<1>6. CASE p \in AllData
  <2>0. IdInOrder(i) /\ p \in Data(i) /\ p \notin First(i) /\ p.call = client[i].call
    <3>1. IdInOrder(i) /\ p \in Data(i) /\ p \notin First(i)
      BY <1>0, <1>2, <1>6 DEF InOrder, Data, First
    <3>2. p \notin Foreign(i, client[i].call)
      BY <1>3, <3>1 DEF IdInOrder, RequestsSent
    <3>3. QED
      BY <3>1, <3>2 DEF Foreign
  <2>1. Reading(s, i)
    <3>1. ~Occurs(inbound, First(i)) /\ Begun(i)
      BY <1>3, <2>0 DEF IdInOrder, RequestsSent, Begun
    <3>2. PICK u \in Streams : Reading(u, i)
      BY <2>0, <3>1 DEF IdInOrder, RequestsReceived
    <3>3. u = s
      BY <1>2, <3>2, OneWorker DEF Reading
    <3>4. QED
      BY <3>2, <3>3
  <2>2. StreamReads(s, i)
    BY <2>0, <2>1 DEF IdInOrder
  <2>3. IdInOrder(i)'
    <3>1. NoneAfter(reader_queue'[s], Last(i), Data(i))
      BY <1>3, <2>0, <2>2 DEF StreamReads
    <3>2. \A u \in Streams : u # s => ~Reading(u, i)' /\ ~Answering(u, i)'
      BY <1>2, <1>4, <2>1, OneWorker DEF Reading, Answering
    <3>3. QED
      BY <1>0, <1>3, <1>4, <2>1, <3>1, <3>2, RequestHandedOver
  <2>4. ASSUME NEW j \in RequestIds \ {i} PROVE IdInOrder(j)'
    <3>1. \A u \in Streams : Reading(u, j) =>
            /\ reader_queue'[u] = reader_queue[u]
            /\ \A P : InStream(u, P)' => InStream(u, P)
      BY <1>2, <1>3 DEF Reading
    <3>2. QED
      BY <1>0, <1>3, <1>4, <3>1, OthersNotHandedOver
  <2>5. StreamsUnmixed'
    <3>1. ASSUME NEW m \in Calls, m # client[i].call PROVE ~InStream(s, OfCall(m))'
      <4>1. OfCall(m) \subseteq Alien(i, client[i].call) /\ p \notin OfCall(m)
        BY <2>0, <3>1 DEF OfCall, Alien
      <4>2. ~InStream(s, OfCall(m))
        BY <2>2, <4>1, OccursWithin DEF StreamReads, InStream
      <4>3. QED
        BY <1>3, <4>1, <4>2
    <3>2. ASSUME NEW u \in Streams \ {s}
          PROVE  /\ worker'[u].pc = "none" => ~InStream(u, AllData)'
                 /\ \A m, n \in Calls :
                      m # n => ~InStream(u, OfCall(m))' \/ ~InStream(u, OfCall(n))'
      BY <1>2, <1>3 DEF StreamsUnmixed
    <3>3. \A m, n \in Calls : m # n => ~InStream(s, OfCall(m))' \/ ~InStream(s, OfCall(n))'
      BY <3>1
    <3>4. worker'[s].pc # "none"
      BY <1>2
    <3>5. QED
      BY <3>2, <3>3, <3>4 DEF StreamsUnmixed
  <2>6. QED
    BY <2>3, <2>4, <2>5 DEF DataRest, InOrder
<1>7. QED
  BY <1>5, <1>6

LEMMA ReaderReadPacketData ==
    ASSUME ConnectionInv, ReaderReadPacket
    PROVE  DataRest'
<1>0. /\ ServerInv /\ DataRest /\ state = "WORKING" /\ inbound # <<>> /\ inbound' = Tail(inbound)
      /\ UNCHANGED <<current_read_packet, client, outbound, unflushed, writing, writer_queue>>
  BY DEF ReaderReadPacket, ConnectionInv, DataInv, LinkWorks, ServerInv, FibersAgree, TypeOK,
         writerVars, clientVars
<1>1. PICK p \in Packets : p = Head(inbound)
  BY <1>0, Types
<1>2. CASE /\ ~Misplaced(p) /\ StartsRequest(p)
           /\ \E s \in FreeStreams :
                /\ AcquireRequestStream(p.id, s)
                /\ reader_queue' = [reader_queue EXCEPT ![s] = Append(@, p)]
           /\ UNCHANGED state
  BY <1>0, <1>1, <1>2, FirstPacketData DEF Misplaced
<1>3. CASE /\ ~Misplaced(p) /\ ~StartsRequest(p)
           /\ reader_queue' =
                [reader_queue EXCEPT ![active_request_streams[p.id]] = Append(@, p)]
           /\ UNCHANGED <<state, worker>>
  BY <1>0, <1>1, <1>3, FurtherPacketData DEF Misplaced
<1>4. CASE state' # "WORKING" /\ UNCHANGED <<worker, reader_queue>>
  BY <1>0, <1>4, DataStays
<1>5. QED
  BY <1>1, <1>2, <1>3, <1>4 DEF ReaderReadPacket, StopAsync, stateVars

\* The packet that tells a stream of the disconnect carries no data.
LEMMA StopAllData ==
    ASSUME ConnectionInv, StopAllRequestStreams
    PROVE  DataRest'
<1>1. /\ ServerInv /\ state' = "STOP_INITIATED" /\ DataRest
      /\ UNCHANGED <<current_read_packet, worker>>
  BY DEF StopAllRequestStreams, ConnectionInv, ServerInv, FibersAgree, DataInv, stateVars
<1>2. PICK T : reader_queue' = [s \in Streams |->
        IF s \in T THEN Append(reader_queue[s], Disconnected) ELSE reader_queue[s]]
  <2>1. ASSUME NEW first, NEW captured, DisconnectFrom(first, captured)
        PROVE  \E T : reader_queue' = [s \in Streams |->
                 IF s \in T THEN Append(reader_queue[s], Disconnected) ELSE reader_queue[s]]
    <3>1. PICK served \in SUBSET ActiveFrom(first) : reader_queue' = [s \in Streams |->
            IF s \in captured \cup {active_request_streams[i] : i \in served}
              THEN Append(reader_queue[s], Disconnected) ELSE reader_queue[s]]
      BY <2>1 DEF DisconnectFrom
    <3>2. QED
      BY <3>1
  <2>2. QED
    BY <2>1 DEF StopAllRequestStreams
<1>3. Disconnected \in Packets /\ Disconnected \notin AllData
  <2>1. 0 \in RequestIds /\ "END" \in PacketTypes /\ 0 \in 0 .. MaxRequests
    BY ServerAssumption DEF RequestIds, PacketTypes
  <2>2. QED
    BY <2>1, PacketType DEF Disconnected, Packet, AllData
<1>4. ASSUME NEW s \in Streams, NEW P, P \subseteq AllData
      PROVE  InStream(s, P)' => InStream(s, P)
  <2>1. CASE s \in T
    <3>1. reader_queue'[s] = Append(reader_queue[s], Disconnected)
      BY <1>2, <2>1
    <3>2. reader_queue[s] \in Seq(Packets)
      BY <1>1, Types
    <3>3. Occurs(reader_queue'[s], P) <=> Occurs(reader_queue[s], P) \/ Disconnected \in P
      BY <1>3, <3>1, <3>2, OccursAppend
    <3>4. QED
      BY <1>1, <1>3, <1>4, <3>3 DEF InStream
  <2>2. CASE s \notin T
    BY <1>1, <1>2, <2>2 DEF InStream
  <2>3. QED
    BY <2>1, <2>2
<1>5. StreamsUnmixed'
  BY <1>1, <1>4, StreamsStay DEF DataRest
<1>6. QED
  BY <1>1, <1>5 DEF DataRest

LEMMA ReaderData ==
    ASSUME ConnectionInv, ReaderStep
    PROVE  DataRest'
<1>1. DataRest /\ ServerInv
  BY DEF ConnectionInv, DataInv
<1>2. CASE ReaderStarts \/ ReaderAcquirePacket
  <2>1. UNCHANGED <<reader_queue, current_read_packet, worker, state, client, inbound, outbound,
                    unflushed, writing, writer_queue>>
    BY <1>2 DEF ReaderStarts, ReaderAcquirePacket, stateVars, streamVars, writerVars,
                clientVars, wireVars
  <2>2. QED
    BY <1>1, <2>1, DataStays
<1>3. CASE ReaderFails \/ StopStreamWriter \/ ReaderEnds
  <2>1. UNCHANGED <<reader_queue, current_read_packet, worker>> /\ state' # "WORKING"
    BY <1>1, <1>3 DEF ReaderFails, StopStreamWriter, ReaderEnds, StopAsync, stateVars,
                      streamVars, ServerInv, FibersAgree
  <2>2. QED
    BY <1>1, <2>1, DataStays
<1>4. QED
  BY <1>2, <1>3, ReaderReadPacketData, StopAllData DEF ReaderStep

-----------------------------------------------------------------------------
(***************************************************************************)
(* Steps of the writer fiber                                               *)
(***************************************************************************)

\* The responses move on.
LEMMA ResponsesMove ==
    ASSUME DataRest, state = "WORKING",
           UNCHANGED <<state, reader_queue, current_read_packet, worker, client, inbound>>,
           \A P : NULL \notin P => (Answered(P)' => Answered(P)),
           \A i \in RequestIds : ResponsesInOrder(i)'
    PROVE  DataRest'
<1>1. StreamsUnmixed'
  BY StreamsAside DEF DataRest
<1>2. ASSUME NEW i \in RequestIds PROVE IdInOrder(i)'
  <2>1. IdInOrder(i)
    BY DEF DataRest, InOrder
  <2>2. \A P : P \subseteq Response(i) => NULL \notin P
    BY NullIsNoPacket, DataSets
  <2>3. \A P : P \subseteq Response(i) => (Answered(P)' => Answered(P))
    BY <2>2
  <2>4. QED
    BY <2>1, <2>3, StreamsAside, IdStays
<1>3. QED
  BY <1>1, <1>2 DEF DataRest, InOrder

LEMMA WriterGetPacketData ==
    ASSUME ConnectionInv, WriterGetPacket, state = "WORKING"
    PROVE  DataRest'
<1>1. /\ writing = NULL /\ writing' = Head(writer_queue) /\ writer_queue' = Tail(writer_queue)
      /\ writer_queue # <<>> /\ writer_queue \in Seq(Packets \cup {NULL}) /\ DataRest
      /\ UNCHANGED <<state, reader_queue, current_read_packet, worker, client, inbound, outbound,
                     unflushed>>
  BY Types
  DEF WriterGetPacket, ConnectionInv, ServerInv, Holders, DataInv, stateVars, streamVars,
      clientVars, wireVars
<1>2. /\ \A P : Occurs(writer_queue, P) <=> writing' \in P \/ Occurs(writer_queue', P)
      /\ \A L, D : NoneAfter(writer_queue, L, D) =>
           NoneAfter(writer_queue', L, D) /\ (writing' \in L => ~Occurs(writer_queue', D))
  BY <1>1, OccursTail
<1>3. \A P : NULL \notin P => (Answered(P)' => Answered(P))
  BY <1>1, <1>2 DEF Answered
<1>4. ASSUME NEW i \in RequestIds PROVE ResponsesInOrder(i)'
  <2>1. ResponsesInOrder(i)
    BY <1>1 DEF DataRest, InOrder, IdInOrder
  <2>2. QED
    BY <1>1, <1>2, <2>1 DEF ResponsesInOrder
<1>5. QED
  BY <1>1, <1>3, <1>4, ResponsesMove

LEMMA WriterWritePacketData ==
    ASSUME ConnectionInv, WriterWritePacket, state = "WORKING"
    PROVE  DataRest'
<1>1. /\ writing \in Packets /\ writing' = NULL /\ unflushed \in Seq(Packets) /\ DataRest
      /\ UNCHANGED <<reader_queue, current_read_packet, worker, client, inbound, outbound,
                     writer_queue>>
  BY Types
  DEF WriterWritePacket, ConnectionInv, ServerInv, TypeOK, Holders, DataInv, streamVars,
      clientVars, wireVars
<1>2. CASE unflushed' = Append(unflushed, writing) /\ UNCHANGED state
  <2>1. /\ \A P : Occurs(unflushed', P) <=> Occurs(unflushed, P) \/ writing \in P
        /\ \A L, D : NoneAfter(unflushed, L, D) /\ (Occurs(unflushed, L) => writing \notin D)
                       => NoneAfter(unflushed', L, D)
    BY <1>1, <1>2, OccursAppend
  <2>2. \A P : NULL \notin P => (Answered(P)' => Answered(P))
    BY <1>1, <2>1 DEF Answered
  <2>3. ASSUME NEW i \in RequestIds PROVE ResponsesInOrder(i)'
    <3>1. ResponsesInOrder(i)
      BY <1>1 DEF DataRest, InOrder, IdInOrder
    <3>2. NULL \notin Response(i) /\ NULL \notin Ends(i)
      BY NullIsNoPacket, DataSets
    <3>3. QED
      BY <1>1, <2>1, <3>1, <3>2 DEF ResponsesInOrder
  <2>4. QED
    BY <1>1, <1>2, <2>2, <2>3, ResponsesMove
<1>3. CASE state' # "WORKING"
  BY <1>1, <1>3, DataStays
<1>4. QED
  BY <1>2, <1>3 DEF WriterWritePacket, StopAsync, stateVars

LEMMA WriterFlushData ==
    ASSUME ConnectionInv, WriterFlush, state = "WORKING"
    PROVE  DataRest'
<1>1. /\ unflushed \in Seq(Packets) /\ outbound \in Seq(Packets) /\ DataRest
      /\ UNCHANGED <<reader_queue, current_read_packet, worker, client, inbound, writing,
                     writer_queue>>
  BY Types DEF WriterFlush, ConnectionInv, DataInv, streamVars, clientVars
<1>2. CASE unflushed' = <<>> /\ UNCHANGED state /\ outbound' \in {outbound \o unflushed, outbound}
  <2>1. /\ \A P : Occurs(outbound \o unflushed, P) <=> Occurs(outbound, P) \/ Occurs(unflushed, P)
        /\ \A L, D : /\ NoneAfter(outbound, L, D) /\ NoneAfter(unflushed, L, D)
                     /\ Occurs(outbound, L) => ~Occurs(unflushed, D)
                     => NoneAfter(outbound \o unflushed, L, D)
    BY <1>1, OccursConcat
  <2>2. \A P, L, D : ~Occurs(unflushed', P) /\ NoneAfter(unflushed', L, D)
    BY <1>2, OccursEmpty
  <2>3. \A P : NULL \notin P => (Answered(P)' => Answered(P))
    BY <1>1, <1>2, <2>1, <2>2 DEF Answered
  <2>4. ASSUME NEW i \in RequestIds PROVE ResponsesInOrder(i)'
    <3>1. ResponsesInOrder(i)
      BY <1>1 DEF DataRest, InOrder, IdInOrder
    <3>2. CASE outbound' = outbound
      BY <1>1, <2>2, <3>1, <3>2 DEF ResponsesInOrder
    <3>3. CASE outbound' = outbound \o unflushed
      BY <1>1, <2>1, <2>2, <3>1, <3>3 DEF ResponsesInOrder
    <3>4. QED
      BY <1>2, <3>2, <3>3
  <2>5. QED
    BY <1>1, <1>2, <2>3, <2>4, ResponsesMove
<1>3. CASE state' # "WORKING"
  BY <1>1, <1>3, DataStays
<1>4. QED
  BY <1>2, <1>3 DEF WriterFlush, StopAsync, stateVars

LEMMA WriterData ==
    ASSUME ConnectionInv, WriterStep
    PROVE  DataRest'
<1>1. /\ DataRest /\ state' \in {state, "STOP_INITIATED"}
      /\ UNCHANGED <<reader_queue, current_read_packet, worker>>
  BY DEF WriterStep, WriterGetPacket, WriterWritePacket, WriterFlush, WriterSkipPacket,
         ConnectionInv, DataInv, StopAsync, stateVars, streamVars
<1>2. CASE state # "WORKING"
  BY <1>1, <1>2, DataStays
<1>3. CASE state = "WORKING"
  <2>1. ~WriterSkipPacket
    BY <1>3 DEF WriterSkipPacket, ConnectionInv, ServerInv, FibersAgree
  <2>2. QED
    BY <1>3, <2>1, WriterGetPacketData, WriterWritePacketData, WriterFlushData DEF WriterStep
<1>4. QED
  BY <1>2, <1>3

-----------------------------------------------------------------------------
(***************************************************************************)
(* Steps of the client                                                     *)
(***************************************************************************)

\* Between two requests of an id there is nothing of it anywhere.
LEMMA IdChangesHands ==
    ASSUME NEW i \in RequestIds, ~Occurs(inbound, Data(i)), ~Answered(Response(i))',
           client'[i].left \in Nat, client'[i].left = client'[i].size,
           client'[i].size = 0 => client'[i] = UnusedId,
           client'[i].size # 0 => client'[i].call # 0,
           UNCHANGED <<reader_queue, current_read_packet, worker, inbound>>,
           \A s \in Streams : /\ ~Answering(s, i)
                              /\ Reading(s, i) => ~InStream(s, AllData)
    PROVE  IdInOrder(i)'
<1>1. ASSUME NEW q, NEW P, NEW Q, P \subseteq Q, ~Occurs(q, Q) PROVE ~Occurs(q, P)
  BY <1>1, OccursWithin
<1>2. /\ ~Occurs(inbound, First(i)) /\ ~Occurs(inbound, Last(i))
      /\ \A n : ~Occurs(inbound, Foreign(i, n))
  BY <1>1, DataSets
<1>3. ASSUME NEW q, NEW L, NEW D, ~Occurs(q, L) \/ ~Occurs(q, D) PROVE NoneAfter(q, L, D)
  BY <1>3 DEF Occurs, NoneAfter
<1>4. RequestsSent(i)'
  BY <1>2, <1>3 DEF RequestsSent
<1>5. RequestsReceived(i)'
  BY DEF RequestsReceived, Begun
<1>6. /\ ~Occurs(outbound', Response(i)) /\ ~Occurs(unflushed', Response(i))
      /\ writing' \notin Response(i) /\ ~Occurs(writer_queue', Response(i))
  BY DEF Answered
<1>7. /\ Ends(i) \subseteq Response(i)
      /\ \A n : Wrong(i, n) \subseteq Response(i)
  BY DataSets
<1>8. /\ ~Occurs(outbound', Ends(i)) /\ ~Occurs(unflushed', Ends(i)) /\ writing' \notin Ends(i)
      /\ ~Occurs(writer_queue', Ends(i))
  BY <1>1, <1>6, <1>7
<1>9. \A n : ~Answered(Wrong(i, n))'
  BY <1>1, <1>6, <1>7 DEF Answered
<1>10. ResponsesInOrder(i)'
  BY <1>3, <1>6, <1>8 DEF ResponsesInOrder
<1>11. ResponsesAwaited(i)'
  BY <1>9 DEF ResponsesAwaited
<1>12. ASSUME NEW s \in Streams, Reading(s, i)' PROVE StreamReads(s, i)'
  <2>1. ~Occurs(reader_queue[s], AllData) /\ current_read_packet[s] \notin AllData
    BY <1>12 DEF Reading, InStream
  <2>2. /\ ~Occurs(reader_queue[s], Last(i))
        /\ \A n : /\ ~Occurs(reader_queue[s], Alien(i, n))
                  /\ current_read_packet[s] \notin Alien(i, n)
    BY <1>1, <2>1, DataSets
  <2>3. NoneAfter(reader_queue[s], Last(i), Data(i))
    BY <1>3, <2>2
  <2>4. QED
    BY <2>1, <2>2, <2>3 DEF StreamReads, InStream
<1>13. \A s \in Streams : ~Answering(s, i)'
  BY DEF Answering
<1>14. QED
  BY <1>4, <1>5, <1>10, <1>11, <1>12, <1>13 DEF IdInOrder

\* Nothing changes for an id of which the client does not send anything.
LEMMA OthersNotSent ==
    ASSUME NEW j \in RequestIds, IdInOrder(j), client'[j] = client[j],
           NEW p \in Packets, p \notin Data(j), inbound \in Seq(Packets),
           inbound' = Append(inbound, p),
           UNCHANGED <<reader_queue, current_read_packet, worker, outbound, unflushed, writing,
                       writer_queue>>
    PROVE  IdInOrder(j)'
<1>1. /\ \A P : Occurs(inbound', P) <=> Occurs(inbound, P) \/ p \in P
      /\ \A L, D : NoneAfter(inbound, L, D) /\ (Occurs(inbound, L) => p \notin D)
                     => NoneAfter(inbound', L, D)
  BY OccursAppend
<1>2. \A P : P \subseteq Data(j) => p \notin P
  OBVIOUS
<1>3. /\ \A P : P \subseteq Data(j) => (Occurs(inbound', P) <=> Occurs(inbound, P))
      /\ \A L, D : L \subseteq Data(j) /\ D \subseteq Data(j) =>
           (NoneAfter(inbound, L, D) => NoneAfter(inbound', L, D))
  BY <1>1, <1>2
<1>4. ResponsesInOrder(j)' /\ \A P : Answered(P)' => Answered(P)
  BY DEF IdInOrder, ResponsesInOrder, Answered
<1>5. QED
  BY <1>3, <1>4, StreamsAside, IdStays

LEMMA ClientBeginsData ==
    ASSUME ConnectionInv, NEW i \in RequestIds, ClientBegins(i)
    PROVE  DataRest'
<1>1. /\ state = "WORKING" /\ ServerInv /\ StreamsUnmixed /\ InOrder /\ client[i] = UnusedId
      /\ UNCHANGED <<state, reader_queue, current_read_packet, worker, inbound, outbound,
                     unflushed, writing, writer_queue>>
  BY DEF ClientBegins, ConnectionInv, DataInv, DataRest, LinkWorks, stateVars, streamVars,
         writerVars, wireVars
<1>2. PICK k \in 1 .. MaxRequestPackets :
        client' = [client EXCEPT ![i] = [call |-> requests + 1, size |-> k, left |-> k]]
  BY DEF ClientBegins
<1>3. /\ client'[i] = [call |-> requests + 1, size |-> k, left |-> k]
      /\ \A j \in RequestIds \ {i} : client'[j] = client[j]
  BY <1>1, <1>2, Types
<1>4. k \in Nat /\ k # 0 /\ requests + 1 # 0
  BY <1>1, Types, ServerAssumption DEF TypeOK
<1>5. IdInOrder(i) /\ client[i].size = 0 /\ client[i].left = 0
  BY <1>1 DEF InOrder, UnusedId
<1>6. ~Answered(Response(i))'
  <2>1. ~Answered(Response(i))
    BY <1>5 DEF IdInOrder, ResponsesAwaited
  <2>2. QED
    BY <1>1, <2>1 DEF Answered
<1>7. ~Occurs(inbound, Data(i))
  BY <1>5 DEF IdInOrder, RequestsSent
<1>8. \A s \in Streams : ~Answering(s, i) /\ (Reading(s, i) => ~InStream(s, AllData))
  BY <1>5 DEF IdInOrder, StreamReads, StreamAnswers
<1>9. IdInOrder(i)'
  BY <1>1, <1>3, <1>4, <1>6, <1>7, <1>8, IdChangesHands
<1>10. ASSUME NEW j \in RequestIds \ {i} PROVE IdInOrder(j)'
  <2>1. IdInOrder(j) /\ ResponsesInOrder(j)
    BY <1>1 DEF InOrder, IdInOrder
  <2>2. QED
    BY <1>1, <1>3, <2>1, StreamsAside, WireAside, IdStays
<1>11. StreamsUnmixed'
  BY <1>1, StreamsAside
<1>12. QED
  BY <1>9, <1>10, <1>11 DEF DataRest, InOrder

LEMMA ClientSendsData ==
    ASSUME ConnectionInv, NEW i \in RequestIds, ClientSends(i)
    PROVE  DataRest'
<1>1. /\ state = "WORKING" /\ ServerInv /\ StreamsUnmixed /\ InOrder /\ client[i].left > 0
      /\ client' = [client EXCEPT ![i].left = @ - 1]
      /\ UNCHANGED <<state, reader_queue, current_read_packet, worker, outbound, unflushed,
                     writing, writer_queue>>
  BY DEF ClientSends, ConnectionInv, DataInv, DataRest, LinkWorks, stateVars, streamVars,
         writerVars
<1> DEFINE size == client[i].size
           left == client[i].left
           type == TypeOfNth(size - left + 1, size)
<1>2. /\ IdInOrder(i) /\ left \in Nat /\ size \in Nat /\ left > 0 /\ left <= size
      /\ client[i].call # 0 /\ client[i].call \in Calls /\ inbound \in Seq(Packets)
  <2>1. IdInOrder(i) /\ RequestsSent(i)
    BY <1>1 DEF InOrder, IdInOrder
  <2>2. left \in Nat /\ size \in Nat /\ client[i].call \in Calls /\ inbound \in Seq(Packets)
    BY <1>1, Types
  <2>3. QED
    BY <1>1, <2>1, <2>2 DEF RequestsSent
<1>3. /\ client'[i].left = left - 1 /\ client'[i].size = size /\ client'[i].call = client[i].call
      /\ \A j \in RequestIds \ {i} : client'[j] = client[j]
  <2>1. client \in [RequestIds -> ClientRecords]
    BY <1>1, Types
  <2>2. QED
    BY <1>1, <2>1 DEF ClientRecords
<1>4. /\ type \in PacketTypes
      /\ type \in {"START", "SINGLE"} <=> left = size
      /\ type \in {"SINGLE", "END"} <=> left = 1
  BY <1>2 DEF TypeOfNth, PacketTypes
<1>5. PICK p \in Packets : p = Packet(i, type, client[i].call)
  BY <1>2, <1>4, PacketType DEF Calls
<1>6. inbound' = Append(inbound, p) /\ p.id = i /\ p.type = type /\ p.call = client[i].call
  BY <1>5 DEF ClientSends, Packet
<1> HIDE DEF type
<1>7. /\ p \in Data(i) /\ p \notin Foreign(i, client[i].call)
      /\ p \in First(i) <=> left = size
      /\ p \in Last(i) <=> left = 1
  BY <1>2, <1>4, <1>6 DEF Data, AllData, First, Last, Foreign, StartsRequest
<1>8. /\ \A P : Occurs(inbound', P) <=> Occurs(inbound, P) \/ p \in P
      /\ \A L, D : NoneAfter(inbound, L, D) /\ (Occurs(inbound, L) => p \notin D)
                     => NoneAfter(inbound', L, D)
  BY <1>2, <1>6, OccursAppend
<1>9. IdInOrder(i)'
  <2>1. RequestsSent(i)'
    BY <1>2, <1>3, <1>7, <1>8 DEF IdInOrder, RequestsSent
  <2>2. RequestsReceived(i)'
    <3>1. ASSUME ~Occurs(inbound', First(i)) PROVE \E s \in Streams : Reading(s, i)
      BY <1>2, <1>7, <1>8, <3>1 DEF IdInOrder, RequestsReceived, Begun
    <3>2. \A s \in Streams : Reading(s, i)' <=> Reading(s, i)
      BY <1>1 DEF Reading
    <3>3. QED
      BY <3>1, <3>2 DEF RequestsReceived
  <2>3. \A P : Answered(P)' <=> Answered(P)
    BY <1>1 DEF Answered
  <2>4. ResponsesInOrder(i)'
    BY <1>1, <1>2 DEF IdInOrder, ResponsesInOrder
  <2>5. ResponsesAwaited(i)'
    BY <1>2, <1>3, <2>3 DEF IdInOrder, ResponsesAwaited
  <2>6. ASSUME NEW s \in Streams, Reading(s, i)' PROVE StreamReads(s, i)'
    <3>1. StreamReads(s, i)
      BY <1>1, <1>2, <2>6 DEF IdInOrder, Reading
    <3>2. QED
      BY <1>1, <1>2, <1>3, <1>7, <1>8, <2>3, <3>1 DEF StreamReads, InStream
  <2>7. ASSUME NEW s \in Streams PROVE ~Answering(s, i)'
    BY <1>1, <1>2 DEF IdInOrder, StreamAnswers, Answering
  <2>8. QED
    BY <2>1, <2>2, <2>4, <2>5, <2>6, <2>7 DEF IdInOrder
<1>10. ASSUME NEW j \in RequestIds \ {i} PROVE IdInOrder(j)'
  <2>1. IdInOrder(j) /\ p \notin Data(j) /\ client'[j] = client[j]
    BY <1>1, <1>3, <1>6 DEF InOrder, Data
  <2>2. QED
    BY <1>1, <1>2, <1>6, <2>1, OthersNotSent
<1>11. StreamsUnmixed'
  BY <1>1, StreamsAside
<1>12. QED
  BY <1>9, <1>10, <1>11 DEF DataRest, InOrder

LEMMA ClientReceivesData ==
    ASSUME ConnectionInv, ClientReceives
    PROVE  DataRest'
<1>1. /\ state = "WORKING" /\ ServerInv /\ DataRest /\ StreamsUnmixed /\ InOrder
      /\ outbound # <<>> /\ outbound' = Tail(outbound)
      /\ UNCHANGED <<state, reader_queue, current_read_packet, worker, inbound, unflushed,
                     writing, writer_queue>>
  BY DEF ClientReceives, ConnectionInv, DataInv, DataRest, LinkWorks, stateVars, streamVars,
         writerVars
<1>2. PICK p \in Packets : p = Head(outbound)
  BY <1>1, Types
<1>3. PICK i \in RequestIds : i = p.id
  BY DEF Packets
<1>4. /\ \A P : Occurs(outbound, P) <=> p \in P \/ Occurs(outbound', P)
      /\ \A L, D : NoneAfter(outbound, L, D) =>
           NoneAfter(outbound', L, D) /\ (p \in L => ~Occurs(outbound', D))
  <2>1. outbound \in Seq(Packets)
    BY <1>1, Types
  <2>2. QED
    BY <1>1, <1>2, <2>1, OccursTail
<1>5. \A P : Answered(P)' => Answered(P)
  BY <1>1, <1>4 DEF Answered
<1>6. ASSUME NEW j \in RequestIds PROVE ResponsesInOrder(j)'
  <2>1. ResponsesInOrder(j)
    BY <1>1 DEF InOrder, IdInOrder
  <2>2. QED
    BY <1>1, <1>4, <2>1 DEF ResponsesInOrder
<1>7. CASE p.type \notin {"SINGLE", "END"}
  <2>1. client' = client
    BY <1>2, <1>7 DEF ClientReceives
  <2>2. QED
    BY <1>1, <1>5, <1>6, <2>1, ResponsesMove
<1>8. CASE p.type \in {"SINGLE", "END"}
  <2>1. client'[i] = UnusedId /\ \A j \in RequestIds \ {i} : client'[j] = client[j]
    <3>1. client' = [client EXCEPT ![i] = UnusedId]
      BY <1>2, <1>3, <1>8 DEF ClientReceives
    <3>2. QED
      BY <1>1, <3>1, Types
  <2>2. p \in Ends(i) /\ p \in Response(i) /\ IdInOrder(i)
    BY <1>1, <1>3, <1>8 DEF Ends, Response, InOrder
  <2>3. Occurs(outbound, Ends(i)) /\ Answered(Response(i)) /\ Answered(Ends(i))
    BY <1>4, <2>2 DEF Answered
  <2>4. ~Answered(Response(i))'
    BY <1>1, <1>4, <2>2, <2>3 DEF IdInOrder, ResponsesInOrder, Answered
  <2>5. ~Occurs(inbound, Data(i))
    BY <2>2, <2>3 DEF IdInOrder, ResponsesAwaited
  <2>6. \A s \in Streams : ~Answering(s, i) /\ (Reading(s, i) => ~InStream(s, AllData))
    BY <2>2, <2>3 DEF IdInOrder, StreamReads, StreamAnswers
  <2>7. IdInOrder(i)'
    BY <1>1, <2>1, <2>4, <2>5, <2>6, IdChangesHands DEF UnusedId
  <2>8. ASSUME NEW j \in RequestIds \ {i} PROVE IdInOrder(j)'
    <3>1. IdInOrder(j)
      BY <1>1 DEF InOrder
    <3>2. QED
      BY <1>1, <1>5, <1>6, <2>1, <3>1, StreamsAside, IdStays
  <2>9. StreamsUnmixed'
    BY <1>1, StreamsAside
  <2>10. QED
    BY <2>7, <2>8, <2>9 DEF DataRest, InOrder
<1>9. QED
  BY <1>7, <1>8

LEMMA ClientSendsGarbageData ==
    ASSUME ConnectionInv, ClientSendsGarbage
    PROVE  DataRest'
<1>1. /\ state = "WORKING" /\ ServerInv /\ StreamsUnmixed /\ InOrder
      /\ UNCHANGED <<state, reader_queue, current_read_packet, worker, client, outbound,
                     unflushed, writing, writer_queue>>
  BY DEF ClientSendsGarbage, ConnectionInv, DataInv, DataRest, LinkWorks, stateVars, streamVars,
         writerVars
<1>2. PICK i \in RequestIds, t \in PacketTypes : inbound' = Append(inbound, Packet(i, t, 0))
  BY DEF ClientSendsGarbage
<1>3. PICK p \in Packets : p = Packet(i, t, 0)
  <2>1. 0 \in 0 .. MaxRequests
    BY ServerAssumption
  <2>2. QED
    BY <2>1, PacketType
<1>4. inbound \in Seq(Packets) /\ inbound' = Append(inbound, p)
  BY <1>1, <1>2, <1>3, Types
<1>5. \A j \in RequestIds : p \notin Data(j)
  BY <1>3 DEF Packet, Data, AllData
<1>6. ASSUME NEW j \in RequestIds PROVE IdInOrder(j)'
  <2>1. IdInOrder(j)
    BY <1>1 DEF InOrder
  <2>2. QED
    BY <1>1, <1>4, <1>5, <2>1, OthersNotSent
<1>7. StreamsUnmixed'
  BY <1>1, StreamsAside
<1>8. QED
  BY <1>6, <1>7 DEF DataRest, InOrder

-----------------------------------------------------------------------------
(***************************************************************************)
(* The invariant is inductive                                              *)
(***************************************************************************)
LEMMA InitConnection == Init => ConnectionInv
<1> SUFFICES ASSUME Init PROVE ConnectionInv
  OBVIOUS
<1>1. ServerInv
  BY ServerInit
<1>2. LinkWorks
  BY DEF Init, LinkWorks
<1>3. StreamsUnmixed
  <2>1. ASSUME NEW s \in Streams, NEW P, P \subseteq AllData PROVE ~InStream(s, P)
    <3>1. reader_queue[s] = <<>> /\ current_read_packet[s] = NULL
      BY DEF Init
    <3>2. NULL \notin P
      BY <2>1, NullIsNoPacket, DataSets
    <3>3. QED
      BY <3>1, <3>2, OccursEmpty DEF InStream
  <2>2. QED
    BY <2>1, DataSets DEF StreamsUnmixed
<1>4. QED
  BY <1>1, <1>2, <1>3 DEF Init, ConnectionInv, DataInv, DataRest

LEMMA StepLinkWorks ==
    ASSUME ConnectionInv, [Next]_vars
    PROVE  LinkWorks'
<1>1. /\ LinkWorks /\ ServerInv
      /\ state = "STOPPED" <=> reader = "none"
      /\ state = "STOPPED" <=> link = "none"
      /\ state = "STOPPED" => writer = "none"
  BY DEF ConnectionInv, DataInv, ServerInv, FibersAgree
<1>2. ASSUME StopAsync PROVE LinkWorks'
  BY <1>1, <1>2 DEF StopAsync, LinkWorks
<1>3. ASSUME UNCHANGED stateVars, state # "STOPPED" PROVE LinkWorks'
  BY <1>1, <1>3 DEF stateVars, LinkWorks
<1>4. ASSUME UNCHANGED <<stateVars, inbound, outbound, unflushed, client>> PROVE LinkWorks'
  BY <1>1, <1>4 DEF stateVars, LinkWorks
<1>5. CASE Start \/ StopRequested
  BY <1>2, <1>5 DEF Start, StopRequested, LinkWorks
<1>6. CASE ReaderStep
  <2>1. CASE ReaderEnds
    BY <2>1 DEF ReaderEnds, LinkWorks
  <2>2. CASE ~ReaderEnds
    BY <1>1, <1>2, <1>3, <1>6, <2>2
    DEF ReaderStep, ReaderStarts, ReaderAcquirePacket, ReaderReadPacket, ReaderFails,
        StopAllRequestStreams, StopStreamWriter
  <2>3. QED
    BY <2>1, <2>2
<1>7. CASE WriterStep
  BY <1>1, <1>2, <1>3, <1>7
  DEF WriterStep, WriterGetPacket, WriterWritePacket, WriterFlush, WriterSkipPacket
<1>8. ASSUME NEW s \in Streams, WorkerGoesOn(s) \/ ReadTimeout(s) PROVE LinkWorks'
  BY <1>2, <1>4, <1>8
  DEF WorkerGoesOn, ReadTimeout, ReadPacket, ReadLastPacket, RequestFails, GetWritePacket,
      WritePacket, Flush, FlushEnds, clientVars, wireVars
<1>9. CASE LinkBreaks
  BY <1>1, <1>9 DEF LinkBreaks, LinkWorks
<1>10. CASE \/ ClientReceives \/ ClientSendsGarbage
            \/ \E i \in RequestIds : ClientBegins(i) \/ ClientSends(i)
  BY <1>1, <1>3, <1>10 DEF ClientReceives, ClientSendsGarbage, ClientBegins, ClientSends
<1>11. CASE Terminated \/ UNCHANGED vars
  BY <1>4, <1>11 DEF Terminated, vars, stateVars, clientVars, wireVars
<1>12. QED
  BY <1>5, <1>6, <1>7, <1>8, <1>9, <1>10, <1>11 DEF Next

LEMMA StepConnection == ConnectionInv /\ [Next]_vars => ConnectionInv'
<1> SUFFICES ASSUME ConnectionInv, [Next]_vars PROVE ConnectionInv'
  OBVIOUS
<1>1. ServerInv'
  BY ServerStep DEF ConnectionInv
<1>2. LinkWorks'
  BY StepLinkWorks
<1>3. DataRest'
  <2>1. CASE \/ StopRequested \/ LinkBreaks \/ Terminated \/ UNCHANGED vars
    <3>1. /\ DataRest /\ UNCHANGED <<reader_queue, current_read_packet, worker>>
          /\ \/ state' # "WORKING"
             \/ /\ state = "WORKING"
                /\ UNCHANGED <<client, inbound, outbound, unflushed, writing, writer_queue>>
      BY <2>1
      DEF StopRequested, LinkBreaks, Terminated, StopAsync, ConnectionInv, DataInv, vars,
          stateVars, streamVars, writerVars, clientVars, wireVars
    <3>2. QED
      BY <3>1, DataStays
  <2>2. QED
    BY <2>1, StartData, ReaderData, WriterData, WorkerData, ClientReceivesData,
       ClientSendsGarbageData, ClientBeginsData, ClientSendsData DEF Next
<1>4. QED
  BY <1>1, <1>2, <1>3 DEF ConnectionInv, DataInv

LEMMA ConnectionAlways == Spec => []ConnectionInv
BY InitConnection, StepConnection, PTL DEF Spec

-----------------------------------------------------------------------------
(***************************************************************************)
(* Theorems                                                                *)
(***************************************************************************)
LEMMA SeparateFollows == ConnectionInv => RequestsDontMix
<1> SUFFICES ASSUME ConnectionInv, NEW s \in Streams,
                    NEW p \in Range(reader_queue[s]) \cup {current_read_packet[s]},
                    NEW q \in Range(reader_queue[s]) \cup {current_read_packet[s]},
                    p.call # 0, q.call # 0, p.call # q.call
             PROVE  FALSE
  BY DEF RequestsDontMix
<1>1. ASSUME NEW r \in Range(reader_queue[s]) \cup {current_read_packet[s]}, r.call # 0
      PROVE  r.call \in Calls /\ InStream(s, OfCall(r.call))
  <2>1. reader_queue[s] \in Seq(Packets) /\ current_read_packet[s] \in Packets \cup {NULL}
    BY Types DEF ConnectionInv
  <2>2. r \in Packets
    <3>1. NULL.call = 0
      BY DEF NULL
    <3>2. CASE r \in Range(reader_queue[s])
      BY <2>1, <3>2 DEF Range
    <3>3. QED
      BY <1>1, <2>1, <3>1, <3>2
  <2>3. r \in OfCall(r.call) /\ r.call \in Calls
    BY <1>1, <2>2 DEF OfCall, AllData, Packets, Calls
  <2>4. CASE r \in Range(reader_queue[s])
    <3>1. PICK k \in DOMAIN reader_queue[s] : r = reader_queue[s][k]
      BY <2>4 DEF Range
    <3>2. k \in 1 .. Len(reader_queue[s])
      BY <2>1
    <3>3. Occurs(reader_queue[s], OfCall(r.call))
      BY <2>3, <3>1, <3>2 DEF Occurs
    <3>4. QED
      BY <2>3, <3>3 DEF InStream
  <2>5. QED
    BY <2>3, <2>4 DEF InStream
<1>2. QED
  BY <1>1 DEF ConnectionInv, DataInv, DataRest, StreamsUnmixed

\* mrpc_packet_stream_read: a worker sees the data of one request only, however
\* often the streams of the pool and the request ids are used again, by this
\* connection or a later one.
THEOREM RequestsSeparate == Spec => []RequestsDontMix
BY ConnectionAlways, SeparateFollows, PTL

LEMMA MatchFollows == ConnectionInv => ResponsesMatch
<1> SUFFICES ASSUME ConnectionInv, link = "up",
                    NEW p \in (Range(writer_queue) \cup {writing} \cup Range(unflushed)
                                 \cup Range(outbound)) \ {NULL}
             PROVE  client[p.id].call = p.call
  BY DEF ResponsesMatch
<1>1. state = "WORKING" /\ ServerInv /\ InOrder
  BY DEF ConnectionInv, DataInv, LinkWorks, DataRest
<1>2. /\ writer_queue \in Seq(Packets \cup {NULL}) /\ unflushed \in Seq(Packets)
      /\ outbound \in Seq(Packets) /\ writing \in Packets \cup {NULL}
  BY <1>1, Types DEF TypeOK
<1>3. ASSUME NEW q \in Seq(Packets \cup {NULL}), p \in Range(q)
      PROVE  p \in Packets /\ \A P : p \in P => Occurs(q, P)
  <2>1. PICK k \in DOMAIN q : p = q[k]
    BY <1>3 DEF Range
  <2>2. k \in 1 .. Len(q) /\ p \in Packets
    BY <2>1
  <2>3. QED
    BY <2>1, <2>2 DEF Occurs
<1>4. unflushed \in Seq(Packets \cup {NULL}) /\ outbound \in Seq(Packets \cup {NULL})
  BY <1>2
<1>5. p \in Packets /\ \A P : p \in P => Answered(P)
  BY <1>2, <1>3, <1>4 DEF Answered
<1>6. PICK i \in RequestIds : i = p.id
  BY <1>5 DEF Packets
<1>7. p \notin Wrong(i, client[i].call)
  BY <1>1, <1>5 DEF InOrder, IdInOrder, ResponsesAwaited
<1>8. QED
  BY <1>5, <1>6, <1>7 DEF Wrong, Response

\* stream_writer_func: while the connection is up, no packet on its way to the
\* client belongs to an earlier request of the same id.
THEOREM ResponsesCorrect == Spec => []ResponsesMatch
BY ConnectionAlways, MatchFollows, PTL

-----------------------------------------------------------------------------
(***************************************************************************)
(* When a correct client is cut off                                        *)
(***************************************************************************)
LEMMA NoEmptyStays ==
    ASSUME NoEmptyPackets, garbage' = garbage,
           \A s \in Streams :
             Occurs(reader_queue'[s], EmptyRequest) => Occurs(reader_queue[s], EmptyRequest),
           state' = "WORKING" =>
             /\ state = "WORKING"
             /\ Occurs(inbound', Empty) => Occurs(inbound, Empty)
             /\ \A s \in Streams : worker'[s].pc = "read" =>
                  \/ InStream(s, AllData)'
                  \/ worker[s].pc = "read" /\ (InStream(s, AllData) => InStream(s, AllData)')
    PROVE  NoEmptyPackets'
BY DEF NoEmptyPackets

\* Nothing happens to the streams.
LEMMA NoEmptyAside ==
    ASSUME NoEmptyPackets, UNCHANGED <<garbage, reader_queue, current_read_packet, worker>>,
           state' = "WORKING" =>
             state = "WORKING" /\ (Occurs(inbound', Empty) => Occurs(inbound, Empty))
    PROVE  NoEmptyPackets'
BY DEF NoEmptyPackets, InStream

\* Stream s has got packet p, whose owner reads the stream now.
LEMMA NoEmptyPushed ==
    ASSUME ConnectionInv, NoEmptyPackets, state = "WORKING", inbound # <<>>,
           inbound' = Tail(inbound), NEW s \in Streams,
           reader_queue' = [reader_queue EXCEPT ![s] = Append(@, Head(inbound))],
           UNCHANGED <<garbage, current_read_packet>>,
           \A u \in Streams \ {s} : worker'[u] = worker[u]
    PROVE  NoEmptyPackets'
<1>1. ASSUME garbage = 0 PROVE Head(inbound) \notin Empty /\ Head(inbound) \in AllData
  <2>1. Head(inbound) \in Packets /\ Head(inbound) \notin Empty
    BY <1>1, PacketPushed DEF ConnectionInv, NoEmptyPackets
  <2>2. QED
    BY <2>1 DEF Empty, AllData
<1>2. /\ \A P : Occurs(inbound', P) => Occurs(inbound, P)
      /\ \A P : /\ Occurs(reader_queue'[s], P) <=>
                     Head(inbound) \in P \/ Occurs(reader_queue[s], P)
                /\ InStream(s, P)' <=> Head(inbound) \in P \/ InStream(s, P)
      /\ \A u \in Streams \ {s} : /\ reader_queue'[u] = reader_queue[u]
                                  /\ \A P : InStream(u, P)' <=> InStream(u, P)
  BY PacketPushed DEF ConnectionInv
<1>3. ASSUME garbage' = 0, NEW u \in Streams
      PROVE  ~Occurs(reader_queue'[u], EmptyRequest)
  BY <1>1, <1>2, <1>3 DEF NoEmptyPackets, EmptyRequest
<1>4. ASSUME garbage' = 0, NEW u \in Streams, worker'[u].pc = "read"
      PROVE  InStream(u, AllData)'
  BY <1>1, <1>2, <1>4 DEF NoEmptyPackets
<1>5. QED
  BY <1>2, <1>3, <1>4 DEF NoEmptyPackets

\* A worker that reads has got data, and any other one does not matter.
LEMMA NoEmptyWorker ==
    ASSUME ConnectionInv, NoEmptyPackets, NEW s \in Streams, WorkerGoesOn(s) \/ ReadTimeout(s)
    PROVE  NoEmptyPackets'
<1>1. /\ ServerInv /\ StreamsUnmixed
      /\ UNCHANGED <<inbound, garbage>>
      /\ state' = "WORKING" => state = "WORKING"
  BY DEF ConnectionInv, DataInv, DataRest, WorkerGoesOn, ReadTimeout, ReadPacket,
         ReadLastPacket, RequestFails, GetWritePacket, WritePacket, Flush, FlushEnds, StopAsync,
         stateVars, clientVars, wireVars
<1>2. CASE ReadPacket(s)
  <2>1. /\ reader_queue[s] # <<>> /\ worker' = worker
        /\ reader_queue' = [reader_queue EXCEPT ![s] = Tail(@)]
        /\ current_read_packet' = [current_read_packet EXCEPT ![s] = Head(reader_queue[s])]
        /\ Head(reader_queue[s]).type \in {"START", "MIDDLE"}
    BY <1>2 DEF ReadPacket, CanRead, NextPacket
  <2>2. /\ Head(reader_queue[s]) \in Packets
        /\ \A P : Head(reader_queue[s]) \in P => Occurs(reader_queue[s], P)
        /\ \A t \in Streams : \A P : Occurs(reader_queue'[t], P) => Occurs(reader_queue[t], P)
    BY <1>1, <2>1, TakesFront
  <2>3. /\ current_read_packet'[s] = Head(reader_queue[s])
        /\ \A u \in Streams \ {s} : /\ reader_queue'[u] = reader_queue[u]
                                    /\ current_read_packet'[u] = current_read_packet[u]
    BY <1>1, <2>1, Types
  <2>4. garbage = 0 => InStream(s, AllData)'
    <3>1. garbage = 0 => Head(reader_queue[s]) \notin EmptyRequest
      BY <2>2 DEF NoEmptyPackets
    <3>2. garbage = 0 => Head(reader_queue[s]) \in AllData
      BY <2>1, <2>2, <3>1 DEF EmptyRequest, Empty, AllData
    <3>3. QED
      BY <2>3, <3>2 DEF InStream
  <2>5. \A u \in Streams \ {s} : InStream(u, AllData) => InStream(u, AllData)'
    BY <2>3 DEF InStream
  <2>6. QED
    BY <1>1, <2>1, <2>2, <2>4, <2>5 DEF NoEmptyPackets
<1>3. ASSUME worker'[s].pc # "read",
             \A P : Occurs(reader_queue'[s], P) => Occurs(reader_queue[s], P),
             \A u \in Streams \ {s} : /\ worker'[u] = worker[u]
                                      /\ reader_queue'[u] = reader_queue[u]
                                      /\ current_read_packet'[u] = current_read_packet[u]
      PROVE  NoEmptyPackets'
  BY <1>1, <1>3, NoEmptyStays DEF InStream
<1>4. CASE ReadLastPacket(s)
  <2>1. /\ reader_queue[s] # <<>>
        /\ reader_queue' = [reader_queue EXCEPT ![s] = Tail(@)]
        /\ current_read_packet' = [current_read_packet EXCEPT ![s] = Head(reader_queue[s])]
    BY <1>4 DEF ReadLastPacket, CanRead, NextPacket
  <2>2. PICK k \in 1 .. MaxResponsePackets :
          worker' = [worker EXCEPT ![s].pc = "write_first", ![s].left = k,
                                   ![s].call = NextPacket(s).call]
    BY <1>4 DEF ReadLastPacket
  <2>3. \A t \in Streams : \A P : Occurs(reader_queue'[t], P) => Occurs(reader_queue[t], P)
    BY <1>1, <2>1, TakesFront
  <2>4. worker \in [Streams -> Workers]
    BY <1>1, Types
  <2>5. /\ worker'[s].pc = "write_first"
        /\ \A u \in Streams \ {s} : worker'[u] = worker[u]
    BY <2>2, <2>4 DEF Workers
  <2>6. \A u \in Streams \ {s} : /\ reader_queue'[u] = reader_queue[u]
                                 /\ current_read_packet'[u] = current_read_packet[u]
    BY <1>1, <2>1, Types
  <2>7. QED
    BY <1>3, <2>3, <2>5, <2>6
<1>5. ASSUME NEW n, ReleaseRequestStream(s, n) PROVE NoEmptyPackets'
  <2>1. reader_queue'[s] = <<>>
    BY <1>1, <1>5, Types DEF ReleaseRequestStream, ShutdownStream
  <2>2. /\ worker'[s].pc = "none"
        /\ \A u \in Streams \ {s} : /\ worker'[u] = worker[u]
                                    /\ reader_queue'[u] = reader_queue[u]
                                    /\ current_read_packet'[u] = current_read_packet[u]
    BY <1>1, <1>5, ReleasesData
  <2>3. QED
    BY <1>3, <2>1, <2>2, OccursEmpty
<1>6. ASSUME UNCHANGED <<reader_queue, current_read_packet>>, worker'[s].pc # "read",
             \A u \in Streams \ {s} : worker'[u] = worker[u]
      PROVE  NoEmptyPackets'
  BY <1>3, <1>6
<1>7. CASE GetWritePacket(s) \/ WritePacket(s)
  <2>1. UNCHANGED <<reader_queue, current_read_packet>>
    BY <1>7 DEF GetWritePacket, WritePacket
  <2>2. worker \in [Streams -> Workers]
    BY <1>1, Types
  <2>3. worker'[s].pc # "read" /\ \A u \in Streams \ {s} : worker'[u] = worker[u]
    BY <1>7, <2>2 DEF GetWritePacket, WritePacket, Workers
  <2>4. QED
    BY <1>6, <2>1, <2>3
<1>8. CASE Flush(s)
  <2>1. CASE ReleaseRequestStream(s, HeldPackets(s) - 1)
    BY <1>5, <2>1
  <2>2. CASE /\ worker' = [worker EXCEPT ![s].pc = "flush_end"]
             /\ UNCHANGED <<reader_queue, current_read_packet>>
    <3>1. worker \in [Streams -> Workers]
      BY <1>1, Types
    <3>2. worker'[s].pc # "read" /\ \A u \in Streams \ {s} : worker'[u] = worker[u]
      BY <2>2, <3>1 DEF Workers
    <3>3. QED
      BY <1>6, <2>2, <3>2
  <2>3. QED
    BY <1>8, <2>1, <2>2 DEF Flush
<1>9. QED
  BY <1>2, <1>4, <1>5, <1>7, <1>8 DEF WorkerGoesOn, RequestFails, ReadTimeout, FlushEnds

LEMMA NoEmptyReader ==
    ASSUME ConnectionInv, NoEmptyPackets, ReaderStep
    PROVE  NoEmptyPackets'
<1>1. ServerInv /\ garbage' = garbage
  BY DEF ConnectionInv, ReaderStep, ReaderStarts, ReaderAcquirePacket, ReaderReadPacket,
         ReaderFails, StopAllRequestStreams, StopStreamWriter, ReaderEnds, clientVars
<1>2. CASE ReaderStarts \/ ReaderAcquirePacket
  BY <1>2, NoEmptyAside DEF ReaderStarts, ReaderAcquirePacket, stateVars, streamVars, wireVars,
                            clientVars
<1>3. CASE ReaderFails \/ StopStreamWriter \/ ReaderEnds
  <2>1. UNCHANGED <<reader_queue, current_read_packet, worker>> /\ state' # "WORKING"
    BY <1>1, <1>3 DEF ReaderFails, StopStreamWriter, ReaderEnds, StopAsync, stateVars,
                      streamVars, ServerInv, FibersAgree
  <2>2. QED
    BY <1>1, <2>1, NoEmptyAside
<1>4. CASE ReaderReadPacket
  <2>1. /\ state = "WORKING" /\ inbound # <<>> /\ inbound' = Tail(inbound)
        /\ UNCHANGED <<current_read_packet, garbage>>
    BY <1>4 DEF ReaderReadPacket, ConnectionInv, DataInv, LinkWorks, ServerInv, FibersAgree,
                TypeOK, clientVars
  <2>2. ASSUME NEW s \in FreeStreams, AcquireRequestStream(Head(inbound).id, s),
               reader_queue' = [reader_queue EXCEPT ![s] = Append(@, Head(inbound))]
        PROVE  NoEmptyPackets'
    <3>1. s \in Streams /\ \A u \in Streams \ {s} : worker'[u] = worker[u]
      BY <1>1, <2>2, Types DEF FreeStreams, AcquireRequestStream
    <3>2. QED
      BY <2>1, <2>2, <3>1, NoEmptyPushed
  <2>3. CASE /\ ~Misplaced(Head(inbound)) /\ ~StartsRequest(Head(inbound))
             /\ reader_queue' = [reader_queue EXCEPT
                  ![active_request_streams[Head(inbound).id]] = Append(@, Head(inbound))]
             /\ UNCHANGED worker
    <3>1. active_request_streams[Head(inbound).id] \in Streams
      BY <1>1, <2>3 DEF Misplaced, ServerInv
    <3>2. QED
      BY <2>1, <2>3, <3>1, NoEmptyPushed
  <2>4. CASE state' # "WORKING" /\ UNCHANGED <<worker, reader_queue>>
    BY <2>1, <2>4, NoEmptyAside
  <2>5. QED
    BY <1>4, <2>2, <2>3, <2>4 DEF ReaderReadPacket, StopAsync
<1>5. CASE StopAllRequestStreams
  <2>1. /\ state' = "STOP_INITIATED" /\ UNCHANGED <<current_read_packet, worker>>
    BY <1>1, <1>5 DEF StopAllRequestStreams, ServerInv, FibersAgree, stateVars
  <2>2. \A s \in Streams :
          reader_queue'[s] \in {reader_queue[s], Append(reader_queue[s], Disconnected)}
    BY <1>5 DEF StopAllRequestStreams, DisconnectFrom
  <2>3. Disconnected \in Packets /\ Disconnected \notin EmptyRequest
    <3>1. 0 \in RequestIds /\ "END" \in PacketTypes /\ 0 \in 0 .. MaxRequests
      BY ServerAssumption DEF RequestIds, PacketTypes
    <3>2. QED
      BY <3>1, PacketType DEF Disconnected, Packet, EmptyRequest
  <2>4. ASSUME NEW s \in Streams, Occurs(reader_queue'[s], EmptyRequest)
        PROVE  Occurs(reader_queue[s], EmptyRequest)
    <3>1. reader_queue[s] \in Seq(Packets)
      BY <1>1, Types
    <3>2. \A P : Occurs(Append(reader_queue[s], Disconnected), P) <=>
            Occurs(reader_queue[s], P) \/ Disconnected \in P
      BY <2>3, <3>1, OccursAppend
    <3>3. QED
      BY <2>2, <2>3, <2>4, <3>2
  <2>5. QED
    BY <1>1, <2>1, <2>4, NoEmptyStays
<1>6. QED
  BY <1>2, <1>3, <1>4, <1>5 DEF ReaderStep

LEMMA NoEmptySent ==
    ASSUME ConnectionInv, NoEmptyPackets, NEW i \in RequestIds, ClientSends(i)
    PROVE  NoEmptyPackets'
<1>1. /\ state = "WORKING" /\ ServerInv /\ InOrder /\ client[i].left > 0
      /\ UNCHANGED <<state, garbage, reader_queue, current_read_packet, worker>>
  BY DEF ClientSends, ConnectionInv, DataInv, DataRest, LinkWorks, stateVars, streamVars
<1>2. PICK t : t = TypeOfNth(client[i].size - client[i].left + 1, client[i].size)
  OBVIOUS
<1>3. t \in PacketTypes /\ client[i].call \in 0 .. MaxRequests /\ client[i].call # 0
  <2>1. RequestsSent(i)
    BY <1>1 DEF InOrder, IdInOrder
  <2>2. client[i].left \in Nat /\ client[i].size \in Nat /\ client[i].call \in Calls
    BY <1>1, Types
  <2>3. client[i].call # 0
    BY <1>1, <2>1, <2>2 DEF RequestsSent
  <2>4. t \in PacketTypes
    BY <1>2 DEF TypeOfNth, PacketTypes
  <2>5. QED
    BY <2>2, <2>3, <2>4 DEF Calls
<1>4. PICK p \in Packets : p = Packet(i, t, client[i].call)
  BY <1>3, PacketType
<1>5. inbound' = Append(inbound, p) /\ p \notin Empty /\ inbound \in Seq(Packets)
  BY <1>1, <1>2, <1>3, <1>4, Types DEF ClientSends, Packet, Empty
<1>6. Occurs(inbound', Empty) => Occurs(inbound, Empty)
  BY <1>5, OccursAppend
<1>7. QED
  BY <1>1, <1>6, NoEmptyAside

LEMMA NoEmptyStep == ConnectionInv /\ NoEmptyPackets /\ [Next]_vars => NoEmptyPackets'
<1> SUFFICES ASSUME ConnectionInv, NoEmptyPackets, [Next]_vars PROVE NoEmptyPackets'
  OBVIOUS
<1>1. CASE Start
  <2>1. /\ ServerInv /\ state = "STOPPED" /\ inbound' = <<>>
        /\ UNCHANGED <<garbage, reader_queue, worker>>
    BY <1>1 DEF Start, ConnectionInv, DataInv, LinkWorks, streamVars, clientVars, wireVars
  <2>2. \A s \in Streams : worker'[s].pc # "read"
    BY <2>1, WorkerRuns
  <2>3. QED
    BY <2>1, <2>2, OccursEmpty DEF NoEmptyPackets
<1>2. CASE \/ StopRequested \/ WriterStep \/ LinkBreaks \/ ClientReceives \/ Terminated
           \/ UNCHANGED vars \/ \E i \in RequestIds : ClientBegins(i)
  <2>1. /\ UNCHANGED <<garbage, reader_queue, current_read_packet, worker, inbound>>
        /\ state' = "WORKING" => state = "WORKING"
    BY <1>2
    DEF StopRequested, WriterStep, WriterGetPacket, WriterWritePacket, WriterFlush,
        WriterSkipPacket, LinkBreaks, ClientReceives, Terminated, ClientBegins, StopAsync, vars,
        stateVars, streamVars, clientVars, wireVars
  <2>2. QED
    BY <2>1, NoEmptyAside
<1>3. CASE ClientSendsGarbage
  <2>1. garbage' # 0
    <3>1. garbage \in Nat
      BY ServerAssumption DEF ConnectionInv, ServerInv, TypeOK
    <3>2. QED
      BY <1>3, <3>1 DEF ClientSendsGarbage
  <2>2. QED
    BY <2>1 DEF NoEmptyPackets
<1>4. QED
  BY <1>1, <1>2, <1>3, NoEmptyReader, NoEmptyWorker, NoEmptySent DEF Next

LEMMA NoEmptyAlways == Spec => []NoEmptyPackets
<1>1. Init => NoEmptyPackets
  BY OccursEmpty DEF Init, NoEmptyPackets
<1>2. QED
  BY <1>1, NoEmptyStep, ConnectionAlways, PTL DEF Spec

LEMMA DroppedFollows == ConnectionInv /\ NoEmptyPackets => DroppedOnlyInFlush
<1> SUFFICES ASSUME ConnectionInv, NoEmptyPackets, link = "up", inbound # <<>>,
                    Misplaced(Head(inbound)), garbage = 0,
                    ~(LET i == Head(inbound).id IN
                        /\ i \in ActiveIds
                        /\ worker[active_request_streams[i]].pc = "flush_end")
             PROVE  FALSE
  BY DEF DroppedOnlyInFlush
<1>1. state = "WORKING" /\ ServerInv /\ InOrder /\ inbound \in Seq(Packets)
  BY Types DEF ConnectionInv, DataInv, LinkWorks, DataRest
<1>2. PICK p \in Packets : p = Head(inbound)
  BY <1>1
<1>3. /\ \A P : p \in P => Occurs(inbound, P)
      /\ \A P : Occurs(inbound, P) => p \in P \/ Occurs(Tail(inbound), P)
      /\ \A L, D : NoneAfter(inbound, L, D) => (p \in L => ~Occurs(Tail(inbound), D))
  BY <1>1, <1>2, OccursTail
<1>4. PICK i \in RequestIds : i = p.id
  BY DEF Packets
<1>5. p \in Data(i) /\ IdInOrder(i)
  <2>1. p \notin Empty
    BY <1>1, <1>3 DEF NoEmptyPackets
  <2>2. QED
    BY <1>1, <1>4, <2>1 DEF Empty, Data, AllData, InOrder
<1>6. CASE StartsRequest(p) /\ i \in ActiveIds
  <2>1. PICK s \in Streams : s = active_request_streams[i]
    BY <1>1, <1>6 DEF ServerInv
  <2>2. worker[s].pc # "none" /\ worker[s].id = i
    BY <1>1, <1>6, <2>1, StreamOfWorker DEF ServerInv, StreamsHeldOnce
  <2>3. Reading(s, i) \/ Answering(s, i)
    <3>1. worker[s].pc \in WorkerStates
      BY <1>1, Types DEF Workers
    <3>2. QED
      BY <1>2, <1>4, <1>6, <2>1, <2>2, <3>1 DEF WorkerStates, Reading, Answering
  <2>4. Occurs(inbound, First(i)) /\ Occurs(inbound, Data(i))
    BY <1>3, <1>5, <1>6 DEF First
  <2>5. CASE Reading(s, i)
    <3>1. InStream(s, AllData)
      BY <1>1, <2>5 DEF NoEmptyPackets, Reading
    <3>2. QED
      BY <1>5, <2>4, <2>5, <3>1 DEF IdInOrder, StreamReads
  <2>6. CASE Answering(s, i)
    BY <1>5, <2>4, <2>6 DEF IdInOrder, StreamAnswers
  <2>7. QED
    BY <2>3, <2>5, <2>6
<1>7. CASE ~StartsRequest(p) /\ i \notin ActiveIds
  <2>1. ~Occurs(inbound, First(i)) /\ Begun(i)
    BY <1>3, <1>5, <1>7 DEF First, IdInOrder, RequestsSent, Begun
  <2>2. PICK s \in Streams : Reading(s, i)
    BY <1>5, <2>1 DEF IdInOrder, RequestsReceived
  <2>3. QED
    BY <1>1, <1>7, <2>2, StreamOfWorker DEF Reading
<1>8. QED
  BY <1>2, <1>4, <1>6, <1>7 DEF Misplaced

\* stream_reader_func: a client that keeps to the protocol can be cut off for using
\* a request id again only while the worker of the last request waits in
\* mrpc_packet_stream_flush for the packet it does not need: otherwise that worker
\* has gone, or the request is not complete, when the new one arrives.
THEOREM DroppedOnlyWhileFlushing == Spec => []DroppedOnlyInFlush
BY ConnectionAlways, NoEmptyAlways, DroppedFollows, PTL
=============================================================================
