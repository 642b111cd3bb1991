------------------------ MODULE ServerStreamProcessor ------------------------
(***************************************************************************)
(* struct mrpc_server_stream_processor: the server's end of a connection.  *)
(*   - stream_reader_func reads packets, gives each new request a stream   *)
(*     of the pool and a fiber of its own, and at the end stops them all;  *)
(*   - process_request_func, the worker of a stream, runs the stream       *)
(*     handler generated by the interface compiler: it reads the request,  *)
(*     calls the service, writes the response and flushes it;              *)
(*   - stream_writer_func writes the packets of all streams.               *)
(* After the last step of the reader the processor waits in the pool of    *)
(* struct mrpc_server for another connection.                              *)
(*                                                                         *)
(* The client at the other end is external.  It is a correct one, up to    *)
(* MaxGarbage mistakes: it uses a request id again only when it has read   *)
(* the whole response (ResponsesHaveOwner of ClientStreamProcessor).       *)
(* Steps and packets are those of ClientStreamProcessor.                   *)
(***************************************************************************)
EXTENDS Integers, Sequences, FiniteSets, FiniteSetsExt, Functions

CONSTANTS
    MaxStreams,             \* MAX_REQUEST_STREAMS_CNT
    Streams,                \* the entries of request_streams_pool
    MaxPackets,             \* MAX_PACKETS_CNT
    MaxRequests,            \* bound on the number of requests
    MaxConnections,         \* bound on the number of connections
    MaxRequestPackets,      \* bound on the packets of a request
    MaxResponsePackets,     \* bound on the packets of a response
    MaxGarbage,             \* bound on the mistakes of the client
    ReadsTimeOut            \* FALSE: nobody waits as long as READ_TIMEOUT

ASSUME ServerAssumption ==
    /\ MaxStreams \in Nat \ {0}
    /\ IsFiniteSet(Streams) /\ Cardinality(Streams) = MaxStreams
    /\ MaxPackets \in Nat \ {0}
    /\ MaxRequests \in Nat
    /\ MaxConnections \in Nat
    /\ MaxRequestPackets \in Nat \ {0}
    /\ MaxResponsePackets \in Nat \ {0}
    /\ MaxGarbage \in Nat
    /\ ReadsTimeOut \in BOOLEAN

VARIABLES
    state,                        \* enum server_stream_processor_state
    link,                         \* stream_processor->stream
    active_request_streams,       \* the streams, by the ids that have one
    active_request_streams_cnt,
    request_streams_stop_event,   \* set or not
    writer_stop_event,            \* set or not
    writer_queue,
    free_packets,                 \* entries left in packets_pool
    reader_queue,                 \* of each request stream
    current_read_packet,          \* of each request stream
    current_write_packet,         \* of each request stream: its type or "none"
    worker,                       \* the process_request_func of each stream
    reader,                       \* where the reader fiber is
    disconnecting,                \* {}, or the id and the stream it waits for
    writer,                       \* where the writer fiber is
    writing,                      \* the packet the writer fiber holds
    unflushed,                    \* packets in the stream's write buffer
    inbound, outbound,            \* packets on the wire
    client,                       \* what the client does with each request id
    requests, garbage, connections

stateVars  == <<state, link>>
poolVars   == <<active_request_streams, active_request_streams_cnt,
                request_streams_stop_event>>
streamVars == <<reader_queue, current_read_packet, current_write_packet, worker>>
readerVars == <<reader, disconnecting, connections>>
writerVars == <<writer, writing, writer_stop_event>>
clientVars == <<client, requests, garbage>>
wireVars   == <<inbound, outbound>>
vars == <<stateVars, poolVars, streamVars, readerVars, writerVars, clientVars,
          wireVars, writer_queue, free_packets, unflushed>>

-----------------------------------------------------------------------------
(***************************************************************************)
(* Data                                                                    *)
(***************************************************************************)
RequestIds == 0 .. MaxStreams - 1

PacketTypes == {"START", "MIDDLE", "END", "SINGLE"}

Packets == [id : RequestIds, type : PacketTypes, call : 0 .. MaxRequests]

Packet(i, t, n) == [id |-> i, type |-> t, call |-> n]

NULL == [id |-> 0, type |-> "NULL", call |-> 0]

WorkerStates == {"none", "read", "write_first", "write", "write_next", "flush_end"}

Workers == [pc : WorkerStates, id : RequestIds, call : 0 .. MaxRequests,
            left : 0 .. MaxResponsePackets]

NoWorker == [pc |-> "none", id |-> 0, call |-> 0, left |-> 0]

\* size is 0 for an id that is not in use, else the packets of the request;
\* of these, left are still to be sent
ClientRecords == [call : 0 .. MaxRequests, size : 0 .. MaxRequestPackets,
                  left : 0 .. MaxRequestPackets]

UnusedId == [call |-> 0, size |-> 0, left |-> 0]

ActiveIds == DOMAIN active_request_streams

FreeStreams == Streams \ Range(active_request_streams)

-----------------------------------------------------------------------------
(***************************************************************************)
(* mrpc_server_stream_processor_create                                     *)
(***************************************************************************)
Init ==
    /\ state = "STOPPED"
    /\ link = "none"
    /\ active_request_streams = <<>>
    /\ active_request_streams_cnt = 0
    /\ request_streams_stop_event = FALSE
    /\ writer_stop_event = FALSE
    /\ writer_queue = <<>>
    /\ free_packets = MaxPackets
    /\ reader_queue = [s \in Streams |-> <<>>]
    /\ current_read_packet = [s \in Streams |-> NULL]
    /\ current_write_packet = [s \in Streams |-> "none"]
    /\ worker = [s \in Streams |-> NoWorker]
    /\ reader = "none"
    /\ disconnecting = {}
    /\ connections = 0
    /\ writer = "none"
    /\ writing = NULL
    /\ unflushed = <<>>
    /\ inbound = <<>>
    /\ outbound = <<>>
    /\ client = [i \in RequestIds |-> UnusedId]
    /\ requests = 0
    /\ garbage = 0

(***************************************************************************)
(* mrpc_server_stream_processor_stop_async, in a state other than STOPPED  *)
(***************************************************************************)
StopAsync ==
    /\ state' = "STOP_INITIATED"
    /\ link' = IF state = "WORKING" THEN "closed" ELSE link

\* stop_all_stream_processors of struct mrpc_server
StopRequested ==
    /\ state = "WORKING"
    /\ StopAsync
    /\ UNCHANGED <<poolVars, streamVars, readerVars, writerVars, clientVars,
                   wireVars, writer_queue, free_packets, unflushed>>

(***************************************************************************)
(* mrpc_server_stream_processor_start, and the first steps of              *)
(* stream_reader_func up to its loop                                       *)
(***************************************************************************)
Start ==
    /\ state = "STOPPED"
    /\ connections < MaxConnections
    /\ connections' = connections + 1
    /\ state' = "WORKING"
    /\ link' = "up"
    /\ reader' = "start"
    /\ UNCHANGED <<poolVars, streamVars, disconnecting, writerVars, clientVars,
                   wireVars, writer_queue, free_packets, unflushed>>

ReaderStarts ==
    /\ reader = "start"
    /\ writer' = "get"                  \* start_stream_writer
    /\ request_streams_stop_event' = TRUE
    /\ reader' = "acquire"
    /\ UNCHANGED <<stateVars, active_request_streams, active_request_streams_cnt,
                   streamVars, disconnecting, connections, writing,
                   writer_stop_event, clientVars, wireVars, writer_queue,
                   free_packets, unflushed>>

-----------------------------------------------------------------------------
(***************************************************************************)
(* process_request_func, the worker of stream s                            *)
(***************************************************************************)

\* packets the stream gives back in mrpc_packet_stream_shutdown
HeldPackets(s) ==
    Len(reader_queue[s])
      + (IF current_write_packet[s] = "none" THEN 0 ELSE 1)
      + (IF current_read_packet[s] = NULL THEN 0 ELSE 1)

(***************************************************************************)
(* release_request_stream, whose mrpc_packet_stream_shutdown gives n       *)
(* packets back to the pool.                                               *)
(***************************************************************************)

\* mutant: the reader queue is not cleared
ShutdownKeepsQueue(s, n) ==
    /\ free_packets' = free_packets + n - Len(reader_queue[s])
    /\ current_read_packet' = [current_read_packet EXCEPT ![s] = NULL]
    /\ current_write_packet' = [current_write_packet EXCEPT ![s] = "none"]
    /\ UNCHANGED reader_queue

ShutdownStream(s, n) ==
    /\ free_packets' = free_packets + n
    /\ reader_queue' = [reader_queue EXCEPT ![s] = <<>>]
    /\ current_read_packet' = [current_read_packet EXCEPT ![s] = NULL]
    /\ current_write_packet' = [current_write_packet EXCEPT ![s] = "none"]

\* mutant: the request id stays taken
ReleaseKeepsId(s, n) ==
    /\ ShutdownStream(s, n)
    /\ active_request_streams_cnt' = active_request_streams_cnt - 1
    /\ worker' = [worker EXCEPT ![s] = NoWorker]
    /\ UNCHANGED <<active_request_streams, request_streams_stop_event>>

\* mutant: the last release does not set the event
ReleaseSilently(s, n) ==
    /\ ShutdownStream(s, n)
    /\ active_request_streams' =
         Restrict(active_request_streams, ActiveIds \ {worker[s].id})
    /\ active_request_streams_cnt' = active_request_streams_cnt - 1
    /\ worker' = [worker EXCEPT ![s] = NoWorker]
    /\ UNCHANGED request_streams_stop_event

ReleaseRequestStream(s, n) ==
    /\ ShutdownStream(s, n)
    /\ active_request_streams' =
         Restrict(active_request_streams, ActiveIds \ {worker[s].id})
    /\ active_request_streams_cnt' = active_request_streams_cnt - 1
    /\ request_streams_stop_event' =
         IF active_request_streams_cnt - 1 = 0 THEN TRUE
                                               ELSE request_streams_stop_event
    /\ worker' = [worker EXCEPT ![s] = NoWorker]

NextPacket(s) == Head(reader_queue[s])

WantedTypes(s) == IF current_read_packet[s] = NULL THEN {"START", "SINGLE"}
                                                   ELSE {"MIDDLE", "END"}

CanRead(s) == worker[s].pc = "read" /\ reader_queue[s] # <<>>

\* a packet that is not the last one of the request
ReadPacket(s) ==
    /\ CanRead(s)
    /\ NextPacket(s).type \in WantedTypes(s) \cap {"START", "MIDDLE"}
    /\ reader_queue' = [reader_queue EXCEPT ![s] = Tail(@)]
    /\ current_read_packet' = [current_read_packet EXCEPT ![s] = NextPacket(s)]
    /\ free_packets' = IF current_read_packet[s] = NULL THEN free_packets
                                                        ELSE free_packets + 1
    /\ UNCHANGED <<stateVars, poolVars, current_write_packet, worker, readerVars,
                   writerVars, clientVars, wireVars, writer_queue, unflushed>>

\* the last one: the service is called and the response is to be written
ReadLastPacket(s) ==
    /\ CanRead(s)
    /\ NextPacket(s).type \in WantedTypes(s) \cap {"SINGLE", "END"}
    /\ NextPacket(s).call # 0
    /\ reader_queue' = [reader_queue EXCEPT ![s] = Tail(@)]
    /\ current_read_packet' = [current_read_packet EXCEPT ![s] = NextPacket(s)]
    /\ free_packets' = IF current_read_packet[s] = NULL THEN free_packets
                                                        ELSE free_packets + 1
    /\ \E k \in 1 .. MaxResponsePackets :
         worker' = [worker EXCEPT ![s].pc = "write_first", ![s].left = k,
                                  ![s].call = NextPacket(s).call]
    /\ UNCHANGED <<stateVars, poolVars, current_write_packet, readerVars,
                   writerVars, clientVars, wireVars, writer_queue, unflushed>>

\* the handler fails: a packet of the wrong type, data still missing after the
\* last packet, or parameters that cannot be unserialized; or, in the middle of
\* the response, a parameter that cannot be serialized
RequestFails(s) ==
    /\ CanRead(s) \/ worker[s].pc = "write"
    /\ StopAsync
    /\ ReleaseRequestStream(s, HeldPackets(s))
    /\ UNCHANGED <<readerVars, writerVars, clientVars, wireVars, writer_queue,
                   unflushed>>

\* no packet for READ_TIMEOUT
ReadTimeout(s) ==
    /\ ReadsTimeOut
    /\ worker[s].pc = "read"
    /\ reader_queue[s] = <<>>
    /\ StopAsync
    /\ ReleaseRequestStream(s, HeldPackets(s))
    /\ UNCHANGED <<readerVars, writerVars, clientVars, wireVars, writer_queue,
                   unflushed>>

\* the wait of mrpc_packet_stream_write for a packet ends
GetWritePacket(s) ==
    /\ worker[s].pc \in {"write_first", "write_next"}
    /\ free_packets > 0
    /\ free_packets' = free_packets - 1
    /\ current_write_packet' = [current_write_packet EXCEPT ![s] =
         IF worker[s].pc = "write_first" THEN "START" ELSE "MIDDLE"]
    /\ worker' = [worker EXCEPT ![s].pc = "write"]
    /\ UNCHANGED <<stateVars, poolVars, reader_queue, current_read_packet,
                   readerVars, writerVars, clientVars, wireVars, writer_queue,
                   unflushed>>

\* mutant: a full packet is taken for the last one
FullIsLast(s) == IF current_write_packet[s] = "START" THEN "SINGLE" ELSE "END"

\* the type with which mrpc_packet_stream_write queues a full packet
FullPacketType(s) == current_write_packet[s]

\* mrpc_packet_stream_write: the current packet is full, the next one is
\* acquired
WritePacket(s) ==
    /\ worker[s].pc = "write"
    /\ worker[s].left > 1
    /\ writer_queue' = Append(writer_queue,
         Packet(worker[s].id, FullPacketType(s), worker[s].call))
    /\ \/ /\ free_packets > 0
          /\ free_packets' = free_packets - 1
          /\ current_write_packet' = [current_write_packet EXCEPT ![s] = "MIDDLE"]
          /\ worker' = [worker EXCEPT ![s].left = @ - 1]
       \/ /\ free_packets = 0
          /\ current_write_packet' = [current_write_packet EXCEPT ![s] = "none"]
          /\ worker' = [worker EXCEPT ![s].left = @ - 1, ![s].pc = "write_next"]
          /\ UNCHANGED free_packets
    /\ UNCHANGED <<stateVars, poolVars, reader_queue, current_read_packet,
                   readerVars, writerVars, clientVars, wireVars, unflushed>>

(***************************************************************************)
(* mrpc_packet_stream_flush queues the packet and acquires another one.    *)
(* If it gets that without waiting, the handler returns and the stream is  *)
(* released in the same step; the packet queued is not given back.         *)
(***************************************************************************)
Flush(s) ==
    /\ worker[s].pc = "write"
    /\ worker[s].left = 1
    /\ writer_queue' = Append(writer_queue, Packet(worker[s].id,
         IF current_write_packet[s] = "START" THEN "SINGLE" ELSE "END",
         worker[s].call))
    /\ \/ /\ free_packets > 0
          /\ ReleaseRequestStream(s, HeldPackets(s) - 1)
       \/ /\ free_packets = 0
          /\ current_write_packet' = [current_write_packet EXCEPT ![s] = "none"]
          /\ worker' = [worker EXCEPT ![s].pc = "flush_end"]
          /\ UNCHANGED <<poolVars, reader_queue, current_read_packet, free_packets>>
    /\ UNCHANGED <<stateVars, readerVars, writerVars, clientVars, wireVars,
                   unflushed>>

\* its wait for the other packet ends, and the handler returns
FlushEnds(s) ==
    /\ worker[s].pc = "flush_end"
    /\ free_packets > 0
    /\ ReleaseRequestStream(s, HeldPackets(s))
    /\ UNCHANGED <<stateVars, readerVars, writerVars, clientVars, wireVars,
                   writer_queue, unflushed>>

WorkerGoesOn(s) ==
    \/ ReadPacket(s) \/ ReadLastPacket(s) \/ RequestFails(s)
    \/ GetWritePacket(s) \/ WritePacket(s) \/ Flush(s) \/ FlushEnds(s)

-----------------------------------------------------------------------------
(***************************************************************************)
(* stream_reader_func                                                      *)
(***************************************************************************)
ReaderAcquirePacket ==
    /\ reader = "acquire"
    /\ free_packets > 0
    /\ free_packets' = free_packets - 1
    /\ reader' = "read"
    /\ UNCHANGED <<stateVars, poolVars, streamVars, disconnecting, connections,
                   writerVars, clientVars, wireVars, writer_queue, unflushed>>

\* mutant: the event is not reset
AcquireKeepsEvent(i, s) ==
    /\ active_request_streams' =
         [j \in ActiveIds \cup {i} |-> IF j = i THEN s ELSE active_request_streams[j]]
    /\ active_request_streams_cnt' = active_request_streams_cnt + 1
    /\ worker' = [worker EXCEPT ![s] =
         [pc |-> "read", id |-> i, call |-> 0, left |-> 0]]
    /\ UNCHANGED request_streams_stop_event

\* acquire_request_stream gets stream s for request id i, and the worker starts
AcquireRequestStream(i, s) ==
    /\ active_request_streams' =
         [j \in ActiveIds \cup {i} |-> IF j = i THEN s ELSE active_request_streams[j]]
    /\ active_request_streams_cnt' = active_request_streams_cnt + 1
    /\ request_streams_stop_event' =
         IF active_request_streams_cnt + 1 = 1 THEN FALSE
                                               ELSE request_streams_stop_event
    /\ worker' = [worker EXCEPT ![s] =
         [pc |-> "read", id |-> i, call |-> 0, left |-> 0]]

StartsRequest(p) == p.type \in {"START", "SINGLE"}

\* the first packet of a request must find its id free, any other packet its
\* stream; else the connection ends
Misplaced(p) == StartsRequest(p) <=> p.id \in ActiveIds

ReaderReadPacket ==
    LET p == Head(inbound) IN
    /\ reader = "read"
    /\ link # "closed"
    /\ inbound # <<>>
    /\ inbound' = Tail(inbound)
    /\ \/ /\ ~Misplaced(p)
          /\ StartsRequest(p)
          /\ \E s \in FreeStreams :
               /\ AcquireRequestStream(p.id, s)
               /\ reader_queue' = [reader_queue EXCEPT ![s] = Append(@, p)]
          /\ reader' = "acquire"
          /\ UNCHANGED <<stateVars, free_packets>>
       \/ /\ ~Misplaced(p)
          /\ ~StartsRequest(p)
          /\ reader_queue' =
               [reader_queue EXCEPT ![active_request_streams[p.id]] = Append(@, p)]
          /\ reader' = "acquire"
          /\ UNCHANGED <<stateVars, poolVars, worker, free_packets>>
       \/ /\ Misplaced(p)
          /\ free_packets' = free_packets + 1
          /\ reader' = "stop_all"
          /\ StopAsync
          /\ UNCHANGED <<poolVars, worker, reader_queue>>
    /\ UNCHANGED <<current_read_packet, current_write_packet, disconnecting,
                   connections, writerVars, clientVars, outbound, writer_queue,
                   unflushed>>

\* mutant: the packet acquired for the read is not released
ReaderFailsLeaksPacket ==
    /\ reader = "read"
    /\ link # "up"
    /\ reader' = "stop_all"
    /\ StopAsync
    /\ UNCHANGED <<poolVars, streamVars, disconnecting, connections, writerVars,
                   clientVars, wireVars, writer_queue, unflushed, free_packets>>

\* mrpc_packet_read_from_stream fails
ReaderFails ==
    /\ reader = "read"
    /\ link # "up"
    /\ free_packets' = free_packets + 1
    /\ reader' = "stop_all"
    /\ StopAsync
    /\ UNCHANGED <<poolVars, streamVars, disconnecting, connections, writerVars,
                   clientVars, wireVars, writer_queue, unflushed>>

\* the ids the loop of stop_all_request_streams finds active from first on
ActiveFrom(first) == {i \in ActiveIds : i >= first}

(***************************************************************************)
(* The loop of stop_all_request_streams from index first on, with the      *)
(* streams of captured already chosen.  mrpc_packet_stream_disconnect puts *)
(* an END packet without data into the reader queue.  The loop runs        *)
(* without a break until the packets run out: then it waits for a packet   *)
(* for the stream it has just looked up.                                   *)
(***************************************************************************)
Disconnected == Packet(0, "END", 0)

DisconnectFrom(first, captured) ==
    LET todo == ActiveFrom(first)
        room == free_packets - Cardinality(captured)
    IN  \E served \in SUBSET todo :
          /\ \A i \in served : \A j \in todo : j < i => j \in served
          /\ \/ served = todo /\ Cardinality(served) <= room
             \/ served # todo /\ Cardinality(served) = room
          /\ free_packets' = room - Cardinality(served)
          /\ reader_queue' = [s \in Streams |->
               IF s \in captured \cup {active_request_streams[i] : i \in served}
                 THEN Append(reader_queue[s], Disconnected)
                 ELSE reader_queue[s]]
          /\ IF served = todo
               THEN reader' = "wait_streams" /\ disconnecting' = {}
               ELSE LET i == Min(todo \ served) IN
                    /\ reader' = "disconnect"
                    /\ disconnecting' = {<<i, active_request_streams[i]>>}

StopAllRequestStreams ==
    /\ \/ /\ reader = "stop_all"
          /\ DisconnectFrom(0, {})
       \/ /\ reader = "disconnect"
          /\ free_packets > 0
          /\ \E d \in disconnecting : DisconnectFrom(d[1] + 1, {d[2]})
    /\ UNCHANGED <<stateVars, poolVars, current_read_packet,
                   current_write_packet, worker, connections, writerVars,
                   clientVars, wireVars, writer_queue, unflushed>>

\* the wait for request_streams_stop_event ends; stop_stream_writer
StopStreamWriter ==
    /\ reader = "wait_streams"
    /\ request_streams_stop_event
    /\ Len(writer_queue) < MaxPackets
    /\ request_streams_stop_event' = FALSE
    /\ writer_queue' = Append(writer_queue, NULL)
    /\ reader' = "wait_writer"
    /\ UNCHANGED <<stateVars, active_request_streams, active_request_streams_cnt,
                   streamVars, disconnecting, connections, writerVars,
                   clientVars, wireVars, free_packets, unflushed>>

\* the wait for writer_stop_event ends; the connection is deleted and the
\* processor goes back to the server's pool.  What was on the wire is lost.
ReaderEnds ==
    /\ reader = "wait_writer"
    /\ writer_stop_event
    /\ writer_stop_event' = FALSE
    /\ state' = "STOPPED"
    /\ link' = "none"
    /\ reader' = "none"
    /\ unflushed' = <<>>
    /\ inbound' = <<>>
    /\ outbound' = <<>>
    /\ client' = [i \in RequestIds |-> UnusedId]
    /\ UNCHANGED <<poolVars, streamVars, disconnecting, connections, writer,
                   writing, requests, garbage, writer_queue, free_packets>>

ReaderStep ==
    \/ ReaderStarts \/ ReaderAcquirePacket \/ ReaderReadPacket \/ ReaderFails
    \/ StopAllRequestStreams \/ StopStreamWriter \/ ReaderEnds

-----------------------------------------------------------------------------
(***************************************************************************)
(* stream_writer_func                                                      *)
(***************************************************************************)

\* the NULL packet ends the fiber
WriterGetPacket ==
    /\ writer = "get"
    /\ writer_queue # <<>>
    /\ writer_queue' = Tail(writer_queue)
    /\ writing' = Head(writer_queue)
    /\ IF Head(writer_queue) = NULL
         THEN writer' = "none" /\ writer_stop_event' = TRUE
         ELSE writer' = "write" /\ UNCHANGED writer_stop_event
    /\ UNCHANGED <<stateVars, poolVars, streamVars, readerVars, clientVars,
                   wireVars, free_packets, unflushed>>

\* mutant: no flush once the queue is empty
GetAfterWrite == "get"

\* the stream is flushed when no other packet waits
AfterWrite == IF writer_queue = <<>> THEN "flush" ELSE "get"

\* mrpc_packet_write_to_stream, which fails only once the connection is broken
WriterWritePacket ==
    /\ writer = "write"
    /\ free_packets' = free_packets + 1
    /\ writing' = NULL
    /\ \/ /\ unflushed' = Append(unflushed, writing)
          /\ writer' = AfterWrite
          /\ UNCHANGED stateVars
       \/ /\ link # "up"
          /\ writer' = "skip"
          /\ StopAsync
          /\ UNCHANGED unflushed
    /\ UNCHANGED <<poolVars, streamVars, readerVars, writer_stop_event,
                   clientVars, wireVars, writer_queue>>

\* ff_stream_flush
WriterFlush ==
    /\ writer = "flush"
    /\ \/ /\ outbound' = IF link = "up" THEN outbound \o unflushed ELSE outbound
          /\ unflushed' = <<>>
          /\ writer' = "get"
          /\ UNCHANGED stateVars
       \/ /\ link # "up"
          /\ writer' = "skip"
          /\ StopAsync
          /\ UNCHANGED <<outbound, unflushed>>
    /\ UNCHANGED <<poolVars, streamVars, readerVars, writing, writer_stop_event,
                   clientVars, inbound, writer_queue, free_packets>>

\* skip_writer_queue_packets
WriterSkipPacket ==
    /\ writer = "skip"
    /\ writer_queue # <<>>
    /\ writer_queue' = Tail(writer_queue)
    /\ IF Head(writer_queue) = NULL
         THEN /\ writer' = "none"
              /\ writer_stop_event' = TRUE
              /\ UNCHANGED free_packets
         ELSE /\ free_packets' = free_packets + 1
              /\ UNCHANGED <<writer, writer_stop_event>>
    /\ UNCHANGED <<stateVars, poolVars, streamVars, readerVars, writing,
                   clientVars, wireVars, unflushed>>

WriterStep ==
    WriterGetPacket \/ WriterWritePacket \/ WriterFlush \/ WriterSkipPacket

-----------------------------------------------------------------------------
(***************************************************************************)
(* External: the connection and the client                                 *)
(***************************************************************************)
LinkBreaks ==
    /\ link = "up"
    /\ link' = "down"
    /\ UNCHANGED <<state, poolVars, streamVars, readerVars, writerVars,
                   clientVars, wireVars, writer_queue, free_packets, unflushed>>

TypeOfNth(n, size) ==
    IF size = 1 THEN "SINGLE"
    ELSE IF n = 1 THEN "START" ELSE IF n = size THEN "END" ELSE "MIDDLE"

\* a request begins with an id that is not in use
ClientBegins(i) ==
    /\ link = "up"
    /\ client[i] = UnusedId
    /\ requests < MaxRequests
    /\ requests' = requests + 1
    /\ \E k \in 1 .. MaxRequestPackets :
         client' = [client EXCEPT ![i] = [call |-> requests + 1, size |-> k, left |-> k]]
    /\ UNCHANGED <<stateVars, poolVars, streamVars, readerVars, writerVars,
                   wireVars, garbage, writer_queue, free_packets, unflushed>>

ClientSends(i) ==
    /\ link = "up"
    /\ client[i].left > 0
    /\ inbound' = Append(inbound, Packet(i,
         TypeOfNth(client[i].size - client[i].left + 1, client[i].size),
         client[i].call))
    /\ client' = [client EXCEPT ![i].left = @ - 1]
    /\ UNCHANGED <<stateVars, poolVars, streamVars, readerVars, writerVars,
                   requests, garbage, outbound, writer_queue, free_packets,
                   unflushed>>

\* the last packet of a response frees the id
ClientReceives ==
    LET p == Head(outbound) IN
    /\ link = "up"
    /\ outbound # <<>>
    /\ outbound' = Tail(outbound)
    /\ client' = IF p.type \in {"SINGLE", "END"}
                   THEN [client EXCEPT ![p.id] = UnusedId] ELSE client
    /\ UNCHANGED <<stateVars, poolVars, streamVars, readerVars, writerVars,
                   requests, garbage, inbound, writer_queue, free_packets,
                   unflushed>>

\* a faulty client: an empty packet of any type for any id
ClientSendsGarbage ==
    /\ link = "up"
    /\ garbage < MaxGarbage
    /\ garbage' = garbage + 1
    /\ \E i \in RequestIds, t \in PacketTypes :
         inbound' = Append(inbound, Packet(i, t, 0))
    /\ UNCHANGED <<stateVars, poolVars, streamVars, readerVars, writerVars,
                   client, requests, outbound, writer_queue, free_packets,
                   unflushed>>

\* nothing is left to do within the bounds of the instance
Terminated ==
    /\ state = "STOPPED"
    /\ connections = MaxConnections
    /\ UNCHANGED vars

Next ==
    \/ Start \/ StopRequested \/ ReaderStep \/ WriterStep
    \/ \E s \in Streams : WorkerGoesOn(s) \/ ReadTimeout(s)
    \/ LinkBreaks \/ ClientReceives \/ ClientSendsGarbage
    \/ \E i \in RequestIds : ClientBegins(i) \/ ClientSends(i)
    \/ Terminated

Spec == Init /\ [][Next]_vars

(***************************************************************************)
(* Fairness: runnable fibers run.  Nothing is asked of the network, of the *)
(* server's application or of timeouts; ClientFairness is the part of a    *)
(* client that finishes what it has begun.                                 *)
(***************************************************************************)
FiberFairness ==
    /\ WF_vars(ReaderStep)
    /\ WF_vars(WriterStep)
    /\ \A s \in Streams : WF_vars(WorkerGoesOn(s))

ClientFairness ==
    /\ WF_vars(ClientReceives)
    /\ \A i \in RequestIds : WF_vars(ClientSends(i))

FairSpec == Spec /\ FiberFairness /\ ClientFairness

-----------------------------------------------------------------------------
(***************************************************************************)
(* Properties                                                              *)
(***************************************************************************)

\* The types of the state.
TypeOK ==
    /\ state \in {"STOPPED", "WORKING", "STOP_INITIATED"}
    /\ link \in {"none", "up", "down", "closed"}
    /\ ActiveIds \subseteq RequestIds
    /\ Range(active_request_streams) \subseteq Streams
    /\ active_request_streams_cnt \in 0 .. MaxStreams
    /\ request_streams_stop_event \in BOOLEAN
    /\ writer_stop_event \in BOOLEAN
    /\ writer_queue \in Seq(Packets \cup {NULL})
    /\ free_packets \in Nat
    /\ reader_queue \in [Streams -> Seq(Packets)]
    /\ current_read_packet \in [Streams -> Packets \cup {NULL}]
    /\ current_write_packet \in [Streams -> {"none", "START", "MIDDLE"}]
    /\ worker \in [Streams -> Workers]
    /\ reader \in {"none", "start", "acquire", "read", "stop_all", "disconnect",
                   "wait_streams", "wait_writer"}
    /\ disconnecting \subseteq RequestIds \X Streams
    /\ connections \in 0 .. MaxConnections
    /\ writer \in {"none", "get", "write", "flush", "skip"}
    /\ writing \in Packets \cup {NULL}
    /\ unflushed \in Seq(Packets) /\ inbound \in Seq(Packets)
    /\ outbound \in Seq(Packets)
    /\ client \in [RequestIds -> ClientRecords]
    /\ requests \in 0 .. MaxRequests /\ garbage \in 0 .. MaxGarbage

\* A stream works for at most one request id and an active id has exactly one
\* stream with a worker of its own; the counter counts them.  So while an id is
\* free, the pool has a stream for it: the reader fiber never waits for one.
StreamsHeldOnce ==
    /\ active_request_streams_cnt = Cardinality(ActiveIds)
    /\ \A s \in Streams : worker[s].pc # "none" <=> s \notin FreeStreams
    /\ \A i \in ActiveIds : worker[active_request_streams[i]].id = i

\* where the packets of the pool are: one element for each packet
StreamPackets == UNION {{s} \X (1 .. HeldPackets(s)) : s \in Streams}
QueuedPackets == {k \in 1 .. Len(writer_queue) : writer_queue[k] # NULL}

\* Every packet of the pool is in exactly one place: free, in a queue, or held
\* by a stream, the reader fiber or the writer fiber.  No path - a request cut
\* off, a response that fails half written, disconnect, skip - loses one.
PacketsConserved ==
    free_packets + Cardinality(StreamPackets) + Cardinality(QueuedPackets)
      + (IF reader = "read" THEN 1 ELSE 0)
      + (IF writing = NULL THEN 0 ELSE 1) = MaxPackets

\* A stopped processor is ready for the next connection: no fiber is left, no
\* id is taken, no event is set, the queue is empty (the assertions of the
\* start and delete functions), and no stream keeps data of a request: all a
\* stream of the pool can hold is the END packet of a disconnect that waited
\* for a packet while the stream was released.
StoppedMeansStopped ==
    state = "STOPPED" =>
        /\ reader = "none" /\ writer = "none"
        /\ ActiveIds = {}
        /\ ~request_streams_stop_event /\ ~writer_stop_event
        /\ writer_queue = <<>>
        /\ \A s \in Streams :
             /\ worker[s].pc = "none"
             /\ current_read_packet[s] = NULL /\ current_write_packet[s] = "none"
             /\ Range(reader_queue[s]) \subseteq {Disconnected}

\* A worker sees the data of one request only, although streams and request
\* ids are used again by later requests and connections.
RequestsDontMix ==
    \A s \in Streams :
        \A p, q \in Range(reader_queue[s]) \cup {current_read_packet[s]} :
            p.call # 0 /\ q.call # 0 => p.call = q.call

\* While the connection is up, whatever part of a response is on its way to
\* the client belongs to the request for which the client uses the id now.
ResponsesMatch ==
    link = "up" =>
        \A p \in (Range(writer_queue) \cup {writing} \cup Range(unflushed)
                    \cup Range(outbound)) \ {NULL} :
            client[p.id].call = p.call

\* "If the worker will block on the flush, then the server can receive new
\* request with the request_id ... which will lead to client-server connection
\* termination.  However ... it is safe to set writer_queue's size to
\* MAX_PACKETS_CNT": a correct client, which uses an id again only after the
\* whole response, is never cut off for it.  With 2 * MAX_REQUEST_STREAMS_CNT
\* packets it may be: the queue has room, but the flush then waits for another
\* packet before the worker ends.
CorrectClientNotDropped ==
    reader = "read" /\ link = "up" /\ inbound # <<>> /\ Misplaced(Head(inbound))
        => garbage > 0

\* That wait is the only way: a correct client is cut off only for an id whose
\* worker waits in mrpc_packet_stream_flush for the packet it will not use.
\* In every other step of reading, answering and releasing the id is free by
\* the time the client can use it again.
DroppedOnlyInFlush ==
    reader = "read" /\ link = "up" /\ inbound # <<>> /\ Misplaced(Head(inbound))
      /\ garbage = 0 =>
        LET i == Head(inbound).id IN
        i \in ActiveIds /\ worker[active_request_streams[i]].pc = "flush_end"

\* "In order to avoid deadlocks this number must be not less than
\* (2 * MAX_REQUEST_STREAMS_CNT)": a stop that has begun completes, without help
\* from timeouts or the client.  With 2 * MAX_REQUEST_STREAMS_CNT packets it may
\* not.
StopCompletes == (state = "STOP_INITIATED") ~> (state = "STOPPED")

\* The pool of packets is the only thing a stop can hang on: unless it stays
\* empty for ever, a stop that has begun completes - no event is missed, the
\* writer fiber gets its NULL packet, every disconnected worker ends - without
\* help from timeouts or the client.
StopCompletesUnlessStarved == []<>(free_packets > 0) => StopCompletes

\* Every request of a correct client is answered, unless the connection breaks
\* first: workers, reader fiber and writer fiber never wait for each other's
\* packets.
RequestsAnswered ==
    \A i \in RequestIds :
        (client[i] # UnusedId) ~> (client[i] = UnusedId \/ link # "up")
=============================================================================
