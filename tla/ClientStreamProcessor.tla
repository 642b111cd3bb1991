------------------------ MODULE ClientStreamProcessor ------------------------
(***************************************************************************)
(* struct mrpc_client_stream_processor with its request streams, its       *)
(* packet pool and the fibers that share them:                             *)
(*   - the reader fiber, which runs ..._process_stream for one connection  *)
(*     after another;                                                      *)
(*   - the writer fiber stream_writer_func of the current connection;      *)
(*   - the callers: fibers that run a client method generated by the       *)
(*     interface compiler (create a request stream, write the request,     *)
(*     flush, read the response, reset the connection if anything failed,  *)
(*     delete the stream).                                                 *)
(* The remote server, the connection and the ff_* library are external:    *)
(* they do what the code can observe of them.                              *)
(*                                                                         *)
(* Fibers are scheduled cooperatively, so a step is what a fiber does      *)
(* between two calls that can block.  A packet is (request id, type, call  *)
(* whose data it carries); call 0 stands for a packet without data.        *)
(***************************************************************************)
EXTENDS Integers, Sequences, FiniteSets, FiniteSetsExt, Functions

CONSTANTS
    MaxStreams,             \* MAX_REQUEST_STREAMS_CNT
    MaxPackets,             \* MAX_PACKETS_CNT
    Callers,                \* fibers that make rpc calls
    MaxCalls,               \* bound on the number of calls
    MaxConnections,         \* bound on the number of connections
    MaxRequestPackets,      \* bound on the packets of a request
    MaxResponsePackets,     \* bound on the packets of a response
    MaxGarbage,             \* bound on packets no correct server sends
    ReadsTimeOut            \* FALSE: nobody waits as long as READ_TIMEOUT

ASSUME ClientAssumption ==
    /\ MaxStreams \in Nat \ {0}
    /\ MaxPackets \in Nat \ {0}
    /\ MaxCalls \in Nat
    /\ MaxConnections \in Nat
    /\ MaxRequestPackets \in Nat \ {0}
    /\ MaxResponsePackets \in Nat \ {0}
    /\ MaxGarbage \in Nat
    /\ ReadsTimeOut \in BOOLEAN

VARIABLES
    state,                        \* enum client_stream_processor_state
    active_request_streams,       \* the request ids whose slot is not NULL
    active_request_streams_cnt,
    request_streams_stop_event,   \* set or not
    writer_stop_event,            \* set or not
    writer_queue,
    free_packets,                 \* entries left in packets_pool
    reader_queue,                 \* of each request stream
    current_read_packet,          \* of each request stream
    current_write_packet,         \* of each request stream: its type or "none"
    reader,                       \* where the reader fiber is
    disconnecting,                \* the stream it waits for a packet for
    writer,                       \* where the writer fiber is
    writing,                      \* the packet the writer fiber holds
    caller,                       \* what each caller does
    calls,                        \* calls started so far
    connections,                  \* connections made so far
    link,                         \* stream_processor->stream
    unflushed,                    \* packets in the stream's write buffer
    outbound, inbound,            \* packets on the wire
    responses,                    \* what the server has still to send, per id
    garbage                       \* packets sent that no correct server sends

poolVars     == <<active_request_streams, active_request_streams_cnt,
                  request_streams_stop_event>>
streamVars   == <<reader_queue, current_read_packet, current_write_packet>>
readerVars   == <<reader, disconnecting, connections>>
writerVars   == <<writer, writing, writer_stop_event>>
callerVars   == <<caller, calls>>
peerVars     == <<outbound, inbound, responses, garbage>>
stateVars    == <<state, link>>
vars == <<stateVars, poolVars, streamVars, readerVars, writerVars, callerVars,
          peerVars, writer_queue, free_packets, unflushed>>

-----------------------------------------------------------------------------
(***************************************************************************)
(* Data                                                                    *)
(***************************************************************************)
RequestIds == 0 .. MaxStreams - 1

PacketTypes == {"START", "MIDDLE", "END", "SINGLE"}

Packets == [id : RequestIds, type : PacketTypes, call : 0 .. MaxCalls]

Packet(s, t, n) == [id |-> s, type |-> t, call |-> n]

\* the NULL pointer: no packet, and the last entry of a writer queue
NULL == [id |-> 0, type |-> "NULL", call |-> 0]

States == {"STOPPED", "WORKING", "STOP_INITIATED"}

ReaderStates == {"idle", "acquire", "read", "stop_all", "disconnect",
                 "wait_streams", "stop_writer", "wait_writer"}

WriterStates == {"none", "get", "write", "flush", "skip"}

\* "pool", "write_first", "write_next" and "flush_end" are waits for an entry
\* of a pool; the others are calls of the generated client method.
CallerStates == {"idle", "pool", "write_first", "write", "write_next",
                 "flush_end", "read"}

\* a caller's stream, its call, the request packets it has yet to queue and
\* the connection on which it asked for the stream
CallerRecords ==
    [pc : CallerStates, stream : RequestIds, call : 0 .. MaxCalls,
     left : 0 .. MaxRequestPackets, connection : 0 .. MaxConnections]

IdleCaller == [pc |-> "idle", stream |-> 0, call |-> 0, left |-> 0,
               connection |-> 0]

HasStream(c) == caller[c].pc \notin {"idle", "pool"}

Message(s, n, k) ==
    [i \in 1 .. k |->
        Packet(s, IF k = 1 THEN "SINGLE"
                  ELSE IF i = 1 THEN "START"
                  ELSE IF i = k THEN "END" ELSE "MIDDLE", n)]

-----------------------------------------------------------------------------
(***************************************************************************)
(* mrpc_client_stream_processor_create, with nothing connected yet         *)
(***************************************************************************)
Init ==
    /\ state = "STOPPED"
    /\ link = "none"
    /\ active_request_streams = {}
    /\ active_request_streams_cnt = 0
    /\ request_streams_stop_event = FALSE
    /\ writer_stop_event = FALSE
    /\ writer_queue = <<>>
    /\ free_packets = MaxPackets
    /\ reader_queue = [s \in RequestIds |-> <<>>]
    /\ current_read_packet = [s \in RequestIds |-> NULL]
    /\ current_write_packet = [s \in RequestIds |-> "none"]
    /\ reader = "idle"
    /\ disconnecting = 0
    /\ connections = 0
    /\ writer = "none"
    /\ writing = NULL
    /\ caller = [c \in Callers |-> IdleCaller]
    /\ calls = 0
    /\ unflushed = <<>>
    /\ outbound = <<>>
    /\ inbound = <<>>
    /\ responses = [s \in RequestIds |-> <<>>]
    /\ garbage = 0

(***************************************************************************)
(* mrpc_client_stream_processor_stop_async                                 *)
(***************************************************************************)

\* mutant: the connection is not disconnected
StopAsyncKeepsLink ==
    /\ state' = "STOP_INITIATED"
    /\ UNCHANGED link

StopAsync ==
    /\ state' = "STOP_INITIATED"
    /\ link' = IF state = "WORKING" THEN "closed" ELSE link

\* any fiber: mrpc_client_reset_connection or mrpc_client_stop
StopRequested ==
    /\ state # "STOP_INITIATED"
    /\ StopAsync
    /\ UNCHANGED <<poolVars, streamVars, readerVars, writerVars, callerVars,
                   peerVars, writer_queue, free_packets, unflushed>>

-----------------------------------------------------------------------------
(***************************************************************************)
(* Callers                                                                 *)
(***************************************************************************)

\* mutant: the stream is not counted
AcquireUncounted(c, s) ==
    /\ active_request_streams' = active_request_streams \cup {s}
    /\ request_streams_stop_event' = FALSE
    /\ UNCHANGED active_request_streams_cnt

\* mutant: the stop event is not reset
AcquireKeepsEvent(c, s) ==
    /\ active_request_streams' = active_request_streams \cup {s}
    /\ active_request_streams_cnt' = active_request_streams_cnt + 1
    /\ UNCHANGED request_streams_stop_event

\* acquire_request_stream once the pool has given it stream s.  The reset of
\* the event comes too late for a reader fiber the event has already woken.
AcquireRequestStream(c, s) ==
    /\ active_request_streams' = active_request_streams \cup {s}
    /\ active_request_streams_cnt' = active_request_streams_cnt + 1
    /\ request_streams_stop_event' =
         (request_streams_stop_event
            /\ (active_request_streams_cnt + 1 = 1 => reader = "wait_streams"))

\* mrpc_client_stream_processor_create_request_stream in the working state;
\* in the other states it returns NULL and changes nothing
CreateRequestStream(c) ==
    /\ caller[c].pc = "idle"
    /\ state = "WORKING"
    /\ calls < MaxCalls
    /\ calls' = calls + 1
    /\ \E k \in 1 .. MaxRequestPackets :
         \/ /\ active_request_streams = RequestIds
            /\ caller' = [caller EXCEPT ![c] =
                 [pc |-> "pool", stream |-> 0, call |-> calls + 1, left |-> k,
                  connection |-> connections]]
            /\ UNCHANGED poolVars
         \/ \E s \in RequestIds \ active_request_streams :
              /\ AcquireRequestStream(c, s)
              /\ caller' = [caller EXCEPT ![c] =
                   [pc |-> "write_first", stream |-> s, call |-> calls + 1,
                    left |-> k, connection |-> connections]]
    /\ UNCHANGED <<stateVars, streamVars, readerVars, writerVars, peerVars,
                   writer_queue, free_packets, unflushed>>

\* the wait in ff_pool_acquire_entry(request_streams_pool) ends; the state is
\* not looked at again
GetPooledStream(c) ==
    /\ caller[c].pc = "pool"
    /\ \E s \in RequestIds \ active_request_streams :
         /\ AcquireRequestStream(c, s)
         /\ caller' = [caller EXCEPT ![c].pc = "write_first", ![c].stream = s]
    /\ UNCHANGED <<stateVars, streamVars, readerVars, writerVars, calls,
                   peerVars, writer_queue, free_packets, unflushed>>

\* acquire_packet for the current write packet, when a packet is free
GetWritePacket(c) ==
    LET s == caller[c].stream
        type == CASE caller[c].pc = "write_first" -> "START"
                  [] caller[c].pc = "write_next" -> "MIDDLE"
                  [] caller[c].pc = "flush_end" -> "END"
                  [] OTHER -> "none"
    IN  /\ type # "none"
        /\ free_packets > 0
        /\ free_packets' = free_packets - 1
        /\ current_write_packet' = [current_write_packet EXCEPT ![s] = type]
        /\ caller' = [caller EXCEPT ![c].pc =
                        IF type = "END" THEN "read" ELSE "write"]
        /\ UNCHANGED <<stateVars, poolVars, reader_queue, current_read_packet,
                       readerVars, writerVars, calls, peerVars, writer_queue,
                       unflushed>>

\* the caller puts its write packet into the writer queue with type t and goes
\* on to acquire one of type u, waiting at pc w if the pool is empty
QueueWritePacket(c, t, u, w, next) ==
    LET s == caller[c].stream IN
    /\ writer_queue' = Append(writer_queue, Packet(s, t, caller[c].call))
    /\ IF free_packets > 0
         THEN /\ free_packets' = free_packets - 1
              /\ current_write_packet' = [current_write_packet EXCEPT ![s] = u]
              /\ caller' = [caller EXCEPT ![c].pc = next, ![c].left = @ - 1]
         ELSE /\ UNCHANGED free_packets
              /\ current_write_packet' = [current_write_packet EXCEPT ![s] = "none"]
              /\ caller' = [caller EXCEPT ![c].pc = w, ![c].left = @ - 1]
    /\ UNCHANGED <<stateVars, poolVars, reader_queue, current_read_packet,
                   readerVars, writerVars, calls, peerVars, unflushed>>

\* mrpc_packet_stream_write: the current packet is full
WritePacket(c) ==
    /\ caller[c].pc = "write"
    /\ caller[c].left > 1
    /\ QueueWritePacket(c, current_write_packet[caller[c].stream],
                        "MIDDLE", "write_next", "write")

\* mrpc_packet_stream_flush
Flush(c) ==
    /\ caller[c].pc = "write"
    /\ caller[c].left = 1
    /\ QueueWritePacket(c,
         IF current_write_packet[caller[c].stream] = "START" THEN "SINGLE" ELSE "END",
         "END", "flush_end", "read")

(***************************************************************************)
(* Reading the response, and what a generated method does at its end       *)
(* without another call that blocks: it resets the connection if a read    *)
(* failed, and deletes the stream.                                         *)
(***************************************************************************)
NextPacket(c) == Head(reader_queue[caller[c].stream])

WantedTypes(c) ==
    IF current_read_packet[caller[c].stream] = NULL THEN {"START", "SINGLE"}
                                                    ELSE {"MIDDLE", "END"}

CanRead(c) == caller[c].pc = "read" /\ reader_queue[caller[c].stream] # <<>>

\* packets the stream gives back in mrpc_packet_stream_shutdown
HeldPackets(s) ==
    Len(reader_queue[s])
      + (IF current_write_packet[s] = "none" THEN 0 ELSE 1)
      + (IF current_read_packet[s] = NULL THEN 0 ELSE 1)

\* mutant: the reader queue is not cleared
ShutdownKeepsQueue(s) ==
    /\ free_packets' = free_packets + HeldPackets(s) - Len(reader_queue[s])
    /\ current_write_packet' = [current_write_packet EXCEPT ![s] = "none"]
    /\ current_read_packet' = [current_read_packet EXCEPT ![s] = NULL]
    /\ UNCHANGED reader_queue

\* mrpc_packet_stream_shutdown
ShutdownStream(s) ==
    /\ free_packets' = free_packets + HeldPackets(s)
    /\ current_write_packet' = [current_write_packet EXCEPT ![s] = "none"]
    /\ current_read_packet' = [current_read_packet EXCEPT ![s] = NULL]
    /\ reader_queue' = [reader_queue EXCEPT ![s] = <<>>]

\* mutant: the stream is not given back to the pool
ReleaseLosesStream(c) ==
    /\ ShutdownStream(caller[c].stream)
    /\ caller' = [caller EXCEPT ![c] = IdleCaller]
    /\ UNCHANGED poolVars

\* mutant: the last release does not set the event
ReleaseSilently(c) ==
    /\ ShutdownStream(caller[c].stream)
    /\ active_request_streams' = active_request_streams \ {caller[c].stream}
    /\ active_request_streams_cnt' = active_request_streams_cnt - 1
    /\ caller' = [caller EXCEPT ![c] = IdleCaller]
    /\ UNCHANGED request_streams_stop_event

\* release_request_stream
ReleaseRequestStream(c) ==
    LET s == caller[c].stream IN
    /\ ShutdownStream(s)
    /\ active_request_streams' = active_request_streams \ {s}
    /\ active_request_streams_cnt' = active_request_streams_cnt - 1
    /\ request_streams_stop_event' =
         IF active_request_streams_cnt - 1 = 0 THEN TRUE
                                               ELSE request_streams_stop_event
    /\ caller' = [caller EXCEPT ![c] = IdleCaller]

\* mrpc_packet_stream_read gets a packet and needs the next one: the packet
\* read before is released
ReadPacket(c) ==
    LET s == caller[c].stream IN
    /\ CanRead(c)
    /\ NextPacket(c).type \in WantedTypes(c) \cap {"START", "MIDDLE"}
    /\ reader_queue' = [reader_queue EXCEPT ![s] = Tail(@)]
    /\ current_read_packet' = [current_read_packet EXCEPT ![s] = NextPacket(c)]
    /\ free_packets' = IF current_read_packet[s] = NULL THEN free_packets
                                                        ELSE free_packets + 1
    /\ UNCHANGED <<stateVars, poolVars, current_write_packet, readerVars,
                   writerVars, callerVars, peerVars, writer_queue, unflushed>>

\* the last packet holds the rest of the response
CallSucceeds(c) ==
    /\ CanRead(c)
    /\ NextPacket(c).type \in WantedTypes(c) \cap {"SINGLE", "END"}
    /\ NextPacket(c).call # 0
    /\ ReleaseRequestStream(c)
    /\ UNCHANGED <<stateVars, readerVars, writerVars, calls, peerVars,
                   writer_queue, unflushed>>

\* a packet of the wrong type, data still missing after the last packet, or
\* parameters that cannot be unserialized; or, in the middle of the request, a
\* parameter that cannot be serialized
CallFails(c) ==
    /\ CanRead(c) \/ caller[c].pc = "write"
    /\ StopAsync
    /\ ReleaseRequestStream(c)
    /\ UNCHANGED <<readerVars, writerVars, calls, peerVars, writer_queue,
                   unflushed>>

\* no packet for READ_TIMEOUT
ReadTimeout(c) ==
    /\ ReadsTimeOut
    /\ caller[c].pc = "read"
    /\ reader_queue[caller[c].stream] = <<>>
    /\ StopAsync
    /\ ReleaseRequestStream(c)
    /\ UNCHANGED <<readerVars, writerVars, calls, peerVars, writer_queue,
                   unflushed>>

CallerStep(c) ==
    \/ CreateRequestStream(c) \/ GetPooledStream(c) \/ GetWritePacket(c)
    \/ WritePacket(c) \/ Flush(c) \/ ReadPacket(c) \/ CallSucceeds(c)
    \/ CallFails(c) \/ ReadTimeout(c)

-----------------------------------------------------------------------------
(***************************************************************************)
(* The reader fiber: mrpc_client_stream_processor_process_stream           *)
(***************************************************************************)

\* main_client_func has a new connection
ProcessStream ==
    /\ reader = "idle"
    /\ connections < MaxConnections
    /\ connections' = connections + 1
    /\ \/ /\ state = "STOP_INITIATED"      \* instructed to stop beforehand
          /\ state' = "STOPPED"
          /\ UNCHANGED <<link, reader, writer, request_streams_stop_event>>
       \/ /\ state = "STOPPED"
          /\ state' = "WORKING"
          /\ link' = "up"
          /\ writer' = "get"
          /\ request_streams_stop_event' = TRUE
          /\ reader' = "acquire"
    /\ unflushed' = <<>>
    /\ outbound' = <<>>
    /\ inbound' = <<>>
    /\ responses' = [s \in RequestIds |-> <<>>]
    /\ UNCHANGED <<active_request_streams, active_request_streams_cnt,
                   streamVars, disconnecting, writing, writer_stop_event,
                   callerVars, garbage, writer_queue, free_packets>>

ReaderAcquirePacket ==
    /\ reader = "acquire"
    /\ free_packets > 0
    /\ free_packets' = free_packets - 1
    /\ reader' = "read"
    /\ UNCHANGED <<stateVars, poolVars, streamVars, disconnecting, connections,
                   writerVars, callerVars, peerVars, writer_queue, unflushed>>

\* a packet arrives: it is pushed to its request stream; a packet for an id
\* that is not active ends the connection
ReaderReadPacket ==
    LET p == Head(inbound) IN
    /\ reader = "read"
    /\ link # "closed"
    /\ inbound # <<>>
    /\ inbound' = Tail(inbound)
    /\ \/ /\ p.id \in active_request_streams
          /\ reader_queue' = [reader_queue EXCEPT ![p.id] = Append(@, p)]
          /\ reader' = "acquire"
          /\ UNCHANGED <<free_packets, stateVars>>
       \/ /\ p.id \notin active_request_streams
          /\ free_packets' = free_packets + 1
          /\ reader' = "stop_all"
          /\ StopAsync
          /\ UNCHANGED reader_queue
    /\ UNCHANGED <<poolVars, current_read_packet, current_write_packet,
                   disconnecting, connections, writerVars, callerVars,
                   outbound, responses, garbage, writer_queue, unflushed>>

\* mutant: the packet acquired for the read is not released
ReaderFailsLeaksPacket ==
    /\ reader = "read"
    /\ link # "up"
    /\ reader' = "stop_all"
    /\ StopAsync
    /\ UNCHANGED <<poolVars, streamVars, disconnecting, connections, writerVars,
                   callerVars, peerVars, writer_queue, unflushed, free_packets>>

\* mrpc_packet_read_from_stream fails
ReaderFails ==
    /\ reader = "read"
    /\ link # "up"
    /\ free_packets' = free_packets + 1
    /\ reader' = "stop_all"
    /\ StopAsync
    /\ UNCHANGED <<poolVars, streamVars, disconnecting, connections,
                   writerVars, callerVars, peerVars, writer_queue, unflushed>>

\* the streams the loop of stop_all_request_streams finds from index first on
ActiveFrom(first) == {s \in active_request_streams : s >= first}

(***************************************************************************)
(* The loop of stop_all_request_streams from index first on, with the      *)
(* streams of captured already chosen.  mrpc_packet_stream_disconnect puts *)
(* an END packet without data into the reader queue.  The loop runs        *)
(* without a break until the packets run out: then it waits for a packet   *)
(* for the stream it has just looked up.  At the end of the loop an event  *)
(* that is set lets the fiber go on to stop_stream_writer at once.         *)
(***************************************************************************)
DisconnectFrom(first, captured) ==
    LET todo == ActiveFrom(first)
        room == free_packets - Cardinality(captured)
    IN  \E served \in SUBSET todo :
          /\ \A s \in served : \A t \in todo : t < s => t \in served
          /\ \/ served = todo /\ Cardinality(served) <= room
             \/ served # todo /\ Cardinality(served) = room
          /\ free_packets' = room - Cardinality(served)
          /\ reader_queue' = [s \in RequestIds |->
               IF s \in served \cup captured
                 THEN Append(reader_queue[s], Packet(s, "END", 0))
                 ELSE reader_queue[s]]
          /\ IF served = todo
               THEN /\ reader' = IF request_streams_stop_event THEN "stop_writer"
                                                               ELSE "wait_streams"
                    /\ UNCHANGED disconnecting
               ELSE reader' = "disconnect" /\ disconnecting' = Min(todo \ served)

StopAllRequestStreams ==
    /\ \/ /\ reader = "stop_all"
          /\ DisconnectFrom(0, {})
       \/ /\ reader = "disconnect"
          /\ free_packets > 0
          /\ DisconnectFrom(disconnecting + 1, {disconnecting})
    /\ UNCHANGED <<stateVars, poolVars, current_read_packet,
                   current_write_packet, connections, writerVars, callerVars,
                   peerVars, writer_queue, unflushed>>

\* mutant: the wait for the streams is left out
StopStreamWriterAtOnce ==
    /\ reader \in {"stop_writer", "wait_streams"}
    /\ Len(writer_queue) < MaxPackets
    /\ request_streams_stop_event' = FALSE
    /\ writer_queue' = Append(writer_queue, NULL)
    /\ reader' = "wait_writer"
    /\ UNCHANGED <<stateVars, active_request_streams, streamVars,
                   active_request_streams_cnt, disconnecting, connections,
                   writerVars, callerVars, peerVars, free_packets, unflushed>>

\* the wait for request_streams_stop_event is over; stop_stream_writer
StopStreamWriter ==
    /\ \/ reader = "stop_writer"
       \/ reader = "wait_streams" /\ request_streams_stop_event
    /\ Len(writer_queue) < MaxPackets
    /\ request_streams_stop_event' = FALSE
    /\ writer_queue' = Append(writer_queue, NULL)
    /\ reader' = "wait_writer"
    /\ UNCHANGED <<stateVars, active_request_streams, streamVars,
                   active_request_streams_cnt, disconnecting, connections,
                   writerVars, callerVars, peerVars, free_packets, unflushed>>

\* the wait for writer_stop_event ends; main_client_func deletes the stream
ProcessStreamReturns ==
    /\ reader = "wait_writer"
    /\ writer_stop_event
    /\ writer_stop_event' = FALSE
    /\ state' = "STOPPED"
    /\ link' = "none"
    /\ reader' = "idle"
    /\ UNCHANGED <<poolVars, streamVars, disconnecting, connections, writer,
                   writing, callerVars, peerVars, writer_queue, free_packets,
                   unflushed>>

ReaderStep ==
    \/ ProcessStream \/ ReaderAcquirePacket \/ ReaderReadPacket \/ ReaderFails
    \/ StopAllRequestStreams \/ StopStreamWriter \/ ProcessStreamReturns

-----------------------------------------------------------------------------
(***************************************************************************)
(* The writer fiber: stream_writer_func                                    *)
(***************************************************************************)

\* the NULL packet ends the fiber
WriterGetPacket ==
    /\ writer = "get"
    /\ writer_queue # <<>>
    /\ writer_queue' = Tail(writer_queue)
    /\ writing' = Head(writer_queue)
    /\ IF Head(writer_queue) = NULL
         THEN writer' = "none" /\ writer_stop_event' = TRUE
         ELSE writer' = "write" /\ UNCHANGED writer_stop_event
    /\ UNCHANGED <<stateVars, poolVars, streamVars, readerVars, callerVars,
                   peerVars, free_packets, unflushed>>

\* mutant: no flush once the queue is empty
GetAfterWrite == "get"

\* the stream is flushed when no other packet waits
AfterWrite == IF writer_queue = <<>> THEN "flush" ELSE "get"

\* mrpc_packet_write_to_stream, which may fail only once the connection is
\* broken
WriterWritePacket ==
    /\ writer = "write"
    /\ free_packets' = free_packets + 1
    /\ writing' = NULL
    /\ \/ /\ unflushed' = Append(unflushed, writing)
          /\ writer' = AfterWrite
          /\ UNCHANGED stateVars
       \/ /\ link # "up"
          /\ writer' = "skip"
          /\ StopAsync
          /\ UNCHANGED unflushed
    /\ UNCHANGED <<poolVars, streamVars, readerVars, writer_stop_event,
                   callerVars, peerVars, writer_queue>>

\* ff_stream_flush
WriterFlush ==
    /\ writer = "flush"
    /\ \/ /\ outbound' = IF link = "up" THEN outbound \o unflushed ELSE outbound
          /\ unflushed' = <<>>
          /\ writer' = "get"
          /\ UNCHANGED stateVars
       \/ /\ link # "up"
          /\ writer' = "skip"
          /\ StopAsync
          /\ UNCHANGED <<outbound, unflushed>>
    /\ UNCHANGED <<poolVars, streamVars, readerVars, writing, writer_stop_event,
                   callerVars, inbound, responses, garbage, writer_queue,
                   free_packets>>

\* skip_writer_queue_packets
WriterSkipPacket ==
    /\ writer = "skip"
    /\ writer_queue # <<>>
    /\ writer_queue' = Tail(writer_queue)
    /\ IF Head(writer_queue) = NULL
         THEN /\ writer' = "none"
              /\ writer_stop_event' = TRUE
              /\ UNCHANGED free_packets
         ELSE /\ free_packets' = free_packets + 1
              /\ UNCHANGED <<writer, writer_stop_event>>
    /\ UNCHANGED <<stateVars, poolVars, streamVars, readerVars, writing,
                   callerVars, peerVars, unflushed>>

WriterStep ==
    WriterGetPacket \/ WriterWritePacket \/ WriterFlush \/ WriterSkipPacket

-----------------------------------------------------------------------------
(***************************************************************************)
(* External: the connection and the server                                 *)
(***************************************************************************)

\* the server or the network closes the connection
LinkBreaks ==
    /\ link = "up"
    /\ link' = "down"
    /\ UNCHANGED <<state, poolVars, streamVars, readerVars, writerVars,
                   callerVars, peerVars, writer_queue, free_packets, unflushed>>

\* the server reads a packet; the last one of a request decides the response
ServerReceives ==
    LET p == Head(outbound) IN
    /\ link = "up"
    /\ outbound # <<>>
    /\ outbound' = Tail(outbound)
    /\ IF p.type \in {"SINGLE", "END"}
         THEN \E k \in 1 .. MaxResponsePackets :
                responses' = [responses EXCEPT ![p.id] =
                                @ \o Message(p.id, p.call, k)]
         ELSE UNCHANGED responses
    /\ UNCHANGED <<stateVars, poolVars, streamVars, readerVars, writerVars,
                   callerVars, inbound, garbage, writer_queue, free_packets,
                   unflushed>>

ServerSends(s) ==
    /\ link = "up"
    /\ responses[s] # <<>>
    /\ inbound' = Append(inbound, Head(responses[s]))
    /\ responses' = [responses EXCEPT ![s] = Tail(@)]
    /\ UNCHANGED <<stateVars, poolVars, streamVars, readerVars, writerVars,
                   callerVars, outbound, garbage, writer_queue, free_packets,
                   unflushed>>

\* a faulty server: an empty packet of any type for any id
ServerSendsGarbage ==
    /\ link = "up"
    /\ garbage < MaxGarbage
    /\ garbage' = garbage + 1
    /\ \E s \in RequestIds, t \in PacketTypes :
         inbound' = Append(inbound, Packet(s, t, 0))
    /\ UNCHANGED <<stateVars, poolVars, streamVars, readerVars, writerVars,
                   callerVars, outbound, responses, writer_queue, free_packets,
                   unflushed>>

ServerStep ==
    ServerReceives \/ (\E s \in RequestIds : ServerSends(s)) \/ ServerSendsGarbage

\* nothing is left to do within the bounds of the instance
Terminated ==
    /\ reader = "idle"
    /\ connections = MaxConnections
    /\ state = "STOP_INITIATED"
    /\ \A c \in Callers : caller[c].pc = "idle"
    /\ UNCHANGED vars

Next ==
    \/ \E c \in Callers : CallerStep(c)
    \/ ReaderStep
    \/ WriterStep
    \/ ServerStep
    \/ LinkBreaks
    \/ StopRequested
    \/ Terminated

Spec == Init /\ [][Next]_vars

-----------------------------------------------------------------------------
(***************************************************************************)
(* Fairness.  Runnable fibers run: the scheduler of the fiber library      *)
(* leaves nobody waiting whose event, queue or pool lets it go on.  A      *)
(* caller need not start a call, the server need not answer, and a read    *)
(* that has nothing to read ends after READ_TIMEOUT.                       *)
(***************************************************************************)
CallerGoesOn(c) ==
    \/ GetPooledStream(c) \/ GetWritePacket(c) \/ WritePacket(c) \/ Flush(c)
    \/ ReadPacket(c) \/ CallSucceeds(c) \/ CallFails(c)

FiberFairness ==
    /\ WF_vars(ReaderAcquirePacket \/ ReaderReadPacket \/ ReaderFails
                \/ StopAllRequestStreams \/ StopStreamWriter
                \/ ProcessStreamReturns)
    /\ WF_vars(WriterStep)
    /\ \A c \in Callers : WF_vars(CallerGoesOn(c))

FairSpec == Spec /\ FiberFairness

\* the same with timeouts that strike
TimeoutSpec == FairSpec /\ \A c \in Callers : WF_vars(ReadTimeout(c))

-----------------------------------------------------------------------------
(***************************************************************************)
(* Properties                                                              *)
(***************************************************************************)

\* The types of the state.  The counter of active streams stays within the
\* size of the pool, so the assertions of acquire_request_stream and
\* release_request_stream on it hold.
TypeOK ==
    /\ state \in States
    /\ link \in {"none", "up", "down", "closed"}
    /\ active_request_streams \subseteq RequestIds
    /\ active_request_streams_cnt \in 0 .. MaxStreams
    /\ request_streams_stop_event \in BOOLEAN
    /\ writer_stop_event \in BOOLEAN
    /\ writer_queue \in Seq(Packets \cup {NULL})
    /\ free_packets \in Nat
    /\ reader_queue \in [RequestIds -> Seq(Packets)]
    /\ current_read_packet \in [RequestIds -> Packets \cup {NULL}]
    /\ current_write_packet \in [RequestIds -> {"none", "START", "MIDDLE", "END"}]
    /\ reader \in ReaderStates
    /\ disconnecting \in RequestIds
    /\ connections \in 0 .. MaxConnections
    /\ writer \in WriterStates
    /\ writing \in Packets \cup {NULL}
    /\ caller \in [Callers -> CallerRecords]
    /\ calls \in 0 .. MaxCalls
    /\ unflushed \in Seq(Packets)
    /\ outbound \in Seq(Packets)
    /\ inbound \in Seq(Packets)
    /\ responses \in [RequestIds -> Seq(Packets)]
    /\ garbage \in 0 .. MaxGarbage

\* active_request_streams_cnt counts the active streams, and every active
\* stream is held by exactly one caller: a stream is never handed to two
\* fibers (acquire_request_stream, release_request_stream).
StreamsHeldOnce ==
    /\ active_request_streams_cnt = Cardinality(active_request_streams)
    /\ active_request_streams = {caller[c].stream : c \in {d \in Callers : HasStream(d)}}
    /\ \A c, d \in Callers :
         HasStream(c) /\ HasStream(d) /\ caller[c].stream = caller[d].stream => c = d

\* The event the stop waits for tells the truth: it is set only while no
\* stream is active, and the last release is never missed - a reader fiber
\* that waits without active streams finds it set, although acquiring,
\* releasing, waiting and starting a connection all write it.
StopEventTruthful ==
    /\ request_streams_stop_event => active_request_streams = {}
    /\ reader = "wait_streams" /\ active_request_streams = {}
         => request_streams_stop_event

\* No fiber is about to run into a failing ff_assert: the assertions on entry
\* to process_stream and in stop_async (no active stream), after the wait of
\* stop_all_request_streams (no active stream), of stream_writer_func and
\* skip_writer_queue_packets on the NULL packet (the last one of the queue, and
\* the state is STOP_INITIATED), and of acquire_client_packet,
\* release_client_packet and release_request_stream (not STOPPED).  The program
\* ends where one fails; what the model does after such a state is what a build
\* without assertions would do.  It holds as long as there are no more callers
\* than streams: a caller that waits for a stream can get it after all this.
AssertionsHold ==
    /\ reader = "idle" => active_request_streams_cnt = 0 /\ state # "WORKING"
    /\ reader = "wait_streams" /\ request_streams_stop_event =>
         active_request_streams_cnt = 0
    /\ writer \in {"get", "skip"} /\ writer_queue # <<>> =>
         (Head(writer_queue) = NULL =>
            Len(writer_queue) = 1 /\ state = "STOP_INITIATED")
    /\ writer # "none" \/ (\E c \in Callers : HasStream(c)) => state # "STOPPED"

\* The NULL packet that ends the writer fiber is the last one of the queue
\* (the two assertions of the writer fiber): nobody can queue a packet after
\* stop_stream_writer, because no stream is active.  This needs as many streams
\* as callers: one that waits for a stream may get it after the NULL packet.
SentinelLast ==
    \A i \in 1 .. Len(writer_queue) :
        writer_queue[i] = NULL => /\ i = Len(writer_queue)
                                  /\ state = "STOP_INITIATED"
                                  /\ active_request_streams = {}

\* How the reader fiber, the writer fiber, the state and the stop event go
\* together while no caller waits for a stream: the invariant behind the two
\* properties above and behind StreamsOfThisConnection.  The writer fiber
\* exists exactly while a connection is processed and has not yet announced
\* its end, and the assertions of process_stream on entry hold.
FibersAgree ==
    /\ reader = "idle" => /\ state # "WORKING"
                          /\ active_request_streams = {}
    /\ reader # "idle" => state # "STOPPED"
    /\ reader \notin {"idle", "acquire", "read"} => state = "STOP_INITIATED"
    /\ reader \in {"stop_writer", "wait_writer"} => active_request_streams = {}
    /\ request_streams_stop_event <=>
         active_request_streams = {} /\ reader \notin {"idle", "wait_writer"}
    /\ writer = "none" <=> reader = "idle" \/ writer_stop_event
    /\ writer_stop_event => reader = "wait_writer"
    /\ writer = "none" => writer_queue = <<>>
    /\ \A i \in 1 .. Len(writer_queue) :
         writer_queue[i] = NULL => i = Len(writer_queue) /\ reader = "wait_writer"
    /\ reader = "wait_writer" /\ writer # "none" =>
         writer_queue # <<>> /\ writer_queue[Len(writer_queue)] = NULL

\* The stream processor is what struct mrpc_client takes it for, as long as no
\* caller waits for a stream: streams are handed out only in the working state,
\* and process_stream returns only when all have been given back.
Lifecycle == INSTANCE StreamProcessorLifecycle WITH
    Streams <- RequestIds,
    processing <- reader # "idle",
    active <- active_request_streams

ImplementsLifecycle == Lifecycle!Spec

\* where the packets of the pool are: one element for each packet
StreamPackets == UNION {{s} \X (1 .. HeldPackets(s)) : s \in RequestIds}
QueuedPackets == {i \in 1 .. Len(writer_queue) : writer_queue[i] # NULL}
ReaderPackets == IF reader = "read" THEN 1 ELSE 0
WriterPackets == IF writing = NULL THEN 0 ELSE 1

\* Every packet of the pool is in exactly one place: free, in a queue, or
\* held by a stream, the reader fiber or the writer fiber.  No path - wrong
\* type, timeout, disconnect, skip, shutdown - loses or frees one twice.
PacketsConserved ==
    free_packets + Cardinality(StreamPackets) + Cardinality(QueuedPackets)
      + ReaderPackets + WriterPackets = MaxPackets

\* A stream that waits in the pool holds no packet with data: whatever call used
\* it and however it ended - in the middle of writing too - nothing of it is
\* left for the next one.  All that can be there is the END packet of a
\* disconnect that waited for a packet while the stream was deleted.
PooledStreamsHoldNoData ==
    \A s \in RequestIds \ active_request_streams :
        /\ Range(reader_queue[s]) \subseteq {Packet(s, "END", 0)}
        /\ current_read_packet[s] = NULL
        /\ current_write_packet[s] = "none"

\* "After the stream has been shutted down, it can be initialized again": a
\* stream that waits in the pool holds no packet of an earlier call.  This does
\* not hold when the reader fiber waits for a packet in the middle of
\* mrpc_packet_stream_disconnect while the stream is deleted.
PooledStreamsClean ==
    \A s \in RequestIds \ active_request_streams :
        /\ reader_queue[s] = <<>>
        /\ current_read_packet[s] = NULL
        /\ current_write_packet[s] = "none"

\* A caller reads data of its own call only, although request ids are reused
\* by later calls and later connections.
OwnDataOnly ==
    \A c \in Callers : HasStream(c) =>
        LET s == caller[c].stream IN
        \A p \in Range(reader_queue[s]) \cup {current_read_packet[s]} :
            p.call \in {0, caller[c].call}

\* While the connection is up the server never answers nobody: whatever part
\* of a response is still to be sent or read, its stream is active and still
\* belongs to the call that asked.  (So a packet for an inactive id is a
\* protocol error, and ending the connection over it is right.)
ResponsesHaveOwner ==
    link = "up" =>
        \A s \in RequestIds :
            \A p \in Range(responses[s]) \cup {q \in Range(inbound) : q.id = s} :
                p.call # 0 => \E c \in Callers : /\ HasStream(c)
                                                 /\ caller[c].stream = s
                                                 /\ caller[c].call = p.call

\* A stream never outlives the connection it was created on.  This is why a
\* caller that resets the connection after a failure stops the connection
\* that failed it and never the next one.
StreamsOfThisConnection ==
    \A c \in Callers : HasStream(c) => /\ caller[c].connection = connections
                                       /\ reader # "idle"

\* The writer fiber never goes to sleep on an empty queue with data still in
\* the stream's buffer: the deadlock the comment in stream_writer_func
\* describes cannot happen.
NothingLeftUnflushed ==
    writer = "get" /\ writer_queue = <<>> => unflushed = <<>>

\* "cannot create request stream, because it is stopped or its stop process is
\* initiated": a stream becomes active only while the processor works, the
\* assertion of create_request_stream_wrapper.  This does not hold when there
\* are more callers than streams: the state is tested before the wait in
\* ff_pool_acquire_entry and not after it.
NoStreamWhileStopping ==
    [][active_request_streams \subseteq active_request_streams'
         /\ active_request_streams # active_request_streams'
         => state = "WORKING"]_vars

\* "In order to avoid deadlocks this number must be not less than
\* (2 * MAX_REQUEST_STREAMS_CNT)": a stop that has begun completes, without help
\* from timeouts or the server.  With 2 * MAX_REQUEST_STREAMS_CNT packets it may
\* not: each stream can hold a packet to read and one to write.
StopCompletes ==
    (state = "STOP_INITIATED" /\ reader # "idle") ~> (state = "STOPPED")

\* Every call that has a stream, or waits for one, ends.
CallsEnd ==
    \A c \in Callers : (caller[c].pc # "idle") ~> (caller[c].pc = "idle")

\* behaviours in which no assertion fails and the pool of packets does not stay
\* empty for ever
KeepsGoing == []AssertionsHold /\ []<>(free_packets > 0)

\* The packets are the only thing a stop can hang on: unless an assertion fails
\* or the pool stays empty for ever, a stop that has begun completes - no event
\* is missed, the writer fiber gets its NULL packet, every disconnected caller
\* gives up its stream.  It may take READ_TIMEOUT: a caller that gets its stream
\* from the pool behind the back of stop_all_request_streams is not disconnected.
StopCompletesUnlessStarved == KeepsGoing => StopCompletes

\* The same for calls, also for those that wait for a stream: unless an
\* assertion fails or the pool stays empty for ever, every call ends - in the
\* middle of writing, in a read nobody answers - once reads time out.
CallsEndUnlessStarved == KeepsGoing => CallsEnd
=============================================================================
