---------------------------- MODULE PacketStream ----------------------------
(***************************************************************************)
(* struct mrpc_packet_stream: a message is cut into packets by the writing *)
(* stream and put together again by the reading stream at the other end of *)
(* the connection.  In between, the writer fiber of one stream processor   *)
(* and the reader fiber of the other carry the packets in order; the       *)
(* connection may end, and then the reading stream is disconnected.        *)
(*                                                                         *)
(* A packet is its type and the bytes not yet read from it; byte i of the  *)
(* message is the number i.                                                *)
(***************************************************************************)
EXTENDS Integers, Sequences, SequencesExt

CONSTANTS
    MaxPacketSize,          \* MAX_PACKET_SIZE
    MaxBytes,               \* bound on the length of a message
    MaxLen                  \* bound on the len of a read or a write

ASSUME PacketStreamAssumption ==
    /\ MaxPacketSize \in Nat \ {0}
    /\ MaxBytes \in Nat
    /\ MaxLen \in Nat

VARIABLES
    current_write_packet,   \* of the writing stream
    to_write,               \* bytes the current write has yet to store
    written,                \* bytes stored into packets
    writer_queue,           \* packets on their way to the reading stream
    reader_queue,           \* of the reading stream
    current_read_packet,    \* of the reading stream
    pc,                     \* "idle", "prefetch" or "next": in the read
    left,                   \* bytes the current read has yet to get
    result,                 \* of the current or the last read
    received,               \* bytes read so far
    disconnected            \* mrpc_packet_stream_disconnect has been called

writeVars == <<current_write_packet, to_write, written>>
readVars  == <<current_read_packet, pc, left, result, received>>
vars == <<writeVars, readVars, writer_queue, reader_queue, disconnected>>

NULL == [type |-> "NULL", data |-> <<>>]

Packet(type) == [type |-> type, data |-> <<>>]

Least(a, b) == IF a < b THEN a ELSE b

BytesFrom(first, n) == [i \in 1 .. n |-> first + i]

(***************************************************************************)
(* mrpc_packet_stream_create and mrpc_packet_stream_initialize             *)
(***************************************************************************)
Init ==
    /\ current_write_packet = NULL
    /\ to_write = 0
    /\ written = 0
    /\ writer_queue = <<>>
    /\ reader_queue = <<>>
    /\ current_read_packet = NULL
    /\ pc = "idle"
    /\ left = 0
    /\ result = "none"
    /\ received = <<>>
    /\ disconnected = FALSE

-----------------------------------------------------------------------------
(***************************************************************************)
(* The writing stream                                                      *)
(***************************************************************************)

\* after the flush there is a write packet, but no more writing
Flushed == current_write_packet.type = "END"

\* the bytes mrpc_packet_write_data can still store into a packet
BytesLeft(packet) == MaxPacketSize - Len(packet.data)

\* mrpc_packet_stream_write is called
StartWrite ==
    /\ to_write = 0
    /\ ~Flushed
    /\ \E len \in 0 .. Least(MaxLen, MaxBytes - written) : to_write' = len
    /\ current_write_packet' =
         IF current_write_packet = NULL THEN Packet("START")
                                        ELSE current_write_packet
    /\ UNCHANGED <<written, readVars, writer_queue, reader_queue, disconnected>>

\* mutant: a packet is queued as soon as it is full
QueuedWhenFull(n) == to_write >= n

\* after n more bytes have been stored there are still some left
NeedsNextPacket(n) == to_write > n

\* one iteration of its loop: store what fits; if bytes are left, put the
\* packet into the writer queue and acquire the next one
WriteData ==
    LET n == Least(to_write, BytesLeft(current_write_packet))
        filled == [current_write_packet EXCEPT !.data = @ \o BytesFrom(written, n)]
    IN  /\ to_write > 0
        /\ to_write' = to_write - n
        /\ written' = written + n
        /\ IF NeedsNextPacket(n)
             THEN /\ writer_queue' = Append(writer_queue, filled)
                  /\ current_write_packet' = Packet("MIDDLE")
             ELSE /\ current_write_packet' = filled
                  /\ UNCHANGED writer_queue
        /\ UNCHANGED <<readVars, reader_queue, disconnected>>

\* mutant: the type of the only packet is not changed to SINGLE
AlwaysEnd(type) == "END"

LastType(type) == IF type = "START" THEN "SINGLE" ELSE "END"

\* mrpc_packet_stream_flush, after at least one write and never again
Flush ==
    /\ to_write = 0
    /\ current_write_packet # NULL
    /\ ~Flushed
    /\ writer_queue' = Append(writer_queue,
         [current_write_packet EXCEPT !.type = LastType(current_write_packet.type)])
    /\ current_write_packet' = Packet("END")
    /\ UNCHANGED <<to_write, written, readVars, reader_queue, disconnected>>

(***************************************************************************)
(* Between the streams: the writer fiber takes a packet from the queue and *)
(* writes it to the connection, the reader fiber of the peer reads it and  *)
(* calls mrpc_packet_stream_push_packet.                                   *)
(***************************************************************************)
PushPacket ==
    /\ ~disconnected
    /\ writer_queue # <<>>
    /\ reader_queue' = Append(reader_queue, Head(writer_queue))
    /\ writer_queue' = Tail(writer_queue)
    /\ UNCHANGED <<writeVars, readVars, disconnected>>

\* mrpc_packet_stream_disconnect, called once, when the peer's reader fiber
\* has stopped
Disconnect ==
    /\ ~disconnected
    /\ disconnected' = TRUE
    /\ reader_queue' = Append(reader_queue, Packet("END"))
    /\ UNCHANGED <<writeVars, readVars, writer_queue>>

-----------------------------------------------------------------------------
(***************************************************************************)
(* The reading stream: mrpc_packet_stream_read                             *)
(***************************************************************************)

\* mutant: the read goes on after the last packet
NeverFinal(type) == FALSE

IsFinal(type) == type \in {"SINGLE", "END"}

\* what is left in a packet after mrpc_packet_read_data has read k bytes
RestOf(data, k) == SubSeq(data, k + 1, Len(data))

\* the loop with a packet at hand and n bytes to get: copy what there is, then
\* return, fail, or wait for the next packet
CopyFrom(packet, n) ==
    LET k == Least(n, Len(packet.data))
    IN  /\ received' = received \o SubSeq(packet.data, 1, k)
        /\ current_read_packet' = [packet EXCEPT !.data = RestOf(@, k)]
        /\ left' = n - k
        /\ \/ n = k /\ pc' = "idle" /\ result' = "success"
           \/ n > k /\ IsFinal(packet.type) /\ pc' = "idle" /\ result' = "failure"
           \/ n > k /\ ~IsFinal(packet.type) /\ pc' = "next" /\ result' = "reading"

StartRead ==
    /\ pc = "idle"
    /\ \E len \in 0 .. MaxLen :
         \/ /\ current_read_packet = NULL
            /\ pc' = "prefetch" /\ left' = len /\ result' = "reading"
            /\ UNCHANGED <<current_read_packet, received>>
         \/ /\ current_read_packet # NULL
            /\ CopyFrom(current_read_packet, len)
    /\ UNCHANGED <<writeVars, writer_queue, reader_queue, disconnected>>

\* the types that are right at each of the two waits for a packet
RightTypes(at) == IF at = "prefetch" THEN {"START", "SINGLE"} ELSE {"MIDDLE", "END"}

\* the wait ends with a packet
GetPacket ==
    LET packet == Head(reader_queue) IN
    /\ pc # "idle"
    /\ reader_queue # <<>>
    /\ reader_queue' = Tail(reader_queue)
    /\ \/ /\ packet.type \in RightTypes(pc)
          /\ CopyFrom(packet, left)
       \/ /\ packet.type \notin RightTypes(pc)
          /\ pc' = "idle" /\ result' = "failure"
          /\ UNCHANGED <<current_read_packet, left, received>>
    /\ UNCHANGED <<writeVars, writer_queue, disconnected>>

\* the wait ends after READ_TIMEOUT
ReadTimeout ==
    /\ pc # "idle"
    /\ reader_queue = <<>>
    /\ pc' = "idle" /\ result' = "failure"
    /\ UNCHANGED <<writeVars, current_read_packet, left, received, writer_queue,
                   reader_queue, disconnected>>

Next ==
    \/ StartWrite \/ WriteData \/ Flush
    \/ PushPacket \/ Disconnect
    \/ StartRead \/ GetPacket \/ ReadTimeout

Spec == Init /\ [][Next]_vars

\* A started write goes on, and packets get through unless the stream is
\* disconnected.  Neither a flush nor a timeout has to come.
FairSpec == Spec /\ WF_vars(WriteData) /\ WF_vars(PushPacket) /\ WF_vars(GetPacket)

-----------------------------------------------------------------------------
(***************************************************************************)
(* Properties                                                              *)
(***************************************************************************)

\* The types of the state.  No packet ever holds more bytes than its buffer
\* has (the assertions of mrpc_packet_write_data and mrpc_packet_read_data).
TypeOK ==
    LET packets == Range(writer_queue) \cup Range(reader_queue)
                     \cup {current_write_packet, current_read_packet}
    IN  /\ \A p \in packets :
             /\ p.type \in {"NULL", "START", "MIDDLE", "END", "SINGLE"}
             /\ Len(p.data) <= MaxPacketSize
        /\ to_write \in 0 .. MaxLen /\ written \in 0 .. MaxBytes
        /\ pc \in {"idle", "prefetch", "next"}
        /\ left \in 0 .. MaxLen
        /\ result \in {"none", "reading", "success", "failure"}
        /\ received \in Seq(1 .. MaxBytes)
        /\ disconnected \in BOOLEAN

\* the bytes that wait at the reading stream, and those between the streams
Unread ==
    current_read_packet.data
      \o FlattenSeq([i \in 1 .. Len(reader_queue) |-> reader_queue[i].data])
\* Who has read all bytes of a message has also taken its last packet: none of
\* its packets can turn up later.  This is why a stream may be deleted, and its
\* request id used for the next request, as soon as the last parameter has been
\* read.  (A message has at least one byte: the generated code writes a method
\* id first, and an empty byte when a method returns nothing.)
NothingBehind ==
    Flushed /\ written > 0 /\ Len(received) = written =>
        /\ writer_queue = <<>>
        /\ disconnected \/ reader_queue = <<>>

\* The packet streams implement the byte stream of module ByteStream.
Bytes == INSTANCE ByteStream WITH
    finished <- Flushed,
    pushed <- Len(received) + Len(Unread),
    cut <- disconnected

ImplementsByteStream == Bytes!Spec

\* A read of a message that has been flushed ends without the help of a
\* timeout, also when it asks for more bytes than the message has.
ReadsEnd ==
    (pc # "idle" /\ Flushed) ~> (pc = "idle" \/ disconnected)

\* "Unblocks pending and subsequent mrpc_packet_stream_read() calls": after
\* mrpc_packet_stream_disconnect no read has to wait for a packet.  This does
\* not hold: the first read that fails takes the one END packet away.
DisconnectUnblocksReads ==
    disconnected /\ pc # "idle" => reader_queue # <<>>
=============================================================================
