# A TLA+ model of multiplexing-rpc

multiplexing-rpc sends many remote procedure calls at the same time over one
byte stream. This directory holds TLA+ specifications of its core, the TLC
configurations that check them, and proofs checked by TLAPS. Paths below are
relative to the repository's root; module names are files of this directory.

## The system and its parts

All code runs in cooperative fibers of the external fiber framework (`ff_*`).
A fiber gives way only in a blocking call: an event, a blocking queue, a pool
that is empty, a stream, a sleep. Between two blocking calls a fiber's steps are
atomic; this is the grain of every action in the models.

| Part | State | Operations | Talks to |
|---|---|---|---|
| bit allocator, `src/mrpc_bitmap.c` | occupied bits, search position | acquire, release | gives request ids to the client stream processor and processor ids to the server |
| packet, `src/mrpc_packet.c` | type, request id, bytes, positions | read and write data, send, receive | packet stream, reader and writer fibers |
| packet stream, `src/mrpc_packet_stream.c` | current read packet, current write packet, reader queue | write, flush, read, push, disconnect, shutdown | both stream processors; takes packets from their pool |
| client stream processor, `src/mrpc_client_stream_processor.c` | state, active streams and their count, stop events, writer queue, packet pool | process_stream (the reader fiber), writer fiber, create and delete request streams, stop_async | one connection; the calling fibers; struct mrpc_client |
| client, `src/mrpc_client.c` | connector, stop event, main fiber | start, stop, create_request_stream with retries, reset_connection | its stream processor; generated methods |
| server stream processor, `src/mrpc_server_stream_processor.c` | as on the client, and one worker fiber per request | start, stop_async, reader, writer and worker fibers | one connection; struct mrpc_server |
| server, `src/mrpc_server.c` | active stream processors and their count, events, pool | start, stop, main fiber | acceptor; stream processors |
| generated methods and handlers, `interface-compiler/src/c_client_generator.c`, `c_server_generator.c` | none | write request, read response, and the reverse | request streams |
| consistent hash, `src/mrpc_consistent_hash.c` | a ring of keys in buckets | add, remove, look up | distributed client |
| distributed client, `src/mrpc_distributed_client*.c` | clients by key, reference counts, ring | controller messages, acquire and release a client | clients |
| blobs, integers, character arrays, `src/mrpc_blob.c`, `mrpc_int.c`, `mrpc_char_array.c`, `mrpc_wchar_array.c` | reference counts, file-backed data | serialize, unserialize | request streams |
| interface compiler, `interface-compiler/src` | syntax tree | parse, print C code | files |

What is hard here:

* **Waiting for packets.** One pool of packets per stream processor serves the
  reader fiber, the packets being written, the packets not yet read, and the
  END packets of a disconnect. Anyone can find it empty, in the middle of
  anything.
* **Stopping.** A stop is asked for by callers, the application or a failure. It
  has to reach every active stream, wait for the last one, end the writer fiber
  with a NULL packet that must be the last of its queue, and leave nothing
  behind for the next connection, while streams come and go.
* **Reuse.** Request ids, streams, packets and stream processors are pooled and
  used again by later calls and later connections.
* **Failure.** The connection breaks, the other side sends nonsense, a read
  times out, a file cannot be written; each path has to give back what it holds.
* **Servers that come and go.** The distributed client removes a client while
  calls use it, and the ring, the dictionary, the pool and the reference counts
  change at different moments.

The properties that make each part correct are under "Runs"; the list of
hazards with the lines where they bite is in `PROJECT.json`.

## The modules

| Module | Models |
|---|---|
| `Bitmap` | `mrpc_bitmap.c`: the wrapping search by its iterations; the array layout as three operators |
| `PacketStream` | a writing and a reading packet stream joined by the queues; byte i of the message is the number i, so that loss, repetition and reordering are visible. Here packets are always available |
| `ByteStream` | abstract: what a request stream promises to the code that serializes parameters |
| `ClientStreamProcessor` | `mrpc_client_stream_processor.c` with the packet streams at the level of packets, the callers as the generated methods drive them, and an external server and connection |
| `StreamProcessorLifecycle` | abstract: what struct mrpc_client sees of a stream processor |
| `MrpcClient` | `mrpc_client.c` on top of `StreamProcessorLifecycle` (INSTANCE) |
| `ServerStreamProcessor` | `mrpc_server_stream_processor.c` with its workers, packet streams and an external client |
| `MrpcServer` | `mrpc_server.c`; a stream processor is its state and the step with which it ends |
| `ConsistentHash` | `mrpc_consistent_hash.c`: the buckets with their sorted lists, and the passes of the lookup; the hash function is any function from a set of functions |
| `DistributedClient` | `mrpc_distributed_client*.c`, extending `ConsistentHash`: main fiber, wrappers, callers, and an external controller |
| `MrpcInt` | `mrpc_int.c`, `mrpc_char_array.c`, `mrpc_wchar_array.c`: operators from values to bytes and back, for any widths |
| `Blob` | `mrpc_blob.c`, extending `MrpcInt`: blobs, their streams and their files |
| `RpcCall` | extends `Blob`: one call through the generated client method, stream handler and method handler, with the application and the service |
| `MCClientStreamProcessor`, `MCServerStreamProcessor` | symmetry sets for TLC, and the state constraint that keeps long messages and a faulty peer apart |
| `MCMrpcServer` | `MrpcServer` and `Bitmap` side by side |
| `MCDistributedClient`, `MCRpcCall` | the hash functions, the interface and the values of an instance |
| `CommonFacts` | lemmas about least elements, counting, loops, and the order of packets in queues |
| `PacketStreamProofs`, `ClientStreamProcessorProofs`, `MrpcClientProofs`, `ServerStreamProcessorProofs`, `MrpcServerProofs` (with `Bitmap`), `DistributedClientProofs` (with `ConsistentHash`), `RpcCallProofs` (with `Blob` and `MrpcInt`) | theorems |

`MrpcClient` uses the abstract processor; `ClientStreamProcessor` implements it
(`ImplementsLifecycle`, checked and proved). So the two compose without a state
space that is the product of both. `PacketStream` implements `ByteStream`
(checked and proved); the stream processors use the packet stream's protocol of START,
MIDDLE, END and SINGLE packets and leave the bytes out. `RpcCall` stands on top of
`ByteStream`: its `wire` is a stream of bytes, of which an end may be lost.
`DistributedClient` uses of `MrpcClient` only that a stop returns (`StopEnds`
there).

### How state and actions correspond to the code

Variables keep the names of the C fields where there is one. The others are:

* `reader`, `writer`, `caller[c].pc`, `worker[s].pc`: the blocking call at which
  a fiber stands. `write_first`, `write_next` and `flush_end` are the three
  places where a packet stream acquires a write packet and may wait for one.
* `link`: the connection: up, down (it failed), closed (by stop_async).
* `unflushed`, `inbound`, `outbound`: packets in the stream's write buffer and
  on the wire.
* `free_packets`: entries left in the packet pool.
* `call` in a packet: the number of the call the packet belongs to, or 0 for a
  packet that belongs to none (an END packet of a disconnect, garbage). The code
  has no such field; it lets properties say whose data a packet is.
* `disconnecting`: the stream for which stop_all_request_streams waits for a
  packet. It was looked up before the wait, as in the code.

An action is everything a fiber does from one blocking call to the next. For
instance `QueueWritePacket` is `ff_blocking_queue_put` *and* the acquisition of
the next write packet, which only becomes a wait when the pool is empty; the
failure of a call is `reset_connection` and `ff_stream_delete` together, because
neither blocks. A call can fail in the middle of its request, when a parameter cannot
be serialized (a blob's file, say), and a handler in the middle of its response; the
stream then goes back with a write packet that has not been queued (`CallFails`,
`RequestFails`). On the client a stream is identified with its request id, since
the id is acquired when the pool creates the stream and kept until the pool
deletes it. On the server a stream is a pool entry that gets the id of the
request it is acquired for.

The assertions of the client stream processor on its state, its active streams and
its writer queue are the invariant `AssertionsHold`: it says of every fiber that the
assertion it is about to meet holds. The program ends where one fails; the model
goes on as a build without assertions would, so every property that is to hold
whatever happens there says so (`KeepsGoing`). The step between an event and the
fiber it has woken is kept: the reader fiber that found request_streams_stop_event
set is at `stop_writer`, or at `wait_streams` with the event set, and a caller that
gets a stream there makes the assertion at `src/mrpc_client_stream_processor.c:310`
fail.

In `DistributedClient`, `main` is the blocking call at which the main fiber
stands, `job` and `leaving` what it is doing there; `idle_event` is the stop_event
of a wrapper. `AddClientTwice`, `RemoveClient` and `RemoveNext` run up to
mrpc_client_stop; `ClientStops`, `NoUsersLeft` and `WrapperStopped` are the rest,
common to all three. The step between an event and the fiber it wakes is kept:
another call may come in between. A failed assertion sets `crashed`, which ends
the program.

In `RpcCall`, `slots` has the variables of the generated functions (frames), in
which a pointer is NULL or set; `blobs` and `arrays` are the objects by the frame
that made them. `step` is the place inside mrpc_blob_unserialize, so that every
call there can fail on its own. `foreign` says that a peer that does not run this
code has sent some bytes; `ForeignClient` and `ForeignServer` send any message of
up to `MessageLength` bytes. The interface has at least one method, and application
and service pass values of the declared types (`ValuesAssumption`), as the C types
and the assertions of the array and blob functions demand. An array takes a reference while it is written; as
nothing can happen to it meanwhile, that pair is left out.

Taken from how the code uses them (external): events wake whoever waits when
they are set; a pool or a queue serves its waiters in any order; a disconnected
stream makes reads and writes fail; the server and the client at the other end
answer, stay silent, or send up to `MaxGarbage` packets out of place.

## Runs

Passing:

| Run | Shows |
|---|---|
| `Client` | the code's 2N packets, so that fibers wait in the pool, no more callers than streams, timeouts, a faulty server, calls that fail half written: streams have one holder, callers read their own data only, responses have an owner, packets are conserved on every path, no call leaves data in a pooled stream, the stop event is truthful, no assertion fails, the writer never sleeps on unflushed data, and the processor implements `StreamProcessorLifecycle` |
| `ClientCalls` | 2N packets and more callers than streams: unless the pool of packets stays empty for ever or an assertion fails, every stop completes and every call ends, also one that waits for a stream |
| `MrpcClient` | stop returns and leaves nothing; after finitely many calls the client is connected again |
| `PacketStream` | the streams implement `ByteStream`: bytes arrive once and in order, and a read fails only for a reason; nothing stays behind a message that has been read, and a read of a flushed message ends without a timeout |
| `Server` | 2N packets: requests do not mix, packets are conserved on every path, a stopped processor has left nothing behind (no fiber, id or event, no data of a request), and a client that keeps to the protocol is dropped only while a worker waits in its last flush |
| `ServerAnswers` | 2N packets: every request is answered while the connection is up, responses carry the id of the call they answer, and a stop completes without timeouts unless the pool stays empty for ever |
| `MrpcServer` | counter, stop event and running processors agree; stop leaves nothing, and returns unless a connection waits for a stream processor. Beside it the bit allocator: the search gives up exactly when every bit is taken and finds one bit otherwise, for every state of five bits |
| `DistributedClient` | for three rings (points that alternate, points that repeat, points that two servers share): a lookup finds the next point; ring and dictionary agree, also while the dictionary is being emptied; a request changes its client only if that client leaves or the new one has just come; a client in use keeps its connector and stays out of the pool; no assertion fails but for the two reasons under "What does not hold"; stop returns although calls go on, and leaves nothing; no deadlock |
| `RpcCall` | for all values of the narrow integers, the edges of the wide ones, empty and longest arrays and blobs: parameters arrive unchanged or the call fails, wherever the bytes are cut off; whatever a peer sends, what is read is within its type; references are exact at every step of every failure; the files on disk are those of the blobs; no deadlock |

Three runs are there for TLC to refute what a comment says:

| Run | The code and the sentence |
|---|---|
| `ClientStop` | `StopCompletes` with the code's 2N packets: a caller that waits for the packet at the end of flush (`src/mrpc_packet_stream.c:341`), while responses not yet read and the END packets of the stop fill the pool, waits for ever, and so does the stop; neither wait has a timeout. `src/mrpc_client_stream_processor.c:25` says that 2N packets avoid deadlocks |
| `ServerDrops` | `CorrectClientNotDropped` with the code's 2N packets: the same wait lets the client use the id again before the worker has released its stream, and the connection is terminated, which the comment at `src/mrpc_server_stream_processor.c:516` rules out |
| `MrpcClientReconnect` | resets between two connections refuse the next one; callers that go on calling keep the client disconnected, against `include/mrpc/mrpc_client.h:28` |

The type invariants are proved rather than checked (`TypeCorrect` and `BitsInRange`
under "Proofs").

### What does not hold

Statements of the repository that TLC refutes too, with a change of one of the
configurations:

* `ClientStop` with the property `CallsEnd`: the call in that trace waits for ever
  as well.
* `ServerAnswers` with `MaxRequestPackets = 2` and the property `StopCompletes`: with
  the code's 2N packets a stop of the server's stream processor may hang too. Workers
  hold packets of their requests and wait for a write packet, and the END packets of
  the stop have taken the rest of the pool, against
  `src/mrpc_server_stream_processor.c:25`. (`RequestsAnswered` holds in this
  instance: only a stop needs more packets.)
* `Client` with the invariant `PooledStreamsClean`:
  `mrpc_packet_stream_disconnect` waits for a packet, the stream goes back to the
  pool meanwhile, and the END packet ends up in a pooled stream
  (`src/mrpc_packet_stream.c:350`, against
  `include/private/mrpc_packet_stream.h:54`). The next call of that stream fails at
  its first read. On the server the same packet keeps a stopped processor from having
  all its packets back.
* `ClientCalls` with the specification `Spec` and the invariant `AssertionsHold`, or
  the property `NoStreamWhileStopping`: with more callers than streams the state is
  tested before the wait for a pooled stream and not after it
  (`src/mrpc_client_stream_processor.c:236`, against the message at 551). A caller
  that waited gets its stream during the stop or after it, and the program ends in
  one of the assertions at 134-136, 257, 310 or 463.
* `MrpcClient` with the property `RefusedOnlyIfAsked`: a stop while connecting is
  remembered and costs the next start its first connection
  (`src/mrpc_client.c:92`, against `include/mrpc/mrpc_client.h:35`).
* `PacketStream` with the invariant `DisconnectUnblocksReads`: a disconnect ends
  one read only, against `include/private/mrpc_packet_stream.h:81`.
* `MrpcServer` without the condition on `main_server` in `StopEndsUnlessCrowded`:
  `mrpc_server_stop` hangs while a connection waits for a stream processor
  (`src/mrpc_server.c:165`, against `include/mrpc/mrpc_server.h:35`).
* `RpcCall` with the invariant `NoNullFromSuccess`: mrpc_blob_unserialize returns
  FF_SUCCESS without a blob for a length of 2^31 or more
  (`src/mrpc_blob.c:406`), and the generated code goes on with NULL.
* `DistributedClient` with the invariant `LookupTotal`, or with `AssertionsHold`
  reduced to `~crashed`: `mrpc_consistent_hash_get_entry` looks into the bucket of the key once, before it
  wraps round (`src/mrpc_consistent_hash.c:176`), so that entries that lie in this
  bucket before the key are missed if there are no others. With the code's 128
  or more points in as many buckets this takes an unlucky hash function.
  `include/private/mrpc_consistent_hash.h:42` asks for no more than one entry.
* The same for two servers with a point in common
  (`src/mrpc_consistent_hash.c:61`): a removal may take the other server's entry,
  and a request then reaches a client that is stopped. Without the condition
  `NoCollisions`, `StopEnds` fails as well: such a client can be acquired again and
  again while its wrapper waits for the last user.

### Bounds, and why they are enough

The code's 256 streams and 512 packets become 2 streams and 4 packets, or 1 and 2:
always the 2N of the code, with which the pool runs empty. Two streams are the least with which one
can be disconnected while another is released; two connections are the least
with which something can be left over from the first; two or three calls make
ids be reused. Messages of one and two packets have the types SINGLE, and START
with END; MIDDLE packets occur in `PacketStream` (up to four packets of three
bytes, reads and writes of up to seven) and as garbage. In `Client` and `Server` a
state constraint keeps long messages and a faulty peer apart: once the peer has sent
a packet out of turn TLC goes on only while the messages under way have one packet
(`ShortWithFaultyServer`, `ShortWithFaultyClient`), which keeps the instances within
minutes. What a stray packet does inside a message of two packets is left to the
theorems, which hold for `Spec` without the constraint. The constants
`MaxCalls`, `MaxRequests`, `MaxConnections`, `MaxGarbage`, `MaxStarts`,
`MaxFailures` and `MaxClients` bound counters in guards. `Terminated` is the
step of an instance that has used its bounds up, so that TLC's deadlock check
stays on; it is off in the runs of the two stream processors, where the pool of
packets can stay empty for ever (the finding of `ClientStop`).
Streams on the server and callers on the client are interchangeable, which makes
the symmetry sound; runs of liveness properties do not use it.

`ReadsTimeOut = FALSE` takes READ_TIMEOUT (`src/mrpc_packet_stream.c:15`) away,
for questions whose answer must not depend on it.

`DistributedClient` has three servers for two clients, so that one is refused,
two callers and two points per server on a ring of two buckets with three keys
each: enough for every position of a key relative to the points, before and
after the wrap. Order 0 of the ring is left out (two buckets at least). `RpcCall`
has integers of three and five bits in octets of two, so that the last octet of a
wide integer is not full, as with 64 bits in octets of seven; messages of a foreign
peer have up to three bytes, enough for an integer that is too long, an array
that is too long, and a blob with a byte missing. `MaxFiles` leaves room for one
blob that the service begins again.

### Fairness

Weak fairness of each fiber's next step: the scheduler runs every runnable
fiber, and blocked fibers are not enabled. Nothing is assumed of the network,
the server (in client runs), the application or the moment a call begins.
`TimeoutSpec` adds that a read without data times out; `ClientCalls` needs it,
because a caller that gets its stream behind the back of stop_all_request_streams is
not disconnected. `StopCompletesUnlessStarved` and `CallsEndUnlessStarved` have the
hypothesis that the pool of packets is not empty for ever, and on the client that no
assertion fails: what 2N packets do not give. It leaves everything else to be shown:
each fiber and each event. `ServerAnswers` assumes
that a client sends the rest of a request it has begun and takes what arrives.
`MrpcClient` assumes that connecting ends, that a call in progress ends and that
process_stream returns, the two latter being `CallsEndUnlessStarved` and
`StopCompletesUnlessStarved` of the stream processor: where its packets run out for
ever, mrpc_client_stop hangs as well. `MrpcServer` assumes that a stream processor
told to stop stops (`StopCompletesUnlessStarved` of `ServerStreamProcessor`), and
nothing of one that is not told. `DistributedClient` assumes that its main fiber goes on, mrpc_client_stop
included (`StopEnds` of `MrpcClient`), and that a call ends and releases its client
(`CallsEndUnlessStarved`); nothing of the controller but that it says STOP after its shutdown.

## Proofs

All theorems hold for every value of the constants that the named assumptions
admit. Those about the connection in `ClientStreamProcessorProofs` assume in
addition `FewCallers`, that there are no more callers than streams: otherwise
`NoStreamWhileStopping` fails, and with it the stop protocol.

Loops and recursive functions need induction, and the library's induction theorems
cannot be applied here to a formula. `CommonFacts` has it for sets instead: a set of
numbers that is not empty has a least element (`LeastElement`, by well-founded
induction); what holds before the first iteration of a loop and is kept by each
holds after the last (`Iterating`); and a loop whose iterations keep the type of its
state has a sequence of states (`LoopStates`).

* `ClientStreamProcessorProofs`: `TypeCorrect` and `StreamsExclusive`. The
  inductive invariant `BaseInv` adds to the types and `StreamsHeldOnce` that the
  writer fiber holds a packet while it writes, and that a caller in the middle of
  a write holds a START or MIDDLE packet: without the former NULL could reach the
  wire, without the latter a flushed packet could be queued again.
  Two lemmas, `NewHolder` and `HolderGone`, carry the one
  argument about the set of holders.

  `PacketsKept`: the packet pool neither loses nor invents a packet. `PacketInv`
  adds to `BaseInv` that a stream has a write packet only while its holder writes
  or reads (`WriteHolders`: otherwise a packet acquired over another one would be
  lost), and that a writer fiber exists exactly from the start of process_stream
  to the event that announces its end (`WriterRuns`: otherwise a new writer fiber
  could drop the packet of an old one). No sum over the streams appears: the
  packets of the streams are counted as the cardinality of a set of pairs (stream,
  number), `Places` of `CommonFacts`, whose lemmas say how it grows and shrinks
  when one stream or a set of streams does. The disconnect loop takes a packet for
  each of a set of streams in one step, and that set never includes the
  stream it already waited for, whose index is smaller.

  `RequestsAreFlushed` is inductive with `BaseInv`, and so is `PooledNoData`: only
  active streams get packets with data, a stream is emptied when it is given back,
  and what the disconnect loop puts into a stream after its wait is an END packet
  without data, whoever has the stream by then.

  The connection: `FibersAgree` is inductive together with `BaseInv`, the
  connection number of each holder and the fact that nobody waits in the pool
  (`PoolSuffices`, by counting). `StopEventTruthful`, `AssertionsHold`, `SentinelLast`
  and `StreamsOfThisConnection` follow from it. `LifecycleImplemented` shows that
  every step is a step or a stutter of `StreamProcessorLifecycle` under the
  mapping `processing <- reader # "idle"`.

  `OwnData` and `ResponsesOwned` are about whose data a packet carries. The
  invariant `DataInv` says, of a stream and of everything in flight for its id
  (writer queue, write buffer, wire, server, reader queue): packets are where
  their id says; what is in flight belongs to the call that has the stream now,
  and nothing is in flight for a stream of the pool; nothing follows the last
  packet of a request or of a response; and no part of a response exists before
  the whole request has arrived. Each part needs the others: that a stream goes
  back to the pool with nothing in flight rests on the caller having read the last
  packet, and that on the order. Sets of packets and two relations, `Occurs` and
  `NoneAfter` of `CommonFacts`, stand for the queues: their lemmas say what Head,
  Tail, Append and concatenation do to them, so no index appears in a step's proof.
  `FewCallers` is needed here too: a caller that gets a stream when the NULL packet
  is queued already leaves its packets to the next connection.
* `MrpcClientProofs`: `Positions` says for each place of the main fiber what the
  connector, the processor, its state and the application can be; `TypeCorrect`,
  `StopCorrect` and `AssertionsHold` (the assertions at the start of
  process_stream) follow.
* `ServerStreamProcessorProofs`: `ServerInv` is inductive: the types;
  `StreamsHeldOnce`; that the writer fiber and a worker hold a packet exactly
  while they write it (`Holders`); what the disconnect loop has captured (`Captured`);
  how reader fiber, writer fiber, state, link, events, active ids and NULL packet
  go together (`FibersAgree`); and `PacketsCounted`, which is `PacketsConserved` counted with `Places` and the
  length of the writer queue. From it: `TypeCorrect`, `StreamsExclusive`, `PacketsKept`; `PoolSuffices`, that
  acquire_request_stream finds a free stream whenever it has a free id, by
  counting; `WorkersDontBlock`, which is the comment on the size of the writer
  queue: a worker that holds a packet finds room for it, since the queue is as long as
  the pool is large; and `StopProtocol`. `StopCorrect` needs in addition that
  a stream of the pool holds no data, by the argument of `PooledNoData`.

  The connection: `ConnectionInv` adds to `ServerInv` the order of the packets of
  each id, in the terms of the client's proofs: what the client has
  sent and nobody has read belongs to the request it sends now, first packet first
  and nothing behind the last (`RequestsSent`); a request whose first packet has
  been read has a worker that reads (`RequestsReceived`); what a stream that is
  read holds (`StreamReads`); a worker that answers has the whole request and has
  not ended the response (`StreamAnswers`); nothing follows the last packet of a
  response (`ResponsesInOrder`), and it belongs to the call the client waits for
  (`ResponsesAwaited`). `RequestsSeparate` and `ResponsesCorrect` follow, for any
  number of mistakes of the client. `DroppedOnlyWhileFlushing` needs in addition that,
  without mistakes, a worker that reads always has data (`NoEmptyPackets`): a first
  packet for an active id then finds its worker neither reading nor answering, so it
  waits in its last flush, and any other packet finds its worker.
* `MrpcServerProofs`: `ServerInv` relates the application, the main fiber, the
  acceptor, the two events and the set of active processors; `TypeCorrect`,
  `ActiveRun`, `StopEventCorrect` and `StopCorrect` follow.

  The bitmap: `BitsInRange`, `SearchCorrect`, `ArrayLayout`. The search covers all bits
  (`SearchCoversBits`, two cases: before and after the wrap), so a least iteration
  that finds a free bit exists.
* `PacketStreamProofs`: `TypeCorrect`, `NothingLeftBehind` and the refinement
  `ByteStreamImplemented`. Byte i of the message is the number i, so the bytes in
  the packets, queues and buffers are right if every packet begins where the one
  before it ends: `PSInv` says that with a function of offsets (`Chained`) from the
  reader's packet through its queue, the writer's queue and the packet being
  written (`Carried`), and no recursion over the queue is needed. The rest of it says
  which types of packets can be where (`ReaderQueue`, `WriterQueue`) and where the
  two sides are (`WriterState`, `ReaderState`); an END packet of a disconnect is the
  last in the reader's queue and carries nothing. A step of `PacketStream` is
  then the step of `ByteStream` of the same kind: a copied piece is a write, a
  flush a flush, the push of a packet the arrival of its bytes, the next packet of
  a read a part of that read; the beginning of a write is a stutter.
* `DistributedClientProofs`: `LookupFindsNextPoint` is about the ring alone: if every
  bucket is sorted and holds only keys of its own (`RingOK`), the passes of
  get_entry find the next entry clockwise, unless all entries lie in the bucket of
  the key, before it. Lemmas on `AddEntryWithKey` and
  `RemoveEntryWithKey` say that they keep `RingOK` and add or remove one entry with
  the key; the loops over the points of a server follow by `LoopStates`. The
  inductive invariant `DCInv` says that the number of entries with a key is the number
  of points that registered servers have there, and, unless points coincide, to
  which client they lead (`RingInv`); where the main fiber, the controller and the
  dictionary are with respect to each other (`Positions`); that a wrapper is in the
  pool, or belongs to one server, or is the one being stopped (`Holders`); that it
  has a connector unless it is in the pool (`Connected`); and that
  reference counts and idle events tell the truth (`UsersCounted`). `RingCorrect`,
  `LookupsCorrect`, `UsersCorrect`, `StopCorrect` and `AssertionsCorrect` follow, the
  last with the two exceptions of "What does not hold". `RequestsStay` is the action
  property of consistent hashing: that the ring changes only by the entries of one
  server, and that the next entry can change only to or from one of these.
* `RpcCallProofs`: `RefsCorrect`, `FilesCorrect` and `RangesCorrect`, for every
  interface, all arguments and answers of the declared types, all messages of a
  foreign peer and every width of the integers. `CallInv` has nine parts: types;
  which frames have variables in which phase (`Variables`); which of the pointers
  must be, or cannot be, set while a function fills or writes them (`Pointing`);
  that an object is named after a parameter of its type and that only the
  blob being filled may be incomplete (`Objects`); that the paths of blobs differ
  and are not among the files that could not be erased (`Files`); that
  the writer's stream stands at the end of the file (`BlobStreams`); what has been
  done of the new blob at each step (`NewBlob`); what the service still owes
  (`Answering`); and `RefsOK`, the counts as a sum instead of a cardinality. `RefsExact`
  is not inductive without the others: that a blob goes with its last reference
  needs to know that the stream just closed was its only one, that a slot is filled
  that did not point to anything before, and that the names of objects stay valid when
  served_id changes, for which no object of the handler may be left.
  `RangesCorrect` rests on lemmas about each decoder: what it returns is in range for
  every sequence of bytes. They use of the powers of two only `PowersOfTwo`, since
  the provers know nothing of exponents.

Only model-checked: all liveness (`StopCompletesUnlessStarved`,
`CallsEndUnlessStarved`, `StopEnds`, `StopEndsUnlessCrowded`, `Reconnects`, `ReadsEnd`, `RequestsAnswered`), which is
beyond the proof system; and `ParametersArrive`, that what is decoded is what was
encoded: it needs the round trip of the encodings, an equation about sums and
quotients of powers of two of any length, which is induction over data.

## Not modelled

The packet's header on the wire (a type and an id in a fixed layout), the get_hash
functions, which are pure and used by applications only, and the interface
compiler: its parser and its printing of C code work on strings, keep no state
between runs, and what they print is modelled instead. A write to a blob that
fails in the middle and is then repeated is not modelled: the header of the blob
asks for no such thing, and the models begin again with a new blob. Allocation
never fails in the code and does not in the models. The deletion of processors,
clients and servers is not modelled: their assertions are the properties
`StoppedMeansStopped`.

## Plan

1. `Bitmap`, `ClientStreamProcessor`, `StreamProcessorLifecycle`, `MrpcClient`,
   `PacketStream`, `ByteStream`, `ServerStreamProcessor`, `MrpcServer`: done.
2. `ConsistentHash`, `DistributedClient`, `MrpcInt`, `Blob`, `RpcCall`: done.
3. Proofs of types, holders, packets and stopping for the stream processors, the
   client and the server: done.
4. Proofs of what the packets carry, for both stream processors: done.
5. Proofs for `PacketStream`, `ConsistentHash`, `DistributedClient` and `RpcCall`:
   done.
6. Left: the round trip of the encodings (`ParametersArrive`), once a prover can
   instantiate the induction theorems.
