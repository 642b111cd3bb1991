-------------------------- MODULE MrpcServerProofs --------------------------
(***************************************************************************)
(* Proofs about MrpcServer: its four invariants hold for every number of   *)
(* stream processors, starts and clients.  At the end, proofs about the    *)
(* Bitmap that gives the stream processors their ids.                      *)
(***************************************************************************)
EXTENDS MrpcServer, Bitmap, FiniteSetTheorems, CommonFacts, TLAPS

(***************************************************************************)
(* What a counter of active processors is worth                            *)
(***************************************************************************)

\* The counter can be compared with 0 instead of the set with {}.
LEMMA Counting ==
    ASSUME NEW S \in SUBSET Processors
    PROVE  /\ Cardinality(S) \in Nat
           /\ Cardinality(S) \in 0 .. Cardinality(Processors)
           /\ Cardinality(S) = 0 <=> S = {}
           /\ \A p \in Processors \ S : Cardinality(S \cup {p}) = Cardinality(S) + 1
           /\ \A p \in S : Cardinality(S \ {p}) = Cardinality(S) - 1
  <1>1. IsFiniteSet(Processors)
    BY MrpcServerAssumption
  <1>2. IsFiniteSet(S) /\ Cardinality(S) <= Cardinality(Processors)
    BY <1>1, FS_Subset
  <1>3. Cardinality(S) \in Nat /\ Cardinality(Processors) \in Nat
    BY <1>1, <1>2, FS_CardinalityType
  <1>4. Cardinality(S) = 0 <=> S = {}
    BY <1>2, FS_EmptySet
  <1>5. \A p \in Processors \ S : Cardinality(S \cup {p}) = Cardinality(S) + 1
    BY <1>2, FS_AddElement
  <1>6. \A p \in S : Cardinality(S \ {p}) = Cardinality(S) - 1
    BY <1>2, FS_RemoveElement
  <1> QED
    BY <1>2, <1>3, <1>4, <1>5, <1>6

(***************************************************************************)
(* The inductive invariant.  To StopEventTruthful it adds where the main   *)
(* fiber and the application are with respect to each other.               *)
(***************************************************************************)
Positions ==
    /\ stream_acceptor = "NULL" <=> app = "stopped"
    /\ stream_acceptor = "initialized" <=> app = "started"
    /\ app = "stopped" => main_server = "none" /\ ~stop_event
    /\ app = "started" => main_server \in {"begin", "accept", "pool"} /\ ~stop_event
    /\ app = "stopping" => (main_server = "none" <=> stop_event)
    /\ main_server = "wait_processors" => app = "stopping"
    /\ main_server \in {"none", "begin"} =>
         active_stream_processors = {} /\ ~stream_processors_stop_event
    /\ main_server \in {"accept", "pool", "wait_processors"} =>
         (stream_processors_stop_event <=> active_stream_processors = {})

ServerInv == TypeOK /\ ActiveProcessorsRun /\ Positions

LEMMA ServerInit == Init => ServerInv
  <1> SUFFICES ASSUME Init PROVE ServerInv
    OBVIOUS
  <1>1. {} \in SUBSET Processors
    OBVIOUS
  <1>2. Cardinality({}) = 0 /\ 0 \in 0 .. Cardinality(Processors)
    BY <1>1, Counting
  <1>3. TypeOK
    <2>1. active_stream_processors_cnt \in 0 .. max_stream_processors_cnt
      BY <1>2 DEF Init, max_stream_processors_cnt
    <2>2. starts \in 0 .. MaxStarts /\ clients \in 0 .. MaxClients
      BY MrpcServerAssumption DEF Init
    <2>3. state \in [Processors -> {"STOPPED", "WORKING", "STOP_INITIATED"}]
      BY DEF Init
    <2> QED
      BY <2>1, <2>2, <2>3, Zenon DEF Init, TypeOK
  <1>4. ActiveProcessorsRun
    BY <1>2 DEF Init, ActiveProcessorsRun
  <1>5. Positions
    BY DEF Init, Positions
  <1> QED
    BY <1>3, <1>4, <1>5 DEF ServerInv

\* Taking a processor from the pool, whatever the main fiber does around it.
LEMMA AcquireKeepsCount ==
    ASSUME TypeOK, ActiveProcessorsRun,
           NEW p \in FreeProcessors, AcquireStreamProcessor(p)
    PROVE  /\ active_stream_processors' \subseteq Processors
           /\ active_stream_processors' # {}
           /\ active_stream_processors_cnt' \in 0 .. max_stream_processors_cnt
           /\ stream_processors_stop_event' \in BOOLEAN
           /\ state' \in [Processors -> {"STOPPED", "WORKING", "STOP_INITIATED"}]
           /\ ActiveProcessorsRun'
           /\ (stream_processors_stop_event <=> active_stream_processors = {})
                => ~stream_processors_stop_event'
  <1> DEFINE S == active_stream_processors
  <1>1. p \in Processors /\ p \notin S /\ S \in SUBSET Processors
    BY DEF FreeProcessors, TypeOK
  <1>2. S \cup {p} \in SUBSET Processors
    BY <1>1
  <1>3. active_stream_processors' = S \cup {p}
    BY DEF AcquireStreamProcessor
  <1>4. active_stream_processors_cnt' = Cardinality(S \cup {p})
    BY <1>1, Counting DEF AcquireStreamProcessor, ActiveProcessorsRun
  <1>5. active_stream_processors_cnt' \in 0 .. max_stream_processors_cnt
    BY <1>2, <1>4, Counting DEF max_stream_processors_cnt
  <1>6. active_stream_processors_cnt + 1 = 1 <=> S = {}
    <2>1. active_stream_processors_cnt = Cardinality(S)
      BY DEF ActiveProcessorsRun
    <2>2. Cardinality(S) \in Nat /\ (Cardinality(S) = 0 <=> S = {})
      BY <1>1, Counting
    <2> QED
      BY <2>1, <2>2
  <1>7. ActiveProcessorsRun'
    BY <1>1, <1>3, <1>4 DEF AcquireStreamProcessor, ActiveProcessorsRun, TypeOK
  <1>8. state' \in [Processors -> {"STOPPED", "WORKING", "STOP_INITIATED"}]
    BY <1>1 DEF AcquireStreamProcessor, TypeOK
  <1>9. stream_processors_stop_event' =
           IF S = {} THEN FALSE ELSE stream_processors_stop_event
    BY <1>6 DEF AcquireStreamProcessor
  <1>10. stream_processors_stop_event' \in BOOLEAN
    BY <1>9, Zenon DEF TypeOK
  <1>11. (stream_processors_stop_event <=> S = {}) => ~stream_processors_stop_event'
    BY <1>9
  <1> QED
    BY <1>2, <1>3, <1>5, <1>7, <1>8, <1>10, <1>11

\* Giving a processor back to the pool.
LEMMA ReleaseKeepsCount ==
    ASSUME TypeOK, ActiveProcessorsRun,
           NEW p \in Processors, ProcessorEnds(p)
    PROVE  /\ active_stream_processors # {}
           /\ active_stream_processors' \subseteq Processors
           /\ active_stream_processors_cnt' \in 0 .. max_stream_processors_cnt
           /\ stream_processors_stop_event' \in BOOLEAN
           /\ state' \in [Processors -> {"STOPPED", "WORKING", "STOP_INITIATED"}]
           /\ ActiveProcessorsRun'
           /\ (stream_processors_stop_event <=> active_stream_processors = {})
                => (stream_processors_stop_event' <=> active_stream_processors' = {})
  <1> DEFINE S == active_stream_processors
  <1>1. p \in S /\ S \in SUBSET Processors
    BY DEF ProcessorEnds, ActiveProcessorsRun, TypeOK
  <1>2. S \ {p} \in SUBSET Processors
    BY <1>1
  <1>3. active_stream_processors' = S \ {p}
    BY DEF ProcessorEnds, ReleaseStreamProcessor
  <1>4. active_stream_processors_cnt' = Cardinality(S \ {p})
    BY <1>1, Counting DEF ProcessorEnds, ReleaseStreamProcessor, ActiveProcessorsRun
  <1>5. active_stream_processors_cnt' \in 0 .. max_stream_processors_cnt
    BY <1>2, <1>4, Counting DEF max_stream_processors_cnt
  <1>6. active_stream_processors_cnt - 1 = 0 <=> S \ {p} = {}
    BY <1>2, <1>4, Counting DEF ProcessorEnds, ReleaseStreamProcessor
  <1>7. ActiveProcessorsRun'
    BY <1>1, <1>3, <1>4
    DEF ProcessorEnds, ReleaseStreamProcessor, ActiveProcessorsRun, TypeOK
  <1>8. state' \in [Processors -> {"STOPPED", "WORKING", "STOP_INITIATED"}]
    BY <1>1 DEF ProcessorEnds, ReleaseStreamProcessor, TypeOK
  <1>9. stream_processors_stop_event' =
           IF S \ {p} = {} THEN TRUE ELSE stream_processors_stop_event
    BY <1>6 DEF ProcessorEnds, ReleaseStreamProcessor
  <1>10. stream_processors_stop_event' \in BOOLEAN
    BY <1>9, Zenon DEF TypeOK
  <1>11. (stream_processors_stop_event <=> S = {})
           => (stream_processors_stop_event' <=> S \ {p} = {})
    BY <1>1, <1>9
  <1> QED
    BY <1>1, <1>2, <1>3, <1>5, <1>7, <1>8, <1>10, <1>11

LEMMA ServerNext == ServerInv /\ [Next]_vars => ServerInv'
  <1> SUFFICES ASSUME ServerInv, [Next]_vars PROVE ServerInv'
    OBVIOUS
  <1> USE DEF ServerInv
  <1>1. CASE Start
    <2>1. ActiveProcessorsRun'
      BY <1>1 DEF Start, activeVars, ActiveProcessorsRun
    <2>2. TypeOK'
      BY <1>1, MrpcServerAssumption DEF Start, activeVars, TypeOK
    <2>3. Positions'
      BY <1>1 DEF Start, activeVars, Positions, TypeOK
    <2> QED BY <2>1, <2>2, <2>3
  <1>2. CASE Stop
    <2>1. ActiveProcessorsRun'
      BY <1>2 DEF Stop, activeVars, ActiveProcessorsRun
    <2>2. TypeOK'
      BY <1>2 DEF Stop, activeVars, TypeOK
    <2>3. Positions'
      BY <1>2 DEF Stop, activeVars, Positions, TypeOK
    <2> QED BY <2>1, <2>2, <2>3
  <1>3. CASE StopReturns
    <2>1. ActiveProcessorsRun'
      BY <1>3 DEF StopReturns, activeVars, ActiveProcessorsRun
    <2>2. TypeOK'
      BY <1>3 DEF StopReturns, activeVars, TypeOK
    <2>3. Positions'
      BY <1>3 DEF StopReturns, activeVars, Positions, TypeOK
    <2> QED BY <2>1, <2>2, <2>3
  <1>4. CASE MainBegins
    <2>1. ActiveProcessorsRun'
      BY <1>4 DEF MainBegins, ActiveProcessorsRun
    <2>2. TypeOK'
      BY <1>4 DEF MainBegins, appVars, TypeOK
    <2>3. Positions'
      BY <1>4 DEF MainBegins, appVars, Positions, TypeOK
    <2> QED BY <2>1, <2>2, <2>3
  <1>5. CASE Accept
    <2>1. CASE \E p \in FreeProcessors : AcquireStreamProcessor(p) /\ UNCHANGED main_server
      <3>1. PICK p \in FreeProcessors : AcquireStreamProcessor(p)
        BY <2>1
      <3>2. UNCHANGED <<main_server, appVars, stop_event>>
        BY <1>5, <2>1 DEF Accept
      <3>3. TypeOK'
        BY <1>5, <3>1, <3>2, AcquireKeepsCount, MrpcServerAssumption
        DEF Accept, appVars, TypeOK, max_stream_processors_cnt
      <3>4. Positions'
        BY <1>5, <3>1, <3>2, AcquireKeepsCount DEF Accept, appVars, Positions
      <3> QED BY <3>1, <3>3, <3>4, AcquireKeepsCount
    <2>2. CASE FreeProcessors = {} /\ main_server' = "pool" /\ UNCHANGED <<activeVars, state>>
      <3>1. ActiveProcessorsRun'
        BY <2>2 DEF activeVars, ActiveProcessorsRun
      <3>2. TypeOK'
        BY <1>5, <2>2, MrpcServerAssumption DEF Accept, activeVars, appVars, TypeOK
      <3>3. Positions'
        BY <1>5, <2>2 DEF Accept, activeVars, appVars, Positions, TypeOK
      <3> QED BY <3>1, <3>2, <3>3
    <2> QED BY <1>5, <2>1, <2>2 DEF Accept
  <1>6. CASE GetPooledProcessor
    <2>1. PICK p \in FreeProcessors : AcquireStreamProcessor(p)
      BY <1>6 DEF GetPooledProcessor
    <2>2. TypeOK'
      BY <1>6, <2>1, AcquireKeepsCount
      DEF GetPooledProcessor, appVars, TypeOK, max_stream_processors_cnt
    <2>3. Positions'
      BY <1>6, <2>1, AcquireKeepsCount DEF GetPooledProcessor, appVars, Positions, TypeOK
    <2> QED BY <2>1, <2>2, <2>3, AcquireKeepsCount
  <1>7. CASE StopAllStreamProcessors
    <2>1. ActiveProcessorsRun'
      BY <1>7 DEF StopAllStreamProcessors, activeVars, ActiveProcessorsRun, TypeOK, StopLoop
    <2>2. TypeOK'
      BY <1>7 DEF StopAllStreamProcessors, activeVars, appVars, TypeOK
    <2>3. Positions'
      BY <1>7 DEF StopAllStreamProcessors, activeVars, appVars, Positions, TypeOK
    <2> QED BY <2>1, <2>2, <2>3
  <1>8. CASE MainEnds
    <2>1. ActiveProcessorsRun'
      BY <1>8 DEF MainEnds, ActiveProcessorsRun
    <2>2. TypeOK'
      BY <1>8 DEF MainEnds, appVars, TypeOK
    <2>3. Positions'
      BY <1>8 DEF MainEnds, appVars, Positions, TypeOK
    <2> QED BY <2>1, <2>2, <2>3
  <1>9. ASSUME NEW p \in Processors, ConnectionFails(p) PROVE ServerInv'
    <2>1. ActiveProcessorsRun'
      BY <1>9 DEF ConnectionFails, activeVars, ActiveProcessorsRun, TypeOK
    <2>2. TypeOK'
      BY <1>9 DEF ConnectionFails, activeVars, appVars, TypeOK
    <2>3. Positions'
      BY <1>9 DEF ConnectionFails, activeVars, appVars, Positions, TypeOK
    <2> QED BY <2>1, <2>2, <2>3
  <1>10. ASSUME NEW p \in Processors, ProcessorEnds(p) PROVE ServerInv'
    <2>1. UNCHANGED <<appVars, main_server, stop_event, clients>>
      BY <1>10 DEF ProcessorEnds
    <2>2. TypeOK'
      BY <1>10, <2>1, ReleaseKeepsCount DEF appVars, TypeOK, max_stream_processors_cnt
    <2>3. Positions'
      BY <1>10, <2>1, ReleaseKeepsCount DEF appVars, Positions, TypeOK
    <2> QED BY <1>10, <2>2, <2>3, ReleaseKeepsCount
  <1>11. CASE UNCHANGED vars
    <2>1. ActiveProcessorsRun'
      BY <1>11 DEF vars, activeVars, ActiveProcessorsRun
    <2>2. TypeOK' /\ Positions'
      BY <1>11 DEF vars, activeVars, appVars, TypeOK, Positions, max_stream_processors_cnt
    <2> QED BY <2>1, <2>2
  <1> QED
    BY <1>1, <1>2, <1>3, <1>4, <1>5, <1>6, <1>7, <1>8, <1>9, <1>10, <1>11
    DEF Next, MainStep, Terminated

\* ServerInv is what the four invariants are made of.
LEMMA ServerInvHolds == Spec => []ServerInv
  BY ServerInit, ServerNext, PTL DEF Spec

\* The state of the server is well typed; in particular its counter never
\* leaves 0 .. max_stream_processors_cnt.
THEOREM TypeCorrect == Spec => []TypeOK
  <1>1. ServerInv => TypeOK
    BY DEF ServerInv
  <1> QED
    BY <1>1, ServerInvHolds, PTL

\* The processors out of the pool are the running ones, for any number of them.
THEOREM ActiveRun == Spec => []ActiveProcessorsRun
  <1>1. ServerInv => ActiveProcessorsRun
    BY DEF ServerInv
  <1> QED
    BY <1>1, ServerInvHolds, PTL

\* The event that stop_all_stream_processors waits for tells the truth.
THEOREM StopEventCorrect == Spec => []StopEventTruthful
  <1>1. ServerInv => StopEventTruthful
    BY DEF ServerInv, Positions, StopEventTruthful, TypeOK
  <1> QED
    BY <1>1, ServerInvHolds, PTL

\* When mrpc_server_stop has returned, nothing of the server is running.
THEOREM StopCorrect == Spec => []StoppedMeansStopped
  <1>1. ServerInv => StoppedMeansStopped
    BY DEF ServerInv, Positions, StoppedMeansStopped
  <1> QED
    BY <1>1, ServerInvHolds, PTL

(***************************************************************************)
(* The bit allocator from which the server takes the ids of its stream     *)
(* processors, for every size of the bitmap.                               *)
(***************************************************************************)

\* The word and the bit number of a bit identify it and lie inside the array
\* mrpc_bitmap_create allocates, also when size is not a multiple of 64.
THEOREM ArrayLayout ==
    ASSUME NEW size \in Nat \ {0}, NEW n \in 0 .. size - 1, NEW m \in 0 .. size - 1
    PROVE  /\ U64_ARRAY_INDEX(n) \in 0 .. GET_U64_ARRAY_SIZE(size) - 1
           /\ U64_BIT_NUM(n) \in 0 .. 63
           /\ (/\ U64_ARRAY_INDEX(n) = U64_ARRAY_INDEX(m)
               /\ U64_BIT_NUM(n) = U64_BIT_NUM(m)) => n = m
BY DEF U64_ARRAY_INDEX, U64_BIT_NUM, GET_U64_ARRAY_SIZE

\* The wrapping search visits every bit: the positions of its iterations
\* are bits, and every bit is the position of some iteration.
LEMMA SearchCoversBits ==
    ASSUME last_free_bit \in Bits
    PROVE  /\ \A i \in Iterations : Position(i) \in Bits
           /\ \A n \in Bits : \E i \in Iterations : Position(i) = n
<1> USE SizeAssumption DEF Bits, Iterations, Position
<1>1. \A i \in Iterations : Position(i) \in Bits
  OBVIOUS
<1>2. ASSUME NEW n \in Bits
      PROVE  \E i \in Iterations : Position(i) = n
  <2>1. CASE n >= last_free_bit
    <3>1. /\ n - last_free_bit \in Iterations
          /\ Position(n - last_free_bit) = n
      BY <2>1
    <3>2. QED
      BY <3>1
  <2>2. CASE n < last_free_bit
    <3>1. /\ n - last_free_bit + Size \in Iterations
          /\ Position(n - last_free_bit + Size) = n
      BY <2>2
    <3>2. QED
      BY <3>1
  <2>3. QED
    BY <2>1, <2>2
<1>3. QED
  BY <1>1, <1>2

\* The allocator's state stays inside the bitmap: the search position is
\* always a valid bit (the assertion of mrpc_bitmap_acquire_bit).
THEOREM BitsInRange == BitmapSpec => []BitmapTypeOK
<1>1. BitmapInit => BitmapTypeOK
  BY SizeAssumption DEF BitmapInit, BitmapTypeOK, Bits
<1>2. BitmapTypeOK /\ [BitmapNext]_bitmapVars => BitmapTypeOK'
  <2> SUFFICES ASSUME BitmapTypeOK, [BitmapNext]_bitmapVars
               PROVE  BitmapTypeOK'
    OBVIOUS
  <2>1. CASE AcquireBit
    BY <2>1, SearchCoversBits DEF AcquireBit, BitmapTypeOK
  <2>2. ASSUME NEW n \in Bits, ReleaseBit(n)
        PROVE  BitmapTypeOK'
    BY <2>2 DEF ReleaseBit, BitmapTypeOK
  <2>3. CASE AcquireFails \/ UNCHANGED bitmapVars
    BY <2>3 DEF AcquireFails, bitmapVars, BitmapTypeOK
  <2>4. QED
    BY <2>1, <2>2, <2>3 DEF BitmapNext
<1>3. QED
  BY <1>1, <1>2, PTL DEF BitmapSpec

\* mrpc_bitmap_acquire_bit returns -1 exactly when every bit is taken, and
\* otherwise finds exactly one bit.
THEOREM SearchCorrect == BitmapSpec => []GivesUpIffFull
<1>1. BitmapTypeOK => GivesUpIffFull
  <2> SUFFICES ASSUME BitmapTypeOK
               PROVE  GivesUpIffFull
    OBVIOUS
  <2>1. /\ \A i \in Iterations : Position(i) \in Bits
        /\ \A n \in Bits : \E i \in Iterations : Position(i) = n
    BY SearchCoversBits DEF BitmapTypeOK
  <2>2. (\A i \in Iterations : Position(i) \in map) <=> map = Bits
    BY <2>1 DEF BitmapTypeOK
  <2>3. ASSUME map # Bits
        PROVE  \E i \in Iterations :
                  /\ FoundAt(i)
                  /\ \A j \in Iterations : FoundAt(j) => j = i
    <3> DEFINE S == {i \in Iterations : Position(i) \notin map}
    <3>1. S \in SUBSET Nat /\ S # {}
      BY <2>2, <2>3 DEF Iterations
    <3>2. PICK i \in S : \A j \in S : i <= j
      BY <3>1, LeastElement
    <3>3. ASSUME NEW j \in 0 .. i - 1
          PROVE  Position(j) \in map
      BY <3>2, SizeAssumption DEF Iterations
    <3>4. FoundAt(i)
      BY <3>3 DEF FoundAt
    <3>5. ASSUME NEW j \in Iterations, FoundAt(j)
          PROVE  j = i
      <4>1. j \in S /\ i <= j
        BY <3>2, <3>5 DEF FoundAt
      <4>2. ~(i \in 0 .. j - 1)
        BY <3>5 DEF FoundAt
      <4>3. QED
        BY <4>1, <4>2, SizeAssumption DEF Iterations
    <3>6. QED
      BY <3>4, <3>5
  <2>4. QED
    BY <2>2, <2>3 DEF GivesUpIffFull
<1>2. QED
  BY <1>1, BitsInRange, PTL
=============================================================================
