----------------------------- MODULE MrpcServer -----------------------------
(***************************************************************************)
(* struct mrpc_server: the application that starts and stops it, the fiber *)
(* main_server_func, which accepts connections and gives each of them a    *)
(* stream processor of the pool, and the stream processors, which come     *)
(* back to the pool by themselves.  A stream processor is seen from        *)
(* outside here: it works, has been told to stop, or is stopped.  Module   *)
(* ServerStreamProcessor says what happens inside: StoppedMeansStopped and *)
(* StopCompletesUnlessStarved there are what is assumed of it here, with a *)
(* pool of packets that does not stay empty for ever.                      *)
(***************************************************************************)
EXTENDS Integers, FiniteSets

CONSTANTS
    Processors,              \* the entries of stream_processors_pool
    MaxStarts,               \* bound on the calls of mrpc_server_start
    MaxClients               \* bound on the connections of clients

ASSUME MrpcServerAssumption ==
    /\ IsFiniteSet(Processors) /\ Processors # {}
    /\ MaxStarts \in Nat
    /\ MaxClients \in Nat

VARIABLES
    app,                           \* the application: where it is
    stream_acceptor,               \* NULL, initialized or shut down
    main_server,                   \* where main_server_func is
    active_stream_processors,      \* the processors whose slot is not NULL
    active_stream_processors_cnt,
    stream_processors_stop_event,  \* set or not
    stop_event,                    \* set or not
    state,                         \* of each stream processor
    starts, clients                \* for the bounds

activeVars == <<active_stream_processors, active_stream_processors_cnt,
                stream_processors_stop_event>>
appVars    == <<app, stream_acceptor, starts>>
vars == <<appVars, main_server, activeVars, stop_event, state, clients>>

max_stream_processors_cnt == Cardinality(Processors)

(***************************************************************************)
(* mrpc_server_create                                                      *)
(***************************************************************************)
Init ==
    /\ app = "stopped"
    /\ stream_acceptor = "NULL"
    /\ main_server = "none"
    /\ active_stream_processors = {}
    /\ active_stream_processors_cnt = 0
    /\ stream_processors_stop_event = FALSE
    /\ stop_event = FALSE
    /\ state = [p \in Processors |-> "STOPPED"]
    /\ starts = 0
    /\ clients = 0

-----------------------------------------------------------------------------
(***************************************************************************)
(* The application                                                         *)
(***************************************************************************)

\* mrpc_server_start
Start ==
    /\ app = "stopped"
    /\ starts < MaxStarts
    /\ starts' = starts + 1
    /\ app' = "started"
    /\ stream_acceptor' = "initialized"
    /\ main_server' = "begin"
    /\ UNCHANGED <<activeVars, stop_event, state, clients>>

\* mrpc_server_stop, up to its wait for stop_event
Stop ==
    /\ app = "started"
    /\ app' = "stopping"
    /\ stream_acceptor' = "shutdown"
    /\ UNCHANGED <<starts, main_server, activeVars, stop_event, state, clients>>

\* its wait ends
StopReturns ==
    /\ app = "stopping"
    /\ stop_event
    /\ stop_event' = FALSE
    /\ app' = "stopped"
    /\ stream_acceptor' = "NULL"
    /\ UNCHANGED <<starts, main_server, activeVars, state, clients>>

-----------------------------------------------------------------------------
(***************************************************************************)
(* main_server_func                                                        *)
(***************************************************************************)

MainBegins ==
    /\ main_server = "begin"
    /\ stream_processors_stop_event' = TRUE
    /\ main_server' = "accept"
    /\ UNCHANGED <<appVars, active_stream_processors, stop_event, state,
                   active_stream_processors_cnt, clients>>

\* mutant: the event is not reset
AcquireKeepsEvent(p) ==
    /\ active_stream_processors' = active_stream_processors \cup {p}
    /\ active_stream_processors_cnt' = active_stream_processors_cnt + 1
    /\ state' = [state EXCEPT ![p] = "WORKING"]
    /\ UNCHANGED stream_processors_stop_event

\* acquire_stream_processor gets entry p of the pool, and
\* mrpc_server_stream_processor_start starts it
AcquireStreamProcessor(p) ==
    /\ active_stream_processors' = active_stream_processors \cup {p}
    /\ active_stream_processors_cnt' = active_stream_processors_cnt + 1
    /\ stream_processors_stop_event' =
         IF active_stream_processors_cnt + 1 = 1 THEN FALSE
                                                 ELSE stream_processors_stop_event
    /\ state' = [state EXCEPT ![p] = "WORKING"]

FreeProcessors == Processors \ active_stream_processors

\* a client connects; its connection gets a processor, or waits for one in
\* ff_pool_acquire_entry
Accept ==
    /\ main_server = "accept"
    /\ stream_acceptor = "initialized"
    /\ clients < MaxClients
    /\ clients' = clients + 1
    /\ \/ /\ \E p \in FreeProcessors : AcquireStreamProcessor(p)
          /\ UNCHANGED main_server
       \/ /\ FreeProcessors = {}
          /\ main_server' = "pool"
          /\ UNCHANGED <<activeVars, state>>
    /\ UNCHANGED <<appVars, stop_event>>

\* the wait for a processor ends
GetPooledProcessor ==
    /\ main_server = "pool"
    /\ \E p \in FreeProcessors : AcquireStreamProcessor(p)
    /\ main_server' = "accept"
    /\ UNCHANGED <<appVars, stop_event, clients>>

\* mutant: the last slot is not looked at
StopAllButOne == {p \in Processors : p # CHOOSE q \in Processors : TRUE}

\* the slots the loop of stop_all_stream_processors looks at
StopLoop == Processors

\* the acceptor has been shut down and returns NULL: the loop of
\* stop_all_stream_processors
StopAllStreamProcessors ==
    /\ main_server = "accept"
    /\ stream_acceptor = "shutdown"
    /\ state' = [p \in Processors |->
         IF p \in StopLoop \cap active_stream_processors THEN "STOP_INITIATED"
                                                         ELSE state[p]]
    /\ main_server' = "wait_processors"
    /\ UNCHANGED <<appVars, activeVars, stop_event, clients>>

\* mutant: the processors are not waited for
MainEndsEarly ==
    /\ main_server = "wait_processors"
    /\ stream_processors_stop_event' = FALSE
    /\ stop_event' = TRUE
    /\ main_server' = "none"
    /\ UNCHANGED <<appVars, active_stream_processors, state,
                   active_stream_processors_cnt, clients>>

\* its wait for the processors ends
MainEnds ==
    /\ main_server = "wait_processors"
    /\ stream_processors_stop_event
    /\ stream_processors_stop_event' = FALSE
    /\ stop_event' = TRUE
    /\ main_server' = "none"
    /\ UNCHANGED <<appVars, active_stream_processors, state,
                   active_stream_processors_cnt, clients>>

MainStep ==
    \/ MainBegins \/ Accept \/ GetPooledProcessor
    \/ StopAllStreamProcessors \/ MainEnds

-----------------------------------------------------------------------------
(***************************************************************************)
(* The stream processors                                                   *)
(***************************************************************************)

\* the client goes away or makes a mistake: the processor stops by itself
ConnectionFails(p) ==
    /\ state[p] = "WORKING"
    /\ state' = [state EXCEPT ![p] = "STOP_INITIATED"]
    /\ UNCHANGED <<appVars, main_server, activeVars, stop_event, clients>>

\* mutant: the processor is released before it has stopped
ReleaseBeforeStop(p) ==
    /\ active_stream_processors' = active_stream_processors \ {p}
    /\ active_stream_processors_cnt' = active_stream_processors_cnt - 1
    /\ stream_processors_stop_event' =
         IF active_stream_processors_cnt - 1 = 0 THEN TRUE
                                                 ELSE stream_processors_stop_event
    /\ UNCHANGED state

\* the end of stream_reader_func: release_func is release_stream_processor
ReleaseStreamProcessor(p) ==
    /\ active_stream_processors' = active_stream_processors \ {p}
    /\ active_stream_processors_cnt' = active_stream_processors_cnt - 1
    /\ stream_processors_stop_event' =
         IF active_stream_processors_cnt - 1 = 0 THEN TRUE
                                                 ELSE stream_processors_stop_event
    /\ state' = [state EXCEPT ![p] = "STOPPED"]

ProcessorEnds(p) ==
    /\ state[p] = "STOP_INITIATED"
    /\ ReleaseStreamProcessor(p)
    /\ UNCHANGED <<appVars, main_server, stop_event, clients>>

\* nothing is left to do within the bounds of the instance
Terminated ==
    /\ app = "stopped" /\ starts = MaxStarts
    /\ UNCHANGED vars

Next ==
    \/ Start \/ Stop \/ StopReturns
    \/ MainStep
    \/ \E p \in Processors : ConnectionFails(p) \/ ProcessorEnds(p)
    \/ Terminated

Spec == Init /\ [][Next]_vars

(***************************************************************************)
(* Fairness: runnable fibers run, and a processor that has been told to    *)
(* stop does.  No client has to connect or to go away.                     *)
(***************************************************************************)
Fairness ==
    /\ WF_vars(MainBegins \/ GetPooledProcessor \/ StopAllStreamProcessors \/ MainEnds)
    /\ WF_vars(StopReturns)
    /\ \A p \in Processors : WF_vars(ProcessorEnds(p))

FairSpec == Spec /\ Fairness

-----------------------------------------------------------------------------
(***************************************************************************)
(* Properties                                                              *)
(***************************************************************************)

\* The types of the state; the counter stays within the pool, as the assertions
\* of acquire_stream_processor and release_stream_processor say.
TypeOK ==
    /\ app \in {"stopped", "started", "stopping"}
    /\ stream_acceptor \in {"NULL", "initialized", "shutdown"}
    /\ main_server \in {"none", "begin", "accept", "pool", "wait_processors"}
    /\ active_stream_processors \subseteq Processors
    /\ active_stream_processors_cnt \in 0 .. max_stream_processors_cnt
    /\ stream_processors_stop_event \in BOOLEAN /\ stop_event \in BOOLEAN
    /\ state \in [Processors -> {"STOPPED", "WORKING", "STOP_INITIATED"}]
    /\ starts \in 0 .. MaxStarts /\ clients \in 0 .. MaxClients

\* The processors out of the pool are the ones that run, and the counter counts
\* them: stop_all_stream_processors tells no stopped processor to stop (the
\* assertion of stop_async), and a connection never gets a processor that is
\* not yet stopped (the assertion of start).
ActiveProcessorsRun ==
    /\ active_stream_processors = {p \in Processors : state[p] # "STOPPED"}
    /\ active_stream_processors_cnt = Cardinality(active_stream_processors)

\* The event that ends the stop is set only while no processor is active, and
\* the last release is never missed, although connections come and go and the
\* event is written by the main fiber and by the processors.
StopEventTruthful ==
    /\ stream_processors_stop_event => active_stream_processors = {}
    /\ main_server \in {"accept", "wait_processors"} /\ active_stream_processors = {}
         => stream_processors_stop_event

\* "returns only when the server is stopped": after mrpc_server_stop no fiber
\* of the server is left, no connection is served, and both events are ready
\* for the next start.
StoppedMeansStopped ==
    app = "stopped" =>
        /\ main_server = "none"
        /\ active_stream_processors = {}
        /\ ~stop_event /\ ~stream_processors_stop_event

\* mrpc_server_stop returns, whatever the clients do, unless it is called while
\* a connection waits for a stream processor: then nobody tells the processors
\* to stop, and the wait ends only if some client goes away.
StopEndsUnlessCrowded ==
    (app = "stopping" /\ main_server # "pool") ~> (app = "stopped")
=============================================================================
