----------------------------- MODULE MrpcClient -----------------------------
(***************************************************************************)
(* struct mrpc_client: the fiber main_client_func, which connects again    *)
(* and again, the application that starts and stops the client, and the    *)
(* fibers that call its methods.  Its stream processor is the one of       *)
(* module StreamProcessorLifecycle, with the streams named after the       *)
(* callers that hold them; ClientStreamProcessor shows that the code       *)
(* implements that module.                                                 *)
(***************************************************************************)
EXTENDS Integers, FiniteSets

CONSTANTS
    Callers,                 \* fibers that make rpc calls
    MaxTries,                \* MAX_CREATE_REQUEST_STREAM_TRIES_CNT
    MaxStarts,               \* bound on the calls of mrpc_client_start
    MaxFailures,             \* bound on the failures of the connection
    MaxCalls,                \* bound on the number of calls
    EndlessCalls             \* TRUE: the callers never stop calling

ASSUME MrpcClientAssumption ==
    /\ MaxTries \in Nat \ {0}
    /\ MaxStarts \in Nat
    /\ MaxFailures \in Nat
    /\ MaxCalls \in Nat
    /\ EndlessCalls \in BOOLEAN

VARIABLES
    state, processing, active,   \* the stream processor
    app,                         \* the application: where it is
    stream_connector,            \* NULL, initialized or shut down
    main_client,                 \* where main_client_func is
    stop_event,                  \* set or not
    tries,                       \* tries_cnt of each caller, 0: not calling
    asked,                       \* a stop or reset since the client started
    starts, failures, calls      \* for the bounds

processor == <<state, processing, active>>
appVars   == <<app, stream_connector, starts>>
bounds    == <<failures, calls>>
vars == <<processor, appVars, main_client, stop_event, tries, asked, bounds>>

Processor == INSTANCE StreamProcessorLifecycle WITH Streams <- Callers

(***************************************************************************)
(* mrpc_client_create                                                      *)
(***************************************************************************)
Init ==
    /\ Processor!Init
    /\ app = "stopped"
    /\ stream_connector = "NULL"
    /\ main_client = "none"
    /\ stop_event = FALSE
    /\ tries = [c \in Callers |-> 0]
    /\ asked = FALSE
    /\ starts = 0
    /\ failures = 0
    /\ calls = 0

-----------------------------------------------------------------------------
(***************************************************************************)
(* The application                                                         *)
(***************************************************************************)

\* mrpc_client_start
Start ==
    /\ app = "stopped"
    /\ starts < MaxStarts
    /\ starts' = starts + 1
    /\ app' = "started"
    /\ stream_connector' = "initialized"
    /\ main_client' = "connect"
    /\ asked' = FALSE
    /\ UNCHANGED <<processor, stop_event, tries, bounds>>

\* mutant: the connector is not shut down
StopKeepsConnector ==
    /\ app = "started"
    /\ app' = "stopping"
    /\ Processor!StopAsync
    /\ asked' = TRUE
    /\ UNCHANGED <<stream_connector, starts, main_client, stop_event, tries, bounds>>

\* mrpc_client_stop, up to its wait for stop_event
Stop ==
    /\ app = "started"
    /\ app' = "stopping"
    /\ stream_connector' = "shutdown"
    /\ Processor!StopAsync
    /\ asked' = TRUE
    /\ UNCHANGED <<starts, main_client, stop_event, tries, bounds>>

\* its wait ends
StopReturns ==
    /\ app = "stopping"
    /\ stop_event
    /\ stop_event' = FALSE
    /\ app' = "stopped"
    /\ stream_connector' = "NULL"
    /\ UNCHANGED <<processor, starts, main_client, tries, asked, bounds>>

-----------------------------------------------------------------------------
(***************************************************************************)
(* main_client_func                                                        *)
(***************************************************************************)

\* ff_stream_connector_connect returns a connection and process_stream begins
Connect ==
    /\ main_client = "connect"
    /\ stream_connector = "initialized"
    /\ Processor!ProcessStream
    /\ main_client' = "process_stream"
    /\ UNCHANGED <<appVars, stop_event, tries, asked, bounds>>

\* it returns a connection that process_stream refuses
ConnectInVain ==
    /\ main_client = "connect"
    /\ stream_connector = "initialized"
    /\ Processor!RefuseStream
    /\ UNCHANGED <<appVars, main_client, stop_event, tries, asked, bounds>>

\* it returns NULL: the connector has been shut down
MainReturns ==
    /\ main_client = "connect"
    /\ stream_connector = "shutdown"
    /\ main_client' = "none"
    /\ stop_event' = TRUE
    /\ UNCHANGED <<processor, appVars, tries, asked, bounds>>

\* external: the connection fails, and the reader or the writer fiber stops
ConnectionFails ==
    /\ main_client = "process_stream"
    /\ state = "WORKING"
    /\ failures < MaxFailures
    /\ failures' = failures + 1
    /\ Processor!StopAsync
    /\ UNCHANGED <<appVars, main_client, stop_event, tries, asked, calls>>

\* process_stream returns
ProcessStreamReturns ==
    /\ main_client = "process_stream"
    /\ Processor!Finish
    /\ main_client' = "connect"
    /\ UNCHANGED <<appVars, stop_event, tries, asked, bounds>>

-----------------------------------------------------------------------------
(***************************************************************************)
(* Callers                                                                 *)
(***************************************************************************)

\* tries_cnt when a call begins
FirstTries == MaxTries

\* this try is the last one
OutOfTries(c) == tries[c] = 1

\* a client method is called
StartCall(c) ==
    /\ tries[c] = 0 /\ c \notin active
    /\ calls' = IF EndlessCalls THEN calls ELSE calls + 1
    /\ calls' <= MaxCalls
    /\ tries' = [tries EXCEPT ![c] = FirstTries]
    /\ UNCHANGED <<processor, appVars, main_client, stop_event, asked, failures>>

\* one try of mrpc_client_create_request_stream: it succeeds ...
CreateRequestStream(c) ==
    /\ tries[c] > 0
    /\ Processor!AcquireStream(c)
    /\ tries' = [tries EXCEPT ![c] = 0]
    /\ UNCHANGED <<appVars, main_client, stop_event, asked, bounds>>

\* ... or fails and the caller sleeps before the next try ...
TryInVain(c) ==
    /\ tries[c] > 0 /\ ~OutOfTries(c)
    /\ state # "WORKING"
    /\ tries' = [tries EXCEPT ![c] = @ - 1]
    /\ UNCHANGED <<processor, appVars, main_client, stop_event, asked, bounds>>

\* ... or the method fails and calls mrpc_client_reset_connection
CallHasNoStream(c) ==
    /\ OutOfTries(c)
    /\ state # "WORKING"
    /\ tries' = [tries EXCEPT ![c] = 0]
    /\ Processor!StopAsync
    /\ asked' = TRUE
    /\ UNCHANGED <<appVars, main_client, stop_event, bounds>>

\* the call ends and its stream is deleted; a call that fails resets the
\* connection
CallEnds(c) ==
    /\ Processor!ReleaseStream(c)
    /\ asked' = (asked \/ state' # state)
    /\ UNCHANGED <<appVars, main_client, stop_event, tries, bounds>>

CallerStep(c) ==
    \/ StartCall(c) \/ CreateRequestStream(c) \/ TryInVain(c)
    \/ CallHasNoStream(c) \/ CallEnds(c)

\* nothing is left to do within the bounds of the instance
Terminated ==
    /\ app = "stopped" /\ starts = MaxStarts
    /\ ~EndlessCalls /\ calls = MaxCalls /\ \A c \in Callers : tries[c] = 0
    /\ UNCHANGED vars

Next ==
    \/ Start \/ Stop \/ StopReturns
    \/ Connect \/ ConnectInVain \/ MainReturns
    \/ ConnectionFails \/ ProcessStreamReturns
    \/ \E c \in Callers : CallerStep(c)
    \/ Terminated

Spec == Init /\ [][Next]_vars

(***************************************************************************)
(* Fairness.  The server can be reached, so that connecting ends; a call   *)
(* in progress ends, at the latest after READ_TIMEOUT, and process_stream  *)
(* returns (CallsEndUnlessStarved and StopCompletesUnlessStarved of module *)
(* ClientStreamProcessor: the packets are taken not to run out for ever);  *)
(* sleeps end.  Nobody has to start a call, and no connection has to fail. *)
(***************************************************************************)
MainStep == Connect \/ ConnectInVain \/ MainReturns \/ ProcessStreamReturns

CallGoesOn(c) ==
    CreateRequestStream(c) \/ TryInVain(c) \/ CallHasNoStream(c) \/ CallEnds(c)

FairSpec ==
    /\ Spec
    /\ WF_vars(MainStep) /\ WF_vars(StopReturns)
    /\ \A c \in Callers : WF_vars(CallGoesOn(c))

-----------------------------------------------------------------------------
(***************************************************************************)
(* Properties                                                              *)
(***************************************************************************)

\* The types of the state; a call makes at most MaxTries tries.
TypeOK ==
    /\ state \in {"STOPPED", "WORKING", "STOP_INITIATED"}
    /\ processing \in BOOLEAN /\ active \subseteq Callers
    /\ app \in {"stopped", "started", "stopping"}
    /\ stream_connector \in {"NULL", "initialized", "shutdown"}
    /\ main_client \in {"none", "connect", "process_stream"}
    /\ stop_event \in BOOLEAN /\ asked \in BOOLEAN
    /\ tries \in [Callers -> 0 .. MaxTries]
    /\ starts \in 0 .. MaxStarts /\ failures \in 0 .. MaxFailures
    /\ calls \in 0 .. MaxCalls

\* "This function returns only when the client is stopped": after
\* mrpc_client_stop the main fiber is gone, no connection is processed, no
\* request stream is in use, and the stop event is ready for the next stop.
StoppedMeansStopped ==
    app = "stopped" =>
        /\ main_client = "none"
        /\ ~processing /\ active = {}
        /\ ~stop_event

\* mrpc_client_stop returns, whatever the callers do at the same time.
StopEnds == (app = "stopping") ~> (app = "stopped")

\* "The client is able to automatically reconnect to the mrpc server on
\* errors": a started client that is not stopped gets back to work.
Reconnects == (app = "started") ~> (state = "WORKING" \/ app # "started")

\* "After the client is stopped, it can be started again": a connection made
\* by a started client is refused only if somebody has asked for a stop or a
\* reset since the client was started.  This does not hold: a stop during a
\* connection attempt is still remembered after the next start.
RefusedOnlyIfAsked ==
    [][main_client = "connect" /\ Processor!RefuseStream => asked]_vars
=============================================================================
