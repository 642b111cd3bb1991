---------------------- MODULE StreamProcessorLifecycle ----------------------
(***************************************************************************)
(* What the client stream processor promises to struct mrpc_client: it     *)
(* processes one connection after another, hands out request streams only  *)
(* while it works, and a connection is over only when every stream has     *)
(* been given back.  A stop is either for the connection in progress or,   *)
(* between two connections, for the next one.                              *)
(***************************************************************************)
EXTENDS Integers

CONSTANT Streams             \* the request streams there are

VARIABLES
    state,                   \* enum client_stream_processor_state
    processing,              \* inside process_stream
    active                   \* the streams handed out

lifeVars == <<state, processing, active>>

Init ==
    /\ state = "STOPPED"
    /\ processing = FALSE
    /\ active = {}

\* process_stream begins with a new connection
ProcessStream ==
    /\ ~processing
    /\ state = "STOPPED"
    /\ state' = "WORKING"
    /\ processing' = TRUE
    /\ UNCHANGED active

\* mutant: the instruction to stop is not forgotten
RefuseForever ==
    /\ ~processing
    /\ state = "STOP_INITIATED"
    /\ UNCHANGED lifeVars

\* process_stream returns at once: it was told to stop beforehand
RefuseStream ==
    /\ ~processing
    /\ state = "STOP_INITIATED"
    /\ state' = "STOPPED"
    /\ UNCHANGED <<processing, active>>

\* stop_async, called by a fiber or after an error of the connection
StopAsync ==
    /\ state' = "STOP_INITIATED"
    /\ UNCHANGED <<processing, active>>

\* create_request_stream
AcquireStream(s) ==
    /\ state = "WORKING"
    /\ s \notin active
    /\ active' = active \cup {s}
    /\ UNCHANGED <<state, processing>>

\* the stream is deleted; if the call failed, the connection is stopped as well
ReleaseStream(s) ==
    /\ s \in active
    /\ active' = active \ {s}
    /\ state' \in {state, "STOP_INITIATED"}
    /\ UNCHANGED processing

\* mutant: the streams are not waited for
FinishEarly ==
    /\ processing
    /\ state = "STOP_INITIATED"
    /\ state' = "STOPPED"
    /\ processing' = FALSE
    /\ UNCHANGED active

\* process_stream returns
Finish ==
    /\ processing
    /\ state = "STOP_INITIATED"
    /\ active = {}
    /\ state' = "STOPPED"
    /\ processing' = FALSE
    /\ UNCHANGED active

Next ==
    \/ ProcessStream \/ RefuseStream \/ StopAsync \/ Finish
    \/ \E s \in Streams : AcquireStream(s) \/ ReleaseStream(s)

Spec == Init /\ [][Next]_lifeVars
=============================================================================
