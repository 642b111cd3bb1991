-------------------------- MODULE MrpcClientProofs --------------------------
(***************************************************************************)
(* Proofs about MrpcClient: what mrpc_client_stop has achieved when it     *)
(* returns, and that the stream processor gets one connection at a time.   *)
(***************************************************************************)
EXTENDS MrpcClient, TLAPS

(***************************************************************************)
(* The inductive invariant: where the application, the connector, the main *)
(* fiber and the stream processor are with respect to each other.          *)
(***************************************************************************)
Positions ==
    /\ stream_connector = "NULL" <=> app = "stopped"
    /\ stream_connector = "initialized" <=> app = "started"
    /\ app = "stopped" => main_client = "none" /\ ~stop_event
    /\ app = "started" => main_client # "none" /\ ~stop_event
    /\ app = "stopping" => (main_client = "none" <=> stop_event)
    /\ processing <=> main_client = "process_stream"
    /\ state = "WORKING" => processing
    /\ processing => state # "STOPPED"
    /\ active # {} => processing

ClientInv == TypeOK /\ Positions

LEMMA ClientInit == Init => ClientInv
  <1> SUFFICES ASSUME Init PROVE ClientInv
    OBVIOUS
  <1>1. tries \in [Callers -> 0 .. MaxTries]
    BY MrpcClientAssumption DEF Init
  <1>2. starts \in 0 .. MaxStarts /\ failures \in 0 .. MaxFailures /\ calls \in 0 .. MaxCalls
    BY MrpcClientAssumption DEF Init
  <1>3. TypeOK
    BY <1>1, <1>2, Zenon DEF Init, Processor!Init, TypeOK
  <1>4. Positions
    BY DEF Init, Processor!Init, Positions
  <1> QED
    BY <1>3, <1>4 DEF ClientInv

LEMMA ClientStep == ClientInv /\ [Next]_vars => ClientInv'
  <1> SUFFICES ASSUME ClientInv, [Next]_vars PROVE ClientInv'
    OBVIOUS
  <1> USE MrpcClientAssumption
      DEF ClientInv, TypeOK, Positions, processor, appVars, bounds
  <1>1. CASE Start
    <2>1. asked' \in BOOLEAN
      BY <1>1, Zenon DEF Start
    <2> QED
      BY <1>1, <2>1 DEF Start
  <1>2. CASE Stop
    BY <1>2 DEF Stop, Processor!StopAsync
  <1>3. CASE StopReturns
    BY <1>3 DEF StopReturns
  <1>4. CASE Connect
    BY <1>4 DEF Connect, Processor!ProcessStream
  <1>5. CASE ConnectInVain
    BY <1>5 DEF ConnectInVain, Processor!RefuseStream
  <1>6. CASE MainReturns
    BY <1>6 DEF MainReturns
  <1>7. CASE ConnectionFails
    BY <1>7 DEF ConnectionFails, Processor!StopAsync
  <1>8. CASE ProcessStreamReturns
    BY <1>8 DEF ProcessStreamReturns, Processor!Finish
  <1>9. ASSUME NEW c \in Callers, StartCall(c) PROVE ClientInv'
    BY <1>9 DEF StartCall, FirstTries
  <1>10. ASSUME NEW c \in Callers, CreateRequestStream(c) PROVE ClientInv'
    BY <1>10 DEF CreateRequestStream, Processor!AcquireStream
  <1>11. ASSUME NEW c \in Callers, TryInVain(c) PROVE ClientInv'
    BY <1>11 DEF TryInVain
  <1>12. ASSUME NEW c \in Callers, CallHasNoStream(c) PROVE ClientInv'
    BY <1>12 DEF CallHasNoStream, Processor!StopAsync
  <1>13. ASSUME NEW c \in Callers, CallEnds(c) PROVE ClientInv'
    BY <1>13 DEF CallEnds, Processor!ReleaseStream
  <1>14. CASE UNCHANGED vars
    BY <1>14 DEF vars
  <1>15. CASE Terminated
    BY <1>14, <1>15 DEF Terminated
  <1> QED
    BY <1>1, <1>2, <1>3, <1>4, <1>5, <1>6, <1>7, <1>8, <1>9, <1>10, <1>11,
       <1>12, <1>13, <1>14, <1>15 DEF Next, CallerStep

\* The types of the state; in particular a call never makes more than MaxTries
\* tries to get a request stream.
THEOREM TypeCorrect == Spec => []TypeOK
  <1>1. ClientInv => TypeOK
    BY DEF ClientInv
  <1> QED
    BY <1>1, ClientInit, ClientStep, PTL DEF Spec

\* When mrpc_client_stop has returned, main_client_func has ended, no connection
\* is being processed and no caller holds a request stream.
THEOREM StopCorrect == Spec => []StoppedMeansStopped
  <1>1. ClientInv => StoppedMeansStopped
    BY DEF ClientInv, Positions, StoppedMeansStopped
  <1> QED
    BY <1>1, ClientInit, ClientStep, PTL DEF Spec

\* What process_stream asserts when it is called, and main_client_func of its
\* connector: the processor is free, nobody holds a stream of an earlier
\* connection and the connector has not been deleted.
ProcessorReady ==
    /\ main_client = "connect" =>
         ~processing /\ active = {} /\ state # "WORKING"
    /\ main_client # "none" => stream_connector # "NULL"

\* main_client_func hands the processor one connection at a time, however
\* callers, failures, stops and new starts overlap: the assertions with which
\* process_stream begins cannot fail.
THEOREM AssertionsHold == Spec => []ProcessorReady
  <1>1. ClientInv => ProcessorReady
    BY DEF ClientInv, TypeOK, Positions, ProcessorReady
  <1> QED
    BY <1>1, ClientInit, ClientStep, PTL DEF Spec
=============================================================================
