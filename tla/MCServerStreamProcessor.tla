---------------------- MODULE MCServerStreamProcessor ----------------------
(***************************************************************************)
(* An instance of ServerStreamProcessor for TLC.  The entries of the pool  *)
(* of streams are model values and interchangeable.  Long messages and a   *)
(* faulty client are looked at one at a time: once the client has sent a   *)
(* packet out of turn, TLC goes on only while the requests in progress     *)
(* have one packet and no response has more than one packet to go.         *)
(***************************************************************************)
EXTENDS ServerStreamProcessor, TLC

StreamSymmetry == Permutations(Streams)

ShortRequests ==
    /\ \A i \in RequestIds : client[i].size <= 1
    /\ \A s \in Streams : worker[s].left <= 1

ShortWithFaultyClient == garbage > 0 => ShortRequests
=============================================================================
