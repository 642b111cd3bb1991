---------------------- MODULE MCClientStreamProcessor ----------------------
(***************************************************************************)
(* An instance of ClientStreamProcessor for TLC.  Callers are model values *)
(* and interchangeable.  Long messages and a faulty server are looked at   *)
(* one at a time: once the server has sent a packet nobody asked for, TLC  *)
(* goes on only while there have been at most two calls and the requests   *)
(* and responses under way have one packet.                                *)
(***************************************************************************)
EXTENDS ClientStreamProcessor, TLC

CallerSymmetry == Permutations(Callers)

IsShort(packets) ==
    \A i \in DOMAIN packets : packets[i].call > 0 => packets[i].type = "SINGLE"

ShortCalls ==
    /\ calls <= 2
    /\ \A c \in Callers : caller[c].left <= 1
    /\ IsShort(writer_queue) /\ IsShort(unflushed)
    /\ IsShort(outbound) /\ IsShort(inbound)
    /\ \A s \in RequestIds : IsShort(responses[s]) /\ IsShort(reader_queue[s])

ShortWithFaultyServer == garbage > 0 => ShortCalls
=============================================================================
