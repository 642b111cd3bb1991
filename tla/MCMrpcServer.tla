---------------------------- MODULE MCMrpcServer ----------------------------
(***************************************************************************)
(* struct mrpc_server with the bitmap that numbers its stream processors,  *)
(* for TLC.  The bitmap has states of its own that only the creation and   *)
(* the deletion of pool entries change: it takes its steps independently   *)
(* of the fibers of the server, in any order.                              *)
(***************************************************************************)
EXTENDS MrpcServer, Bitmap

MCInit == Init /\ BitmapInit

MCNext ==
    \/ Next /\ UNCHANGED bitmapVars
    \/ BitmapNext /\ UNCHANGED vars

MCSpec ==
    /\ MCInit
    /\ [][MCNext]_<<vars, bitmapVars>>
    /\ Fairness
=============================================================================
