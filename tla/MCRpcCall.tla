----------------------------- MODULE MCRpcCall -----------------------------
(***************************************************************************)
(* An interface with three methods, which use all types.  Integers have    *)
(* three and five bits, in octets of two.                                  *)
(***************************************************************************)
EXTENDS RpcCall

MCMethods ==
    << [request |-> <<"char_array">>, response |-> <<"wchar_array", "blob">>],
       [request |-> <<"blob">>, response |-> <<>>],
       [request |-> <<"uint32", "int32">>, response |-> <<"uint64", "int64">>] >>

\* all integers of the narrow types; arrays and blobs up to their longest;
\* of the wide types those where the number of octets or the sign changes
MCArguments ==
    << { <<a>> : a \in {<<>>, <<0, 7>>} },
       { <<b>> : b \in {<<>>, <<5>>, <<4, 0, 7>>} },
       {<<n, n - 4>> : n \in 0 .. 7} >>

MCValuesOf ==
    [uint64 |-> {0, 3, 4, 15, 16, 31},
     int64 |-> {-16, -9, -8, -1, 0, 1, 7, 8, 15},
     wchar_array |-> {<<>>, <<0, 3>>},
     blob |-> {<<>>, <<5>>, <<4, 0, 7>>}]
=============================================================================
