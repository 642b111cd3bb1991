------------------------ MODULE MCDistributedClient ------------------------
(***************************************************************************)
(* Three servers with two points each on a ring of two buckets of three.   *)
(***************************************************************************)
EXTENDS DistributedClient

\* the points of each server
Placed(points) == [ki \in Keys \X Points |-> points[ki[1]][ki[2] + 1]]

\* points that alternate; points of one server in one bucket, twice in the
\* same place; points that two servers share
MCHashes ==
    {Placed(<< <<0, 3>>, <<1, 4>>, <<2, 5>> >>),
     Placed(<< <<0, 1>>, <<2, 2>>, <<3, 5>> >>),
     Placed(<< <<0, 3>>, <<0, 4>>, <<1, 3>> >>)}
=============================================================================
