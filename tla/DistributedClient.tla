-------------------------- MODULE DistributedClient --------------------------
(***************************************************************************)
(* struct mrpc_distributed_client: a set of clients, one per server, and   *)
(* the ring of module ConsistentHash that chooses the client of a request. *)
(* A controller, supplied by the application, says which servers there     *)
(* are; the fiber distributed_client_main_func follows its messages while  *)
(* other fibers acquire clients, use them and release them.  Each client   *)
(* sits in a wrapper that counts its users.                                *)
(*                                                                         *)
(* Fibers are scheduled cooperatively: a step goes from one blocking call  *)
(* to the next.  The clients are those of module MrpcClient, of which only *)
(* the start and the stop are seen here.                                   *)
(***************************************************************************)
EXTENDS ConsistentHash, FiniteSets

CONSTANTS
    Callers,                 \* fibers that make rpc calls
    MaxTries,                \* ACQUIRE_CLIENT_MAX_TRIES_CNT
    MaxAdds,                 \* bound on the ADD_CLIENT messages
    MaxStarts                \* bound on mrpc_distributed_client_start

ASSUME DistributedClientAssumption ==
    /\ MaxTries \in Nat \ {0}
    /\ MaxAdds \in Nat
    /\ MaxStarts \in Nat
    /\ IsFiniteSet(Values) /\ IsFiniteSet(Callers)

\* the entries of client_wrappers_pool; there are max_clients_cnt of them
Wrappers == Values
Connectors == 1 .. MaxAdds

VARIABLES
    controller,              \* NULL, initialized or shut down
    main,                    \* where distributed_client_main_func is ...
    job,                     \* ... what it is doing there ...
    leaving,                 \* ... and the wrapper that it stops
    stop_event,              \* of the distributed client
    clients_map,             \* the dictionary, from keys to wrappers
    pool,                    \* client_wrappers_pool
    current_clients_cnt,
    connector,               \* stream_connector of each wrapper, 0: NULL
    client,                  \* its client: stopped, started or stopping
    idle_event,              \* its stop_event
    ref_cnt,                 \* its number of users
    tries,                   \* tries_cnt of each caller, 0: not trying
    cookie,                  \* the wrapper that each caller holds
    crashed,                 \* an assertion has failed
    adds, deleted,           \* connectors given by the controller, and deleted
    starts                   \* for the bound

mainVars    == <<main, job, leaving, stop_event>>
mapVars     == <<clients_map, pool, current_clients_cnt>>
wrapperVars == <<connector, client, idle_event, ref_cnt>>
callerVars  == <<tries, cookie>>
givenVars   == <<adds, deleted>>
vars == <<ringVars, controller, mainVars, mapVars, wrapperVars, callerVars,
          crashed, givenVars, starts>>

Servers == DOMAIN clients_map
EmptyMap == [k \in {} |-> NoValue]

\* mrpc_distributed_client_create
Init ==
    /\ RingInit
    /\ controller = "NULL"
    /\ main = "none" /\ job = "none" /\ leaving = NoValue
    /\ stop_event = FALSE
    /\ clients_map = EmptyMap
    /\ pool = Wrappers
    /\ current_clients_cnt = 0
    /\ connector = [w \in Wrappers |-> 0]
    /\ client = [w \in Wrappers |-> "stopped"]
    /\ idle_event = [w \in Wrappers |-> FALSE]
    /\ ref_cnt = [w \in Wrappers |-> 0]
    /\ tries = [c \in Callers |-> 0]
    /\ cookie = [c \in Callers |-> NoValue]
    /\ crashed = FALSE
    /\ adds = 0 /\ deleted = {}
    /\ starts = 0

-----------------------------------------------------------------------------
(***************************************************************************)
(* The application                                                         *)
(***************************************************************************)

\* mrpc_distributed_client_start
Start ==
    /\ controller = "NULL"
    /\ starts < MaxStarts
    /\ starts' = starts + 1
    /\ controller' = "initialized"
    /\ main' = "get_next_message"
    /\ UNCHANGED <<ringVars, job, leaving, stop_event, mapVars, wrapperVars,
                   callerVars, crashed, givenVars>>

\* mrpc_distributed_client_stop, up to its wait for stop_event
Stop ==
    /\ controller = "initialized"
    /\ controller' = "shutdown"
    /\ UNCHANGED <<ringVars, mainVars, mapVars, wrapperVars, callerVars,
                   crashed, givenVars, starts>>

\* its wait ends
StopReturns ==
    /\ controller = "shutdown"
    /\ stop_event
    /\ stop_event' = FALSE
    /\ controller' = "NULL"
    /\ UNCHANGED <<ringVars, main, job, leaving, mapVars, wrapperVars,
                   callerVars, crashed, givenVars, starts>>

-----------------------------------------------------------------------------
(***************************************************************************)
(* The wrappers                                                            *)
(***************************************************************************)

\* mrpc_distributed_client_wrapper_start, for a wrapper of the pool
WrapperStart(w) ==
    /\ connector' = [connector EXCEPT ![w] = adds']
    /\ idle_event' = [idle_event EXCEPT ![w] = TRUE]
    /\ client' = [client EXCEPT ![w] = "started"]
    /\ UNCHANGED ref_cnt

\* mrpc_distributed_client_wrapper_stop, up to the wait of mrpc_client_stop
WrapperStop(w, why) ==
    /\ main' = "mrpc_client_stop" /\ job' = why /\ leaving' = w
    /\ client' = [client EXCEPT ![w] = "stopping"]

\* mutant: the event is not reset by the first user
WrapperAcquireKeepsEvent(w) ==
    /\ ref_cnt' = [ref_cnt EXCEPT ![w] = @ + 1]
    /\ UNCHANGED <<connector, client, idle_event>>

\* mrpc_distributed_client_wrapper_acquire_client
WrapperAcquire(w) ==
    /\ ref_cnt' = [ref_cnt EXCEPT ![w] = @ + 1]
    /\ idle_event' = [idle_event EXCEPT ![w] = @ /\ ref_cnt'[w] # 1]
    /\ UNCHANGED <<connector, client>>

\* mutant: the last user does not set the event
WrapperReleaseSilently(w) ==
    /\ ref_cnt' = [ref_cnt EXCEPT ![w] = @ - 1]
    /\ UNCHANGED <<connector, client, idle_event>>

\* mutant: the event is set by every user that leaves
WrapperReleaseAlways(w) ==
    /\ ref_cnt' = [ref_cnt EXCEPT ![w] = @ - 1]
    /\ idle_event' = [idle_event EXCEPT ![w] = TRUE]
    /\ UNCHANGED <<connector, client>>

\* mrpc_distributed_client_wrapper_release_client
WrapperRelease(w) ==
    /\ ref_cnt' = [ref_cnt EXCEPT ![w] = @ - 1]
    /\ idle_event' = [idle_event EXCEPT ![w] = @ \/ ref_cnt'[w] = 0]
    /\ UNCHANGED <<connector, client>>

-----------------------------------------------------------------------------
(***************************************************************************)
(* distributed_client_main_func                                            *)
(***************************************************************************)

\* The controller's get_next_message returns a message that is not STOP: it
\* does so only while it is initialized.  External.
GetNextMessage ==
    /\ main = "get_next_message"
    /\ controller = "initialized"

\* ADD_CLIENT comes with a connector, which add_client owns.
GetConnector ==
    /\ GetNextMessage
    /\ adds < MaxAdds
    /\ adds' = adds + 1

Full == current_clients_cnt = Cardinality(Wrappers)

\* add_client when there are max_clients_cnt clients
AddClientRefused ==
    /\ GetConnector
    /\ Full
    /\ deleted' = deleted \union {adds'}
    /\ UNCHANGED <<ringVars, controller, mainVars, mapVars, wrapperVars,
                   callerVars, crashed, starts>>

\* add_client with a new key
AddClient(k, w) ==
    /\ GetConnector
    /\ ~Full
    /\ k \notin Servers
    /\ w \in pool
    /\ pool' = pool \ {w}
    /\ WrapperStart(w)
    /\ clients_map' = [j \in Servers \union {k} |->
                          IF j = k THEN w ELSE clients_map[j]]
    /\ AddEntry(k, w)
    /\ current_clients_cnt' = current_clients_cnt + 1
    /\ UNCHANGED <<controller, mainVars, callerVars, crashed, deleted, starts>>

\* add_client with a key that the dictionary has: the new client is started
\* and then stopped again
AddClientTwice(k, w) ==
    /\ GetConnector
    /\ ~Full
    /\ k \in Servers
    /\ w \in pool
    /\ pool' = pool \ {w}
    /\ connector' = [connector EXCEPT ![w] = adds']
    /\ idle_event' = [idle_event EXCEPT ![w] = TRUE]
    /\ WrapperStop(w, "add")
    /\ UNCHANGED <<ringVars, controller, stop_event, clients_map, ref_cnt,
                   current_clients_cnt, callerVars, crashed, deleted, starts>>

\* mutant: the points of the server stay on the ring
RemoveClientKeepsPoints(k) ==
    /\ GetNextMessage
    /\ k \in Servers
    /\ clients_map' = Restrict(clients_map, Servers \ {k})
    /\ WrapperStop(clients_map[k], "remove")
    /\ UNCHANGED <<ringVars, controller, stop_event, pool, current_clients_cnt,
                   connector, idle_event, ref_cnt, callerVars, crashed,
                   givenVars, starts>>

\* remove_client; with an unknown key it does nothing
RemoveClient(k) ==
    /\ GetNextMessage
    /\ k \in Servers
    /\ clients_map' = Restrict(clients_map, Servers \ {k})
    /\ RemoveEntry(k)
    /\ WrapperStop(clients_map[k], "remove")
    /\ UNCHANGED <<controller, stop_event, pool, current_clients_cnt,
                   connector, idle_event, ref_cnt, callerVars, crashed,
                   givenVars, starts>>

\* remove_all_clients empties the ring.  The dictionary then calls
\* remove_client_wrapper_entry for one client after the other: RemoveNext.
BeginRemoveAll(why) ==
    /\ RemoveAllEntries
    /\ main' = "remove_all_clients" /\ job' = why
    /\ UNCHANGED <<controller, leaving, stop_event, mapVars, wrapperVars,
                   callerVars, crashed, givenVars, starts>>

RemoveAllClients == GetNextMessage /\ BeginRemoveAll("remove all")

\* mutant: a STOP ends the fiber at once
GetStopMessageAndEnd ==
    /\ main = "get_next_message"
    /\ controller = "shutdown"
    /\ main' = "none" /\ stop_event' = TRUE
    /\ UNCHANGED <<ringVars, controller, job, leaving, mapVars, wrapperVars,
                   callerVars, crashed, givenVars, starts>>

\* The controller has been shut down and get_next_message returns STOP.
GetStopMessage ==
    /\ main = "get_next_message"
    /\ controller = "shutdown"
    /\ BeginRemoveAll("stop")

RemoveNext ==
    /\ main = "remove_all_clients"
    /\ \E k \in Servers :
         /\ clients_map' = Restrict(clients_map, Servers \ {k})
         /\ WrapperStop(clients_map[k], job)
    /\ UNCHANGED <<ringVars, controller, stop_event, pool, current_clients_cnt,
                   connector, idle_event, ref_cnt, callerVars, crashed,
                   givenVars, starts>>

\* the end of remove_all_clients, and of the fiber after a STOP
AllRemoved ==
    /\ main = "remove_all_clients"
    /\ Servers = {}
    /\ main' = IF job = "stop" THEN "none" ELSE "get_next_message"
    /\ stop_event' = (stop_event \/ job = "stop")
    /\ job' = "none"
    /\ crashed' = (current_clients_cnt # 0)
    /\ UNCHANGED <<ringVars, controller, leaving, mapVars, wrapperVars,
                   callerVars, givenVars, starts>>

\* mrpc_client_stop returns (StopEnds of module MrpcClient): external ...
ClientStops ==
    /\ main = "mrpc_client_stop"
    /\ client' = [client EXCEPT ![leaving] = "stopped"]
    /\ main' = "ff_event_wait"
    /\ UNCHANGED <<ringVars, controller, job, leaving, stop_event, mapVars,
                   connector, idle_event, ref_cnt, callerVars, crashed,
                   givenVars, starts>>

\* ... the stop_event of the wrapper is set and the fiber is woken up ...
NoUsersLeft ==
    /\ main = "ff_event_wait"
    /\ idle_event[leaving]
    /\ main' = "wrapper_stop"
    /\ UNCHANGED <<ringVars, controller, job, leaving, stop_event, mapVars,
                   wrapperVars, callerVars, crashed, givenVars, starts>>

\* the client that leaves was counted in current_clients_cnt
Counted == job # "add"

\* ... and the rest: mrpc_distributed_client_wrapper_stop,
\* release_client_wrapper and the counting
WrapperStopped ==
    /\ main = "wrapper_stop"
    /\ crashed' = (ref_cnt[leaving] # 0)
    /\ deleted' = deleted \union {connector[leaving]}
    /\ connector' = [connector EXCEPT ![leaving] = 0]
    /\ pool' = pool \union {leaving}
    /\ current_clients_cnt' = current_clients_cnt - (IF Counted THEN 1 ELSE 0)
    /\ leaving' = NoValue
    /\ \/ /\ job \in {"add", "remove"}
          /\ main' = "get_next_message" /\ job' = "none"
       \/ /\ job \in {"remove all", "stop"}
          /\ main' = "remove_all_clients" /\ UNCHANGED job
    /\ UNCHANGED <<ringVars, controller, stop_event, clients_map, client,
                   idle_event, ref_cnt, callerVars, adds, starts>>

-----------------------------------------------------------------------------
(***************************************************************************)
(* The callers: mrpc_distributed_client_acquire_client and release_client  *)
(***************************************************************************)

\* A caller is about to try: it begins a call, or its sleep ends.
Trying(c) == cookie[c] = NoValue /\ (tries[c] > 0 \/ controller # "NULL")

TriesLeft(c) == IF tries[c] = 0 THEN MaxTries ELSE tries[c]

\* the ring has the client of the request
AcquireClient(c) ==
    /\ Trying(c)
    /\ ~IsEmpty
    /\ \E key \in Ring :
         LET w == GetEntry(buckets, key)
         IN  /\ w # NoValue
             /\ connector[w] # 0
             /\ WrapperAcquire(w)
             /\ cookie' = [cookie EXCEPT ![c] = w]
    /\ tries' = [tries EXCEPT ![c] = 0]
    /\ UNCHANGED <<ringVars, controller, mainVars, mapVars, crashed, givenVars,
                   starts>>

\* get_entry finds nothing, or the wrapper that it finds has been stopped
AcquireClientCrashes(c) ==
    /\ Trying(c)
    /\ ~IsEmpty
    /\ \E key \in Ring :
         LET w == GetEntry(buckets, key)
         IN  w = NoValue \/ (w # NoValue /\ connector[w] = 0)
    /\ crashed' = TRUE
    /\ UNCHANGED <<ringVars, controller, mainVars, mapVars, wrapperVars,
                   callerVars, givenVars, starts>>

\* no clients: sleep and try again, or give up after the last try
AcquireNothing(c) ==
    /\ Trying(c)
    /\ IsEmpty
    /\ tries' = [tries EXCEPT ![c] = TriesLeft(c) - 1]
    /\ UNCHANGED <<ringVars, controller, mainVars, mapVars, wrapperVars,
                   cookie, crashed, givenVars, starts>>

\* the rpc call is over
ReleaseClient(c) ==
    /\ cookie[c] # NoValue
    /\ WrapperRelease(cookie[c])
    /\ cookie' = [cookie EXCEPT ![c] = NoValue]
    /\ UNCHANGED <<ringVars, controller, mainVars, mapVars, tries, crashed,
                   givenVars, starts>>

\* nothing is left to do, or the program has ended
Terminated ==
    /\ crashed \/ (controller = "NULL" /\ starts = MaxStarts)
    /\ UNCHANGED vars

MainStep ==
    \/ GetStopMessage \/ RemoveNext \/ AllRemoved
    \/ ClientStops \/ NoUsersLeft \/ WrapperStopped

Next ==
    \/ /\ ~crashed
       /\ \/ Start \/ Stop \/ StopReturns
          \/ AddClientRefused
          \/ \E k \in Keys, w \in Wrappers : AddClient(k, w) \/ AddClientTwice(k, w)
          \/ \E k \in Keys : RemoveClient(k)
          \/ RemoveAllClients
          \/ MainStep
          \/ \E c \in Callers :
               \/ AcquireClient(c) \/ AcquireClientCrashes(c)
               \/ AcquireNothing(c) \/ ReleaseClient(c)
    \/ Terminated

Spec == Init /\ [][Next]_vars

(***************************************************************************)
(* Fairness.  The main fiber goes on, mrpc_client_stop returns, and a call *)
(* ends (CallsEndUnlessStarved of module ClientStreamProcessor), after     *)
(* which its client is released.  Nobody has to call, and the controller   *)
(* need not say more than STOP.                                            *)
(***************************************************************************)
FairSpec ==
    /\ Spec
    /\ WF_vars(~crashed /\ MainStep) /\ WF_vars(~crashed /\ StopReturns)
    /\ \A c \in Callers : WF_vars(~crashed /\ ReleaseClient(c))

-----------------------------------------------------------------------------
(***************************************************************************)
(* Properties                                                              *)
(***************************************************************************)

Users(w) == {c \in Callers : cookie[c] = w}

\* the servers whose points are on the ring, and the entry of a point
OnRing == IF job \in {"remove all", "stop"} THEN {} ELSE Servers
ServerPoints == OnRing \X Points
ServerEntry(p) == [key |-> hash[p], value |-> clients_map[p[1]]]

\* The ring says what the dictionary says: it has the points of the servers
\* in the dictionary, all of them and no others, also when points coincide,
\* and, if they do not, each leads to the client of its server.  While
\* remove_all_clients empties the dictionary the ring is empty already, so
\* that no request can reach a client that is about to go.
RingTracksServers ==
    /\ {e.key : e \in Entries} = {hash[p] : p \in ServerPoints}
    /\ entries_cnt = Cardinality(OnRing) * UniformFactor
    /\ NoCollisions => Entries = {ServerEntry(p) : p \in ServerPoints}

\* Consistent hashing: a request goes to another client than before only if
\* its client has left the dictionary or the other one has just come.
OnlyOwnKeysMove ==
    [][buckets' # buckets /\ NoCollisions =>
        \A key \in Ring :
            LET old == GetEntry(buckets, key)
                new == GetEntry(buckets, key)'
            IN  \/ old = new
                \/ old \notin Range(clients_map')
                \/ new \notin Range(clients_map)]_vars

\* The reference count of a wrapper is the number of calls that use it, its
\* event is set when there are none, and a client in use keeps its connector
\* and stays out of the pool, whatever the controller does meanwhile.
UsersKeepTheirClient ==
    \A w \in Wrappers :
        /\ ref_cnt[w] = Cardinality(Users(w))
        /\ connector[w] # 0 => (idle_event[w] <=> ref_cnt[w] = 0)
        /\ NoCollisions /\ Users(w) # {} => connector[w] # 0 /\ w \notin pool

\* The assertions hold: those of the wrappers, of remove_all_clients and of
\* get_entry fail only if two servers share a point of the ring, or if the
\* ring is not empty and all its points lie in one bucket, before the key that
\* is looked up.
AssertionsHold ==
    crashed => ~NoCollisions \/ (~IsEmpty /\ \E key \in Ring : OnlyBehind(key))

\* After mrpc_distributed_client_stop nothing is left: no fiber, no client,
\* no call that uses one, no points, and stop_event is ready for the next
\* stop.
StoppedMeansStopped ==
    controller = "NULL" =>
        /\ main = "none" /\ ~stop_event
        /\ Servers = {} /\ IsEmpty
        /\ pool = Wrappers /\ deleted = 1 .. adds
        /\ \A c \in Callers : cookie[c] = NoValue
        /\ \A w \in Wrappers : client[w] = "stopped"

\* mrpc_distributed_client_stop returns, even if calls go on all the time.
\* Servers with a point in common are excepted: a client that has lost its
\* server but not its point can be acquired again and again.
StopEnds ==
    (controller = "shutdown" /\ NoCollisions) ~> (controller = "NULL" \/ crashed)
=============================================================================
