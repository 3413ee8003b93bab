-------------------------- MODULE MockServerRegistry --------------------------
(***************************************************************************)
(* The registry of running mock servers                                    *)
(* (mock_servers/services/runtime/mock_server_runtime_registry.py) and the *)
(* handlers that change it together with the mock_servers table            *)
(* (mock_servers/api/mock_server_api.py).                                  *)
(*                                                                         *)
(* The handlers are coroutines that never await, so each is one action;    *)
(* the queue listeners they start are threads of their own.  A handler     *)
(* commits its change of the table first and changes the registry after,   *)
(* except the deletion, which does it the other way round.  Each of the    *)
(* three parts of start_server (loading the row, building the listeners,   *)
(* writing the log) can raise on the way, and so can the log entry of      *)
(* stop_server and the transaction that comes last: then a handler stops   *)
(* halfway, with the table and the registry out of step.                   *)
(***************************************************************************)
EXTENDS Naturals, Sequences, FiniteSets, SequencesExt

CONSTANTS Servers,      \* ids of mock servers
          Endpoints,    \* normalised endpoints
          Queues,       \* queues a mock server can be bound to
          Tenants,      \* tenants, each with a database of its own
          TenantOf,     \* [Servers -> Tenants]: the database the row is in
          Bindings,     \* the lists of queues a configuration may name
          Faults,        \* what may raise: of {"load", "listener", "log",
                        \* "write"} the three parts of start_server (and
                        \* the log entry of stop_server), and the last
                        \* transaction of a handler
          None,         \* no row, no server
          MaxStarts     \* bound on the listeners started in a behaviour

\* A row of a mock server, and a listener that was started for one.
Row == [active : BOOLEAN, endpoint : Endpoints, queues : Bindings]
Listener == [server : Servers, queue : Queues, stop : BOOLEAN, alive : BOOLEAN]

RegistryAssumption ==
    /\ TenantOf \in [Servers -> Tenants]
    /\ Bindings \subseteq Seq(Queues)
    /\ Faults \subseteq {"load", "listener", "log", "write"}
    /\ None \notin Servers \cup Queues \cup Row
    /\ MaxStarts \in Nat

VARIABLES up,           \* the process is serving requests
          table,        \* the mock_servers tables of the tenants
          servers,      \* _servers_by_id
          byEndpoint,   \* _server_ids_by_endpoint
          registered,   \* _queue_threads_by_server_id, as listener numbers
          listeners,    \* every listener thread ever started
          broken,       \* queues whose broker connection is gone
          halfway       \* servers whose last handler stopped halfway

vars == <<up, table, servers, byEndpoint, registered, listeners, broken, halfway>>

TypeOK ==
    /\ up \in BOOLEAN
    /\ table \in [Servers -> Row \cup {None}]
    /\ servers \in [Servers -> Row \cup {None}]
    /\ byEndpoint \in [Endpoints -> Servers \cup {None}]
    /\ registered \in [Servers -> SUBSET (1 .. Len(listeners))]
    /\ listeners \in Seq(Listener)
    /\ broken \subseteq Queues
    /\ halfway \subseteq Servers

EmptyRegistry ==
    /\ servers = [s \in Servers |-> None]
    /\ byEndpoint = [e \in Endpoints |-> None]
    /\ registered = [s \in Servers |-> {}]

Init ==
    /\ up = TRUE
    /\ table = [s \in Servers |-> None]
    /\ EmptyRegistry
    /\ listeners = <<>>
    /\ broken = {}
    /\ halfway = {}

----------------------------------------------------------------------------
(* _stop_server_locked: forget the server, forget its endpoint unless      *)
(* another server has taken it, and ask its listeners to stop.  A listener *)
(* that outlives the join of five seconds goes on until it looks at the    *)
(* flag: leaving is a step of the listener (Exit).                         *)

WithoutEndpoint_Stolen(s) ==
    IF servers[s] # None
    THEN [byEndpoint EXCEPT ![servers[s].endpoint] = None]
    ELSE byEndpoint

WithoutEndpoint(s) ==
    IF servers[s] # None /\ byEndpoint[servers[s].endpoint] = s
    THEN [byEndpoint EXCEPT ![servers[s].endpoint] = None]
    ELSE byEndpoint

AskedToStop(s) ==
    [l \in DOMAIN listeners |->
        IF l \in registered[s] THEN [listeners[l] EXCEPT !.stop = TRUE]
                               ELSE listeners[l]]

StopServer_KeepsThreads(s) ==
    /\ servers' = [servers EXCEPT ![s] = None]
    /\ byEndpoint' = WithoutEndpoint(s)
    /\ registered' = [registered EXCEPT ![s] = {}]
    /\ UNCHANGED listeners

StopServer(s) ==
    /\ servers' = [servers EXCEPT ![s] = None]
    /\ byEndpoint' = WithoutEndpoint(s)
    /\ registered' = [registered EXCEPT ![s] = {}]
    /\ listeners' = AskedToStop(s)

(* The listeners are built and started one by one; building one raises     *)
(* when the queue's broker connection cannot be loaded, and leaves         *)
(* those started before it running.                                        *)
Started(s, row, n) ==
    AskedToStop(s) \o
        [i \in 1 .. n |-> [server |-> s, queue |-> row.queues[i],
                           stop |-> FALSE, alive |-> TRUE]]

(* Building the listeners raises at the n-th queue.                        *)
FailsAt(row, n) ==
    /\ row.queues[n] \in broken
    /\ \A i \in 1 .. n - 1 : row.queues[i] \notin broken

Numbers_OffByOne(n) == Len(listeners) + 1 .. Len(listeners) + n + 1

Numbers(n) == Len(listeners) + 1 .. Len(listeners) + n

Register_KeepsOld(s, row, n, done) ==
    /\ Len(listeners) + n <= MaxStarts
    /\ servers' = [servers EXCEPT ![s] = row]
    /\ byEndpoint' = [byEndpoint EXCEPT ![row.endpoint] = s]
    /\ listeners' = Started(s, row, n)
    /\ registered' = [registered EXCEPT ![s] = IF done THEN Numbers(n) ELSE {}]

(* Everything start_server does under the lock with a loaded row.          *)
Register(s, row, n, done) ==
    /\ Len(listeners) + n <= MaxStarts
    /\ servers' = [servers EXCEPT ![s] = row]
    /\ byEndpoint' = [WithoutEndpoint(s) EXCEPT ![row.endpoint] = s]
    /\ listeners' = Started(s, row, n)
    /\ registered' = [registered EXCEPT ![s] = IF done THEN Numbers(n) ELSE {}]

(* start_server; ok says whether it returned or raised.                    *)
StartServer(s, row, ok) ==
    \/ /\ ~ok /\ "load" \in Faults
       /\ UNCHANGED <<servers, byEndpoint, registered, listeners>>
    \/ /\ ~ok
       /\ \E n \in DOMAIN row.queues : FailsAt(row, n) /\ Register(s, row, n - 1, FALSE)
    \/ /\ \A i \in DOMAIN row.queues : row.queues[i] \notin broken
       /\ Register(s, row, Len(row.queues), TRUE)
       /\ ok \/ "log" \in Faults

----------------------------------------------------------------------------
(* The handlers.  A handler whose start raised writes is_active = False in *)
(* a transaction of its own and answers with an error ("refused"); when    *)
(* that transaction fails, too, the row stays as it was written            *)
(* ("halfway").                                                            *)

Outcomes == {"done", "refused", "halfway"}

(* get_by_endpoint: the conflict is looked for in the tenant's database.   *)
EndpointTaken(s, e) ==
    \E t \in Servers \ {s} :
        TenantOf[t] = TenantOf[s] /\ table[t] # None /\ table[t].endpoint = e

Kept(row, o) == [row EXCEPT !.active = @ /\ o # "refused"]

(* The handler of server s came to outcome o.  One server at a time is     *)
(* left halfway.                                                           *)
Ends(s, o) ==
    /\ o = "halfway" => "write" \in Faults /\ halfway \subseteq {s}
    /\ halfway' = IF o = "halfway" THEN halfway \cup {s} ELSE halfway \ {s}

(* create_mock_server and update_mock_server: one transaction for the row, *)
(* its APIs, its queue bindings and their commands, refused as a whole     *)
(* when the endpoint is taken.                                             *)
InsertRow(s, row, o) ==
    /\ table[s] = None
    /\ ~EndpointTaken(s, row.endpoint)
    /\ table' = [table EXCEPT ![s] = Kept(row, o)]

ReplaceRow(s, row, o) ==
    /\ table[s] # None
    /\ ~EndpointTaken(s, row.endpoint)
    /\ table' = [table EXCEPT ![s] = Kept(row, o)]

(* create_mock_server_api and update_mock_server_api: creating an inactive *)
(* server touches no running one, updating one to inactive stops it.  (If  *)
(* the log entry of that stop fails, all has been done but the answer.)    *)
Create(s, row, o) ==
    /\ up
    /\ InsertRow(s, row, o)
    /\ IF row.active
       THEN StartServer(s, row, o = "done")
       ELSE o = "done" /\ UNCHANGED <<servers, byEndpoint, registered, listeners>>
    /\ Ends(s, o)
    /\ UNCHANGED <<up, broken>>

Update(s, row, o) ==
    /\ up
    /\ ReplaceRow(s, row, o)
    /\ IF row.active THEN StartServer(s, row, o = "done") ELSE o = "done" /\ StopServer(s)
    /\ Ends(s, o)
    /\ UNCHANGED <<up, broken>>

(* delete_mock_server_api stops the server, and deletes its row in a       *)
(* transaction afterwards.                                                 *)
Delete(s) ==
    /\ up /\ table[s] # None
    /\ StopServer(s)
    /\ table' = [table EXCEPT ![s] = None]
    /\ Ends(s, "done")
    /\ UNCHANGED <<up, broken>>

(* The log entry of the stop or the transaction fails: the server is       *)
(* stopped and its row is there as before.                                 *)
DeleteFails(s) ==
    /\ up /\ table[s] # None /\ "write" \in Faults
    /\ StopServer(s)
    /\ Ends(s, IF table[s].active THEN "halfway" ELSE "done")
    /\ UNCHANGED <<up, table, broken>>

Activate(s, o) ==
    /\ up /\ table[s] # None
    /\ LET row == [table[s] EXCEPT !.active = TRUE]
       IN  /\ StartServer(s, row, o = "done")
           /\ table' = [table EXCEPT ![s] = Kept(row, o)]
    /\ Ends(s, o)
    /\ UNCHANGED <<up, broken>>

Deactivate(s) ==
    /\ up /\ table[s] # None
    /\ StopServer(s)
    /\ table' = [table EXCEPT ![s].active = FALSE]
    /\ Ends(s, "done")
    /\ UNCHANGED <<up, broken>>

----------------------------------------------------------------------------
(* The environment of the registry.                                        *)

(* The broker connection of a queue is deleted: delete_broker_connection   *)
(* does not look at the queues that name it, and no foreign key does.  One *)
(* connection is deleted in a behaviour.                                   *)
DeleteConnection(q) ==
    /\ up /\ "listener" \in Faults
    /\ broken = {}
    /\ broken' = {q}
    /\ UNCHANGED <<up, table, servers, byEndpoint, registered, listeners, halfway>>

Exit_Ignored(l) ==
    /\ listeners[l].alive /\ listeners[l].stop
    /\ listeners' = [listeners EXCEPT ![l].stop = FALSE]
    /\ UNCHANGED <<up, table, servers, byEndpoint, registered, broken, halfway>>

(* The loop of a listener ends when it finds its stop flag set.            *)
Exit(l) ==
    /\ listeners[l].alive /\ listeners[l].stop
    /\ listeners' = [listeners EXCEPT ![l].alive = FALSE]
    /\ UNCHANGED <<up, table, servers, byEndpoint, registered, broken, halfway>>

(* The process ends: the registry and the daemon threads go with it.       *)
Crash ==
    /\ up
    /\ up' = FALSE
    /\ servers' = [s \in Servers |-> None]
    /\ byEndpoint' = [e \in Endpoints |-> None]
    /\ registered' = [s \in Servers |-> {}]
    /\ listeners' = [l \in DOMAIN listeners |->
                        [listeners[l] EXCEPT !.alive = FALSE]]
    /\ UNCHANGED <<table, broken, halfway>>

(* bootstrap_active_servers at start-up.  There is no request and so no    *)
(* user context: for the first active server either a listener cannot load *)
(* its broker connection or the log entry cannot be written, the entry the *)
(* except clause writes raises as well, and the start-up is abandoned.     *)
(* What was registered is lost with the process.                           *)
Boot ==
    /\ ~up
    /\ up' = ~(\E s \in Servers : table[s] # None /\ table[s].active)
    /\ UNCHANGED <<table, servers, byEndpoint, registered, listeners, broken, halfway>>

Next ==
    \/ \E s \in Servers, row \in Row, o \in Outcomes :
           Create(s, row, o) \/ Update(s, row, o)
    \/ \E s \in Servers : Delete(s) \/ DeleteFails(s) \/ Deactivate(s)
    \/ \E s \in Servers, o \in Outcomes : Activate(s, o)
    \/ \E q \in Queues : DeleteConnection(q)
    \/ \E l \in DOMAIN listeners : Exit(l)
    \/ Crash
    \/ Boot

Spec == Init /\ [][Next]_vars /\ WF_vars(Boot)
            /\ \A l \in 1 .. MaxStarts :
                   WF_vars(l \in DOMAIN listeners /\ Exit(l))

----------------------------------------------------------------------------
(* get_server_by_endpoint: the server a request for /mock/<e> reaches.     *)
Served(e) == IF byEndpoint[e] = None THEN None ELSE servers[byEndpoint[e]]

(* The two dictionaries agree: an endpoint leads to a server that is       *)
(* registered with that endpoint, whatever servers were restarted on other *)
(* endpoints, failed to start or were stopped in between.                  *)
EndpointsAgree ==
    \A e \in Endpoints :
        byEndpoint[e] # None => Served(e) # None /\ Served(e).endpoint = e

(* Servers whose rows are in another database.                             *)
Foreign(s) == {t \in Servers : TenantOf[t] # TenantOf[s]}

(* A server whose row is active is registered as its row says, and within  *)
(* one tenant it is reached at the endpoint the row names, whatever was    *)
(* started, refused or stopped in between.  The exception is a server      *)
(* whose last handler stopped halfway: one that was stopped and whose row  *)
(* could not be deleted, or one that could not be started and whose row    *)
(* could not be written again.  It lasts until the next handler returns.   *)
ActiveIsServed ==
    up => \A s \in Servers \ halfway :
            table[s] # None /\ table[s].active =>
                /\ servers[s] = table[s]
                /\ LET t == byEndpoint[table[s].endpoint]
                   IN  t = s \/ t \in Foreign(s) \/ (t = None /\ Foreign(s) # {})

(* A listener that is neither asked to stop nor dead belongs to the list   *)
(* the next stop_server goes through, one listener per queue of the        *)
(* server's configuration, as long as every broker connection can be       *)
(* loaded.                                                                 *)
ListenersOwned ==
    broken = {} =>
    \A l \in DOMAIN listeners :
        LET t == listeners[l]
        IN  t.alive /\ ~t.stop =>
                /\ l \in registered[t.server]
                /\ servers[t.server] # None
                /\ \E i \in DOMAIN servers[t.server].queues :
                        servers[t.server].queues[i] = t.queue

(* A listener asked to stop does stop, and none is revived.                *)
StoppedListenersEnd ==
    \A l \in 1 .. MaxStarts :
        (l \in DOMAIN listeners /\ listeners[l].stop)
            ~> (l \in DOMAIN listeners /\ ~listeners[l].alive)

(* "Mock route not found or inactive." (mock_runtime_api.py): an inactive  *)
(* server is not reached.                                                  *)
InactiveIsNotServed ==
    \A e \in Endpoints :
        byEndpoint[e] # None =>
            table[byEndpoint[e]] # None /\ table[byEndpoint[e]].active

(* "Mock server stopped." (mock_server_runtime_registry.py): a server      *)
(* without a registration has no listener at work.                         *)
StoppedMeansSilent ==
    \A l \in DOMAIN listeners :
        servers[listeners[l].server] = None =>
            ~listeners[l].alive \/ listeners[l].stop

(* "Cannot bootstrap mock server": a server that cannot be started is      *)
(* logged and skipped, the application comes up.                           *)
ComesBack == ~up ~> up
=============================================================================
