------------------------- MODULE MCSharedStateProofs -------------------------
(***************************************************************************)
(* Proofs about the mock servers, the commands that write tables and the   *)
(* page of the datasets, for every value of the constants, and about the   *)
(* specification that follows one of them.                                 *)
(***************************************************************************)
EXTENDS MCSharedState, Sequences, TLAPS

\* Two lists one after the other.
LEMMA JoinedLists ==
    ASSUME NEW S, NEW a \in Seq(S), NEW b \in Seq(S)
    PROVE  /\ a \o b \in Seq(S) /\ Len(a \o b) = Len(a) + Len(b)
           /\ \A i \in 1 .. Len(a) + Len(b) :
                 (a \o b)[i] = IF i <= Len(a) THEN a[i] ELSE b[i - Len(a)]
  OBVIOUS

(***************************************************************************)
(* The registry of mock servers.                                           *)
(***************************************************************************)

\* Two servers of one tenant have different endpoints.
EndpointsDiffer ==
    \A s, t \in Servers :
        s # t /\ TenantOf[s] = TenantOf[t] /\ table[s] # None /\ table[t] # None =>
            table[s].endpoint # table[t].endpoint

\* The registry's invariant.
RegistryInv ==
    /\ Registry!TypeOK
    /\ Registry!EndpointsAgree
    /\ EndpointsDiffer
    /\ Registry!ActiveIsServed
    /\ Registry!ListenersOwned

LEMMA RegistryInit == Registry!Init => RegistryInv
<1> SUFFICES ASSUME Registry!Init PROVE RegistryInv
  OBVIOUS
<1> USE DEF Registry!Init, Registry!EmptyRegistry
<1>1. Registry!TypeOK
  BY DEF Registry!TypeOK
<1>2. Registry!EndpointsAgree
  BY DEF Registry!EndpointsAgree
<1>3. EndpointsDiffer
  BY DEF EndpointsDiffer
<1>4. Registry!ActiveIsServed
  BY DEF Registry!ActiveIsServed
<1>5. Registry!ListenersOwned
  BY DEF Registry!ListenersOwned
<1> QED
  BY <1>1, <1>2, <1>3, <1>4, <1>5 DEF RegistryInv

\* What start_server and stop_server change has its type, and keeps the
\* dictionaries in step with each other and with the listeners.
Sound ==
    /\ servers \in [Servers -> Registry!Row \cup {None}]
    /\ byEndpoint \in [Endpoints -> Servers \cup {None}]
    /\ registered \in [Servers -> SUBSET (1 .. Len(listeners))]
    /\ listeners \in Seq(Registry!Listener)
    /\ Registry!EndpointsAgree
    /\ Registry!ListenersOwned

\* Another server's registration stays as it is, and an endpoint is taken from
\* nobody but by s.
OnlyAbout(s, e) ==
    /\ \A t \in Servers \ {s} : servers'[t] = servers[t]
    /\ \A f \in Endpoints : \/ byEndpoint'[f] = byEndpoint[f]
                            \/ f = e /\ byEndpoint'[f] = s
                            \/ byEndpoint[f] = s /\ byEndpoint'[f] = None

\* _stop_server_locked: the endpoint goes with its server and no other.
LEMMA WithoutEndpointType ==
    ASSUME RegistryInv, NEW s \in Servers
    PROVE  /\ Registry!WithoutEndpoint(s) \in [Endpoints -> Servers \cup {None}]
           /\ \A e \in Endpoints :
                 /\ byEndpoint[e] # s => Registry!WithoutEndpoint(s)[e] = byEndpoint[e]
                 /\ byEndpoint[e] = s => Registry!WithoutEndpoint(s)[e] = None
<1>1. /\ byEndpoint \in [Endpoints -> Servers \cup {None}]
      /\ servers \in [Servers -> Registry!Row \cup {None}]
  BY DEF RegistryInv, Registry!TypeOK
<1>2. None \notin Servers
  BY SharedAssumption DEF Registry!RegistryAssumption
<1>3. \A e \in Endpoints : byEndpoint[e] = s => servers[s] # None /\ servers[s].endpoint = e
  BY <1>1, <1>2 DEF RegistryInv, Registry!EndpointsAgree, Registry!Served
<1>4. servers[s] # None => servers[s].endpoint \in Endpoints
  BY <1>1 DEF Registry!Row
<1> QED
  BY <1>1, <1>2, <1>3, <1>4 DEF Registry!WithoutEndpoint

\* A listener that was ever started is one of a mock server.
LEMMA ListenerType ==
    ASSUME RegistryInv, NEW l \in 1 .. Len(listeners)
    PROVE  listeners[l] \in Registry!Listener /\ listeners[l].server \in Servers
<1>1. listeners \in Seq(Registry!Listener)
  BY DEF RegistryInv, Registry!TypeOK
<1>2. listeners[l] \in Registry!Listener
  BY <1>1
<1> QED
  BY <1>2 DEF Registry!Listener

\* The listeners of a server that are asked to stop keep all but the flag.
LEMMA AskedToStopType ==
    ASSUME RegistryInv, NEW s \in Servers
    PROVE  /\ Registry!AskedToStop(s) \in Seq(Registry!Listener)
           /\ Len(Registry!AskedToStop(s)) = Len(listeners)
           /\ Len(listeners) \in Nat
           /\ DOMAIN listeners = 1 .. Len(listeners)
           /\ \A l \in 1 .. Len(listeners) :
                 LET t == Registry!AskedToStop(s)[l] IN
                 /\ t.server = listeners[l].server /\ t.queue = listeners[l].queue
                 /\ t.alive = listeners[l].alive
                 /\ l \in registered[s] => t.stop
                 /\ l \notin registered[s] => t = listeners[l]
<1>1. listeners \in Seq(Registry!Listener)
  BY DEF RegistryInv, Registry!TypeOK
<1>2. /\ Len(listeners) \in Nat /\ DOMAIN listeners = 1 .. Len(listeners)
      /\ \A l \in 1 .. Len(listeners) : listeners[l] \in Registry!Listener
  BY <1>1
<1> DEFINE asked == Registry!AskedToStop(s)
<1>3. DOMAIN asked = 1 .. Len(listeners)
  BY <1>2 DEF Registry!AskedToStop
<1>4. ASSUME NEW l \in 1 .. Len(listeners)
      PROVE  /\ asked[l] \in Registry!Listener
             /\ asked[l].server = listeners[l].server /\ asked[l].queue = listeners[l].queue
             /\ asked[l].alive = listeners[l].alive
             /\ l \in registered[s] => asked[l].stop
             /\ l \notin registered[s] => asked[l] = listeners[l]
  <2>1. asked[l] = IF l \in registered[s] THEN [listeners[l] EXCEPT !.stop = TRUE] ELSE listeners[l]
    BY <1>2 DEF Registry!AskedToStop
  <2>2. listeners[l] \in Registry!Listener
    BY <1>2
  <2> QED
    BY <2>1, <2>2 DEF Registry!Listener
<1>5. asked = [l \in 1 .. Len(listeners) |-> asked[l]]
  BY <1>2 DEF Registry!AskedToStop
<1>6. asked \in Seq(Registry!Listener) /\ Len(asked) = Len(listeners)
  <2> HIDE DEF asked
  <2> QED BY <1>2, <1>3, <1>4, <1>5
<1> QED
  BY <1>2, <1>4, <1>6

\* stop_server keeps the dictionaries and the listeners in step.
LEMMA StopIsSound ==
    ASSUME RegistryInv, NEW s \in Servers, Registry!StopServer(s), UNCHANGED broken,
           NEW e \in Endpoints
    PROVE  Sound' /\ OnlyAbout(s, e)
<1>1. /\ servers \in [Servers -> Registry!Row \cup {None}]
      /\ byEndpoint \in [Endpoints -> Servers \cup {None}]
      /\ registered \in [Servers -> SUBSET (1 .. Len(listeners))]
  BY DEF RegistryInv, Registry!TypeOK
<1>2. None \notin Servers
  BY SharedAssumption DEF Registry!RegistryAssumption
<1>3. /\ servers' = [servers EXCEPT ![s] = None]
      /\ byEndpoint' = Registry!WithoutEndpoint(s)
      /\ registered' = [registered EXCEPT ![s] = {}]
      /\ listeners' = Registry!AskedToStop(s)
  BY DEF Registry!StopServer
<1>4. /\ servers' \in [Servers -> Registry!Row \cup {None}]
      /\ byEndpoint' \in [Endpoints -> Servers \cup {None}]
      /\ \A t \in Servers \ {s} : servers'[t] = servers[t]
  BY <1>1, <1>3, WithoutEndpointType
<1>5. /\ registered' \in [Servers -> SUBSET (1 .. Len(listeners'))]
      /\ listeners' \in Seq(Registry!Listener)
  BY <1>1, <1>3, AskedToStopType
<1>6. Registry!EndpointsAgree'
  BY <1>1, <1>2, <1>3, WithoutEndpointType DEF RegistryInv, Registry!EndpointsAgree, Registry!Served
<1>7. Registry!ListenersOwned'
  <2> SUFFICES ASSUME broken = {}, NEW l \in 1 .. Len(listeners),
                      listeners'[l].alive, ~listeners'[l].stop
               PROVE  /\ l \in registered'[listeners'[l].server]
                      /\ servers'[listeners'[l].server] # None
                      /\ \E i \in DOMAIN servers'[listeners'[l].server].queues :
                            servers'[listeners'[l].server].queues[i] = listeners'[l].queue
    <3>1. DOMAIN listeners' = 1 .. Len(listeners)
      BY <1>3, <1>5, AskedToStopType
    <3> QED
      BY <3>1 DEF Registry!ListenersOwned
  <2>1. l \notin registered[s] /\ listeners'[l] = listeners[l]
    BY <1>3, AskedToStopType
  <2>2. /\ l \in registered[listeners[l].server]
        /\ servers[listeners[l].server] # None
        /\ \E i \in DOMAIN servers[listeners[l].server].queues :
              servers[listeners[l].server].queues[i] = listeners[l].queue
    BY <2>1, AskedToStopType DEF RegistryInv, Registry!ListenersOwned
  <2>3. listeners[l].server \in Servers
    BY ListenerType
  <2> QED
    BY <1>1, <1>3, <2>1, <2>2, <2>3
<1>8. OnlyAbout(s, e)
  BY <1>3, <1>4, WithoutEndpointType DEF OnlyAbout
<1> QED
  BY <1>4, <1>5, <1>6, <1>7, <1>8 DEF Sound

\* start_server does so, too, under the lock: with all its listeners, or with
\* those before the one that cannot be built.
LEMMA RegisterIsSound ==
    ASSUME RegistryInv, NEW s \in Servers, NEW row \in Registry!Row, NEW done \in BOOLEAN,
           NEW n \in Nat, n <= Len(row.queues), Registry!Register(s, row, n, done),
           UNCHANGED broken, broken = {} => done
    PROVE  /\ Sound' /\ OnlyAbout(s, row.endpoint)
           /\ servers'[s] = row /\ byEndpoint'[row.endpoint] = s
<1>1. /\ servers \in [Servers -> Registry!Row \cup {None}]
      /\ byEndpoint \in [Endpoints -> Servers \cup {None}]
      /\ registered \in [Servers -> SUBSET (1 .. Len(listeners))]
  BY DEF RegistryInv, Registry!TypeOK
<1>2. None \notin Servers /\ None \notin Registry!Row
  BY SharedAssumption DEF Registry!RegistryAssumption
<1>r. /\ row.endpoint \in Endpoints /\ row.queues \in Seq(Queues)
      /\ Len(row.queues) \in Nat /\ DOMAIN row.queues = 1 .. Len(row.queues)
  BY SharedAssumption DEF Registry!RegistryAssumption, Registry!Row
<1> DEFINE new == [i \in 1 .. n |-> [server |-> s, queue |-> row.queues[i],
                                     stop |-> FALSE, alive |-> TRUE]]
           asked == Registry!AskedToStop(s)
<1>3. /\ servers' = [servers EXCEPT ![s] = row]
      /\ byEndpoint' = [Registry!WithoutEndpoint(s) EXCEPT ![row.endpoint] = s]
      /\ listeners' = asked \o new
      /\ registered' = [registered EXCEPT ![s] =
                           IF done THEN Len(listeners) + 1 .. Len(listeners) + n ELSE {}]
  BY DEF Registry!Register, Registry!Started, Registry!Numbers
<1>4. /\ servers' \in [Servers -> Registry!Row \cup {None}]
      /\ byEndpoint' \in [Endpoints -> Servers \cup {None}]
      /\ servers'[s] = row /\ byEndpoint'[row.endpoint] = s
      /\ \A t \in Servers \ {s} : servers'[t] = servers[t]
  BY <1>1, <1>3, <1>r, WithoutEndpointType
<1>5. /\ new \in Seq(Registry!Listener) /\ Len(new) = n
      /\ \A i \in 1 .. n : new[i] = [server |-> s, queue |-> row.queues[i],
                                     stop |-> FALSE, alive |-> TRUE]
  <2>1. \A i \in 1 .. n : new[i] \in Registry!Listener
    BY <1>r DEF Registry!Listener
  <2> QED
    BY <2>1
<1>6. /\ listeners' \in Seq(Registry!Listener)
      /\ Len(listeners') = Len(listeners) + n
      /\ Len(listeners) \in Nat
      /\ \A l \in 1 .. Len(listeners) : listeners'[l] = asked[l]
      /\ \A i \in 1 .. n : listeners'[Len(listeners) + i] = new[i]
  <2>1. asked \in Seq(Registry!Listener) /\ Len(asked) = Len(listeners) /\ Len(listeners) \in Nat
    BY AskedToStopType DEF asked
  <2>2. new \in Seq(Registry!Listener) /\ Len(new) = n
    BY <1>5
  <2>6. listeners' = asked \o new
    BY <1>3
  <2> HIDE DEF asked, new
  <2>3. asked \in Seq(Registry!Listener) /\ new \in Seq(Registry!Listener)
    BY <2>1, <2>2
  <2>8. asked \o new \in Seq(Registry!Listener) /\ Len(asked \o new) = Len(asked) + Len(new)
    BY <2>3
  <2>7. asked \o new \in Seq(Registry!Listener) /\ Len(asked \o new) = Len(asked) + n
    BY <2>8, <2>2
  <2>4. \A l \in 1 .. Len(asked) + n :
           (asked \o new)[l] = IF l <= Len(asked) THEN asked[l] ELSE new[l - Len(asked)]
    BY <2>1, <2>2, JoinedLists
  <2>5. ASSUME NEW i \in 1 .. n
        PROVE  (asked \o new)[Len(listeners) + i] = new[i]
    <3>1. /\ Len(asked) + i \in 1 .. Len(asked) + n /\ ~(Len(asked) + i <= Len(asked))
          /\ (Len(asked) + i) - Len(asked) = i
      BY <2>1
    <3> QED
      BY <2>1, <2>4, <3>1
  <2> QED
    BY <2>1, <2>4, <2>5, <2>6, <2>7
<1>7. registered' \in [Servers -> SUBSET (1 .. Len(listeners'))]
  <2>1. \A t \in Servers : registered[t] \subseteq 1 .. Len(listeners')
    BY <1>1, <1>6
  <2>2. Len(listeners) + 1 .. Len(listeners) + n \subseteq 1 .. Len(listeners')
    BY <1>6
  <2> QED
    BY <1>1, <1>3, <2>1, <2>2
<1>8. Registry!EndpointsAgree'
  BY <1>1, <1>2, <1>3, <1>4, <1>r, WithoutEndpointType
     DEF RegistryInv, Registry!EndpointsAgree, Registry!Served
<1>9. OnlyAbout(s, row.endpoint)
  BY <1>1, <1>3, <1>4, <1>r, WithoutEndpointType DEF OnlyAbout
<1>10. Registry!ListenersOwned'
  <2> SUFFICES ASSUME broken = {}, NEW l \in 1 .. Len(listeners'),
                      listeners'[l].alive, ~listeners'[l].stop
               PROVE  /\ l \in registered'[listeners'[l].server]
                      /\ servers'[listeners'[l].server] # None
                      /\ \E i \in DOMAIN servers'[listeners'[l].server].queues :
                            servers'[listeners'[l].server].queues[i] = listeners'[l].queue
    <3>1. DOMAIN listeners' = 1 .. Len(listeners')
      BY <1>6
    <3> QED
      BY <3>1 DEF Registry!ListenersOwned
  <2>1. CASE l \in 1 .. Len(listeners)
    <3>1. l \notin registered[s] /\ listeners'[l] = listeners[l]
      BY <1>6, <2>1, AskedToStopType
    <3>2. /\ l \in registered[listeners[l].server]
          /\ servers[listeners[l].server] # None
          /\ \E i \in DOMAIN servers[listeners[l].server].queues :
                servers[listeners[l].server].queues[i] = listeners[l].queue
      BY <2>1, <3>1, AskedToStopType DEF RegistryInv, Registry!ListenersOwned
    <3>3. listeners[l].server \in Servers
      BY <2>1, ListenerType
    <3> QED
      BY <1>1, <1>3, <3>1, <3>2, <3>3
  <2>2. CASE l \notin 1 .. Len(listeners)
    <3>1. PICK i \in 1 .. n : l = Len(listeners) + i
      <4>1. l - Len(listeners) \in 1 .. n /\ l = Len(listeners) + (l - Len(listeners))
        BY <1>6, <2>2
      <4> QED
        BY <4>1
    <3>2. listeners'[l].server = s /\ listeners'[l].queue = row.queues[i]
      <4>1. listeners'[l] = new[i]
        BY <1>6, <3>1
      <4> QED
        BY <1>5, <4>1
    <3>3. i \in DOMAIN row.queues
      BY <1>r, <3>1
    <3>4. l \in registered'[s]
      BY <1>1, <1>3, <1>6, <3>1
    <3> QED
      BY <1>2, <1>4, <3>2, <3>3, <3>4
  <2> QED
    BY <2>1, <2>2
<1> QED
  BY <1>4, <1>6, <1>7, <1>8, <1>9, <1>10 DEF Sound

\* start_server: it may raise before it changes anything, while it builds the
\* listeners, or when all is done.
LEMMA StartIsSound ==
    ASSUME RegistryInv, NEW s \in Servers, NEW row \in Registry!Row, NEW ok \in BOOLEAN,
           Registry!StartServer(s, row, ok), UNCHANGED broken
    PROVE  /\ Sound' /\ OnlyAbout(s, row.endpoint)
           /\ ok => servers'[s] = row /\ byEndpoint'[row.endpoint] = s
<1>r. /\ row.queues \in Seq(Queues)
      /\ Len(row.queues) \in Nat /\ DOMAIN row.queues = 1 .. Len(row.queues)
  BY SharedAssumption DEF Registry!RegistryAssumption, Registry!Row
<1>1. CASE ~ok /\ UNCHANGED <<servers, byEndpoint, registered, listeners>>
  BY <1>1 DEF Sound, OnlyAbout, RegistryInv, Registry!TypeOK, Registry!EndpointsAgree,
              Registry!Served, Registry!ListenersOwned
<1>2. CASE ~ok /\ \E n \in DOMAIN row.queues :
                      Registry!FailsAt(row, n) /\ Registry!Register(s, row, n - 1, FALSE)
  <2>1. PICK n \in DOMAIN row.queues :
                Registry!FailsAt(row, n) /\ Registry!Register(s, row, n - 1, FALSE)
    BY <1>2
  <2>2. broken # {} /\ n - 1 \in Nat /\ n - 1 <= Len(row.queues)
    BY <1>r, <2>1 DEF Registry!FailsAt
  <2> QED
    BY <1>2, <2>1, <2>2, RegisterIsSound
<1>3. CASE Registry!Register(s, row, Len(row.queues), TRUE)
  <2>1. Len(row.queues) <= Len(row.queues) /\ TRUE \in BOOLEAN
    BY <1>r
  <2> QED
    BY <1>r, <1>3, <2>1, RegisterIsSound
<1> QED
  BY <1>1, <1>2, <1>3 DEF Registry!StartServer

\* A handler that leaves row new in the table keeps the invariant, when it has
\* changed the registry under the endpoint of the row only, an endpoint that no
\* other server of the tenant has, and has started the server if the row is
\* active, or stopped halfway.
LEMMA HandlerKeeps ==
    ASSUME RegistryInv, NEW s \in Servers, NEW e \in Endpoints,
           NEW new \in Registry!Row \cup {None},
           Sound', OnlyAbout(s, e), table' = [table EXCEPT ![s] = new], UNCHANGED <<up, broken>>,
           \A t \in Servers \ {s} :
               TenantOf[t] = TenantOf[s] /\ table[t] # None => table[t].endpoint # e,
           new # None =>
               /\ new.endpoint = e
               /\ new.active /\ s \notin halfway' => servers'[s] = new /\ byEndpoint'[e] = s,
           halfway' \subseteq Servers, halfway' \ {s} = halfway \ {s}
    PROVE  RegistryInv'
<1>1. /\ Registry!TypeOK /\ table \in [Servers -> Registry!Row \cup {None}]
      /\ byEndpoint \in [Endpoints -> Servers \cup {None}]
      /\ None \notin Servers /\ None \notin Registry!Row
  BY SharedAssumption DEF RegistryInv, Registry!TypeOK, Registry!RegistryAssumption
<1>2. Registry!TypeOK'
  BY <1>1 DEF Registry!TypeOK, Sound
<1>3. EndpointsDiffer'
  <2> SUFFICES ASSUME NEW t \in Servers, NEW u \in Servers, t # u, TenantOf[t] = TenantOf[u],
                      table'[t] # None, table'[u] # None
               PROVE  table'[t].endpoint # table'[u].endpoint
    BY DEF EndpointsDiffer
  <2>1. /\ \A v \in Servers \ {s} : table'[v] = table[v]
        /\ table'[s] = new
    BY <1>1
  <2>2. CASE t # s /\ u # s
    BY <2>1, <2>2 DEF RegistryInv, EndpointsDiffer
  <2>3. CASE t = s
    BY <2>1, <2>3
  <2>4. CASE u = s
    BY <2>1, <2>4
  <2> QED
    BY <2>2, <2>3, <2>4
<1>4. Registry!ActiveIsServed'
  <2> SUFFICES ASSUME up, NEW t \in Servers, t \notin halfway', table'[t] # None, table'[t].active
               PROVE  /\ servers'[t] = table'[t]
                      /\ LET u == byEndpoint'[table'[t].endpoint]
                         IN  u = t \/ u \in Registry!Foreign(t)
                                   \/ (u = None /\ Registry!Foreign(t) # {})
    BY DEF Registry!ActiveIsServed, Registry!Foreign
  <2>1. CASE t = s
    BY <1>1, <2>1
  <2>2. CASE t # s
    <3>1. table'[t] = table[t] /\ servers'[t] = servers[t]
      BY <1>1, <2>2 DEF OnlyAbout
    <3> DEFINE f == table[t].endpoint
    <3>2. f \in Endpoints
      BY <1>1, <3>1 DEF Registry!Row
    <3>3. /\ servers[t] = table[t]
          /\ \/ byEndpoint[f] = t
             \/ byEndpoint[f] \in Registry!Foreign(t)
             \/ byEndpoint[f] = None /\ Registry!Foreign(t) # {}
      BY <2>2, <3>1 DEF RegistryInv, Registry!ActiveIsServed
    <3>4. CASE byEndpoint'[f] = byEndpoint[f]
      BY <3>1, <3>3, <3>4
    <3>5. CASE f = e /\ byEndpoint'[f] = s
      <4>1. TenantOf[t] # TenantOf[s]
        BY <2>2, <3>1, <3>5
      <4> QED
        BY <3>1, <3>3, <3>5, <4>1 DEF Registry!Foreign
    <3>6. CASE byEndpoint[f] = s /\ byEndpoint'[f] = None
      <4>1. s \in Registry!Foreign(t)
        BY <1>1, <2>2, <3>3, <3>6
      <4> QED
        BY <3>1, <3>3, <3>6, <4>1
    <3> QED
      BY <3>2, <3>4, <3>5, <3>6 DEF OnlyAbout
  <2> QED
    BY <2>1, <2>2
<1> QED
  BY <1>2, <1>3, <1>4 DEF RegistryInv, Sound

\* The row a handler leaves is active unless the start was refused.
LEMMA KeptType ==
    ASSUME NEW row \in Registry!Row, NEW o
    PROVE  /\ Registry!Kept(row, o) \in Registry!Row
           /\ Registry!Kept(row, o).endpoint = row.endpoint
           /\ Registry!Kept(row, o).active => row.active /\ o # "refused"
           /\ o # "refused" => Registry!Kept(row, o) = row
<1>1. CASE o # "refused"
  BY <1>1 DEF Registry!Kept, Registry!Row
<1>2. CASE o = "refused"
  BY <1>2 DEF Registry!Kept, Registry!Row
<1> QED
  BY <1>1, <1>2

\* A handler says of its own server only that it stopped halfway.
LEMMA EndsType ==
    ASSUME RegistryInv, NEW s \in Servers, NEW o, Registry!Ends(s, o)
    PROVE  /\ halfway' \subseteq Servers /\ halfway' \ {s} = halfway \ {s}
           /\ s \in halfway' <=> o = "halfway"
BY DEF RegistryInv, Registry!TypeOK, Registry!Ends

\* A handler that touches nothing of the registry.
LEMMA UntouchedIsSound ==
    ASSUME RegistryInv, NEW s \in Servers, NEW e \in Endpoints,
           UNCHANGED <<servers, byEndpoint, registered, listeners, broken>>
    PROVE  Sound' /\ OnlyAbout(s, e)
BY DEF Sound, OnlyAbout, RegistryInv, Registry!TypeOK, Registry!EndpointsAgree,
       Registry!Served, Registry!ListenersOwned

\* create_mock_server_api and update_mock_server_api.
LEMMA WriteRowKeeps ==
    ASSUME RegistryInv, NEW s \in Servers, NEW row \in Registry!Row, NEW o \in Registry!Outcomes,
           Registry!Create(s, row, o) \/ Registry!Update(s, row, o)
    PROVE  RegistryInv'
<1> DEFINE new == Registry!Kept(row, o)
<1>1. /\ table' = [table EXCEPT ![s] = new] /\ UNCHANGED <<up, broken>>
      /\ Registry!Ends(s, o)
      /\ \A t \in Servers \ {s} :
            TenantOf[t] = TenantOf[s] /\ table[t] # None => table[t].endpoint # row.endpoint
  BY DEF Registry!Create, Registry!Update, Registry!InsertRow, Registry!ReplaceRow,
         Registry!EndpointTaken
<1>2. row.endpoint \in Endpoints /\ row.active \in BOOLEAN
  BY DEF Registry!Row
<1>3. /\ new \in Registry!Row /\ new.endpoint = row.endpoint
      /\ new.active => row.active /\ o # "refused"
      /\ o # "refused" => new = row
  BY KeptType
<1>4. /\ halfway' \subseteq Servers /\ halfway' \ {s} = halfway \ {s}
      /\ s \in halfway' <=> o = "halfway"
  BY <1>1, EndsType
<1> HIDE DEF new
<1>5. /\ Sound' /\ OnlyAbout(s, row.endpoint)
      /\ new.active /\ s \notin halfway' => servers'[s] = new /\ byEndpoint'[row.endpoint] = s
  <2>1. CASE row.active /\ Registry!StartServer(s, row, o = "done")
    <3>1. /\ Sound' /\ OnlyAbout(s, row.endpoint)
          /\ o = "done" => servers'[s] = row /\ byEndpoint'[row.endpoint] = s
      BY <1>1, <2>1, StartIsSound
    <3> QED
      BY <1>3, <1>4, <3>1 DEF Registry!Outcomes
  <2>2. CASE ~row.active /\ UNCHANGED <<servers, byEndpoint, registered, listeners>>
    BY <1>1, <1>2, <1>3, <2>2, UntouchedIsSound
  <2>3. CASE ~row.active /\ Registry!StopServer(s)
    BY <1>1, <1>2, <1>3, <2>3, StopIsSound
  <2> QED
    BY <2>1, <2>2, <2>3 DEF Registry!Create, Registry!Update
<1>6. new # None =>
         /\ new.endpoint = row.endpoint
         /\ new.active /\ s \notin halfway' => servers'[s] = new /\ byEndpoint'[row.endpoint] = s
  BY <1>3, <1>5
<1> QED
  BY <1>1, <1>2, <1>3, <1>4, <1>5, <1>6, HandlerKeeps

\* activate_mock_server_api, deactivate_mock_server_api and
\* delete_mock_server_api: the row that is there has an endpoint of its own.
LEMMA RowOfTable ==
    ASSUME RegistryInv, NEW s \in Servers, table[s] # None
    PROVE  /\ table[s] \in Registry!Row /\ table[s].endpoint \in Endpoints
           /\ \A t \in Servers \ {s} :
                 TenantOf[t] = TenantOf[s] /\ table[t] # None => table[t].endpoint # table[s].endpoint
BY DEF RegistryInv, Registry!TypeOK, Registry!Row, EndpointsDiffer

LEMMA ActivateKeeps ==
    ASSUME RegistryInv, NEW s \in Servers, NEW o \in Registry!Outcomes, Registry!Activate(s, o)
    PROVE  RegistryInv'
<1> DEFINE row == [table[s] EXCEPT !.active = TRUE]
           new == Registry!Kept(row, o)
<1>1. /\ table[s] # None /\ table' = [table EXCEPT ![s] = new] /\ UNCHANGED <<up, broken>>
      /\ Registry!StartServer(s, row, o = "done") /\ Registry!Ends(s, o)
  BY DEF Registry!Activate
<1>2. row \in Registry!Row /\ row.endpoint = table[s].endpoint
  BY <1>1, RowOfTable DEF Registry!Row
<1>3. /\ new \in Registry!Row /\ new.endpoint = row.endpoint
      /\ new.active => o # "refused"
      /\ o # "refused" => new = row
  BY <1>2, KeptType
<1> HIDE DEF row, new
<1>4. /\ Sound' /\ OnlyAbout(s, row.endpoint)
      /\ o = "done" => servers'[s] = row /\ byEndpoint'[row.endpoint] = s
  BY <1>1, <1>2, StartIsSound
<1>5. /\ halfway' \subseteq Servers /\ halfway' \ {s} = halfway \ {s}
      /\ s \in halfway' <=> o = "halfway"
  BY <1>1, EndsType
<1>6. new # None =>
         /\ new.endpoint = row.endpoint
         /\ new.active /\ s \notin halfway' => servers'[s] = new /\ byEndpoint'[row.endpoint] = s
  BY <1>3, <1>4, <1>5 DEF Registry!Outcomes
<1>7. /\ row.endpoint \in Endpoints
      /\ \A t \in Servers \ {s} :
            TenantOf[t] = TenantOf[s] /\ table[t] # None => table[t].endpoint # row.endpoint
  BY <1>1, <1>2, RowOfTable
<1> QED
  BY <1>1, <1>3, <1>4, <1>5, <1>6, <1>7, HandlerKeeps

\* A server that is stopped, with its row deleted, deactivated, or as it was.
LEMMA StopKeeps ==
    ASSUME RegistryInv, NEW s \in Servers,
           Registry!Delete(s) \/ Registry!DeleteFails(s) \/ Registry!Deactivate(s)
    PROVE  RegistryInv'
<1>1. table[s] # None /\ Registry!StopServer(s) /\ UNCHANGED <<up, broken>>
  BY DEF Registry!Delete, Registry!DeleteFails, Registry!Deactivate
<1>2. Sound' /\ OnlyAbout(s, table[s].endpoint)
  BY <1>1, RowOfTable, StopIsSound
<1>3. PICK o : Registry!Ends(s, o) /\ (UNCHANGED table /\ table[s].active => o = "halfway")
  <2>1. CASE Registry!DeleteFails(s)
    <3>1. CASE table[s].active
      BY <2>1, <3>1 DEF Registry!DeleteFails
    <3>2. CASE ~table[s].active
      BY <2>1, <3>2 DEF Registry!DeleteFails
    <3> QED
      BY <3>1, <3>2
  <2>2. CASE Registry!Delete(s)
    <3>1. table'[s] # table[s]
      BY <1>1, <2>2 DEF Registry!Delete, RegistryInv, Registry!TypeOK
    <3> QED
      BY <2>2, <3>1 DEF Registry!Delete
  <2>3. CASE Registry!Deactivate(s)
    <3>1. ~table'[s].active
      BY <1>1, <2>3, RowOfTable DEF Registry!Deactivate, RegistryInv, Registry!TypeOK, Registry!Row
    <3> QED
      BY <2>3, <3>1 DEF Registry!Deactivate
  <2> QED
    BY <2>1, <2>2, <2>3
<1>4. /\ halfway' \subseteq Servers /\ halfway' \ {s} = halfway \ {s}
      /\ s \in halfway' <=> o = "halfway"
  BY <1>3, EndsType
<1>5. CASE table' = [table EXCEPT ![s] = None]
  BY <1>1, <1>2, <1>4, <1>5, RowOfTable, HandlerKeeps
<1>6. CASE table' = [table EXCEPT ![s].active = FALSE]
  <2> DEFINE new == [table[s] EXCEPT !.active = FALSE]
  <2>1. /\ new \in Registry!Row /\ new.endpoint = table[s].endpoint /\ ~new.active
        /\ table' = [table EXCEPT ![s] = new]
    BY <1>1, <1>6, RowOfTable DEF Registry!Row, RegistryInv, Registry!TypeOK
  <2> HIDE DEF new
  <2> QED
    BY <1>1, <1>2, <1>4, <2>1, RowOfTable, HandlerKeeps
<1>7. CASE UNCHANGED table
  <2> DEFINE new == table[s]
  <2>1. /\ new \in Registry!Row /\ new.endpoint = table[s].endpoint
        /\ table' = [table EXCEPT ![s] = new]
        /\ new.active => s \in halfway'
    BY <1>1, <1>3, <1>4, <1>7, RowOfTable DEF RegistryInv, Registry!TypeOK
  <2> HIDE DEF new
  <2> QED
    BY <1>1, <1>2, <1>4, <2>1, RowOfTable, HandlerKeeps
<1> QED
  BY <1>5, <1>6, <1>7 DEF Registry!Delete, Registry!DeleteFails, Registry!Deactivate

\* A listener that ends.
LEMMA ExitKeeps ==
    ASSUME RegistryInv, NEW l \in DOMAIN listeners, Registry!Exit(l)
    PROVE  RegistryInv'
<1>1. /\ listeners[l].stop /\ listeners' = [listeners EXCEPT ![l].alive = FALSE]
      /\ UNCHANGED <<up, table, servers, byEndpoint, registered, broken, halfway>>
  BY DEF Registry!Exit
<1>2. /\ listeners \in Seq(Registry!Listener) /\ listeners[l] \in Registry!Listener
      /\ DOMAIN listeners = 1 .. Len(listeners)
  BY DEF RegistryInv, Registry!TypeOK
<1> DEFINE ended == [listeners[l] EXCEPT !.alive = FALSE]
<1>3. /\ ended \in Registry!Listener /\ ~ended.alive
      /\ listeners' = [listeners EXCEPT ![l] = ended]
  BY <1>1, <1>2 DEF Registry!Listener
<1> HIDE DEF ended
<1>4. /\ listeners' \in Seq(Registry!Listener) /\ Len(listeners') = Len(listeners)
      /\ DOMAIN listeners' = DOMAIN listeners
      /\ ~listeners'[l].alive /\ \A m \in DOMAIN listeners \ {l} : listeners'[m] = listeners[m]
  BY <1>2, <1>3
<1>5. Registry!TypeOK'
  BY <1>1, <1>4 DEF RegistryInv, Registry!TypeOK
<1>6. Registry!ListenersOwned'
  BY <1>1, <1>4 DEF RegistryInv, Registry!ListenersOwned
<1> QED
  BY <1>1, <1>5, <1>6 DEF RegistryInv, Registry!EndpointsAgree, Registry!Served, EndpointsDiffer,
                          Registry!ActiveIsServed, Registry!Foreign

\* The process ends: nothing is registered and no listener lives.
LEMMA CrashKeeps ==
    ASSUME RegistryInv, Registry!Crash
    PROVE  RegistryInv'
<1> USE DEF Registry!Crash
<1>1. /\ listeners \in Seq(Registry!Listener) /\ Len(listeners) \in Nat
      /\ DOMAIN listeners = 1 .. Len(listeners)
      /\ \A l \in 1 .. Len(listeners) : listeners[l] \in Registry!Listener
  BY DEF RegistryInv, Registry!TypeOK
<1>2. ASSUME NEW l \in 1 .. Len(listeners)
      PROVE  listeners'[l] \in Registry!Listener /\ ~listeners'[l].alive
  BY <1>1 DEF Registry!Listener
<1>3. listeners' = [l \in 1 .. Len(listeners) |-> listeners'[l]]
  BY <1>1
<1>4. /\ listeners' \in Seq(Registry!Listener) /\ DOMAIN listeners' = 1 .. Len(listeners)
  BY <1>1, <1>2, <1>3
<1>5. Registry!TypeOK'
  BY <1>4 DEF RegistryInv, Registry!TypeOK
<1>6. Registry!ListenersOwned'
  BY <1>2, <1>4 DEF Registry!ListenersOwned
<1> QED
  BY <1>5, <1>6 DEF RegistryInv, Registry!EndpointsAgree, Registry!Served, EndpointsDiffer,
                    Registry!ActiveIsServed

\* A process that comes up, without a request, has no active server to serve.
LEMMA OtherStepsKeep ==
    ASSUME RegistryInv,
           Registry!Boot \/ (\E q \in Queues : Registry!DeleteConnection(q))
    PROVE  RegistryInv'
<1>1. UNCHANGED <<table, servers, byEndpoint, registered, listeners, halfway>>
      /\ broken' \subseteq Queues /\ (broken' = {} => broken = {}) /\ up' \in BOOLEAN
  BY DEF Registry!Boot, Registry!DeleteConnection, RegistryInv, Registry!TypeOK
<1>2. Registry!ActiveIsServed'
  BY DEF Registry!Boot, Registry!DeleteConnection, RegistryInv, Registry!ActiveIsServed,
         Registry!Foreign
<1> QED
  BY <1>1, <1>2 DEF RegistryInv, Registry!TypeOK, Registry!EndpointsAgree, Registry!Served,
                    EndpointsDiffer, Registry!ListenersOwned

\* Every step of the registry keeps its invariant.
LEMMA RegistryStep ==
    ASSUME RegistryInv, Registry!Next \/ UNCHANGED ofRegistry
    PROVE  RegistryInv'
<1>1. CASE UNCHANGED ofRegistry
  BY <1>1 DEF ofRegistry, RegistryInv, Registry!TypeOK, Registry!EndpointsAgree, Registry!Served,
              EndpointsDiffer, Registry!ActiveIsServed, Registry!Foreign, Registry!ListenersOwned
<1>2. CASE Registry!Next
  BY <1>2, WriteRowKeeps, ActivateKeeps, StopKeeps, ExitKeeps, CrashKeeps, OtherStepsKeep
     DEF Registry!Next
<1> QED
  BY <1>1, <1>2

(***************************************************************************)
(* The page of the datasets.                                               *)
(***************************************************************************)

\* The page's invariant: the list of the session holds existing datasets only,
\* and the page of a perimeter is reached from a list that was loaded.
PageInv ==
    /\ Page!TypeOK
    /\ Page!PreviewsAreCurrent
    /\ Page!NothingPointsToTheDeleted
    /\ list \subseteq Page!Existing(rows)
    /\ page = "perimeter" => loaded

\* The invariant, piece by piece.
PageFacts ==
    /\ rows \in [Ids -> 0 .. MaxVersion] /\ previews \in [Ids -> 0 .. MaxVersion]
    /\ selected \in Ids \cup {Page!NoDataset} /\ visible \in Ids \cup {Page!NoDataset}
    /\ edited \in Ids \cup {Page!NoDataset} /\ list \subseteq Ids /\ opened \subseteq Ids
    /\ page = "list" => loaded /\ (selected \in list \/ (list = {} /\ selected = Page!NoDataset))
    /\ page = "perimeter" => loaded
    /\ \A i \in Ids : previews[i] = 0 \/ previews[i] = rows[i]
    /\ \A i \in Ids : i = visible \/ i = edited \/ i \in opened \/ i \in list => rows[i] > 0

LEMMA PageInvIsFacts == PageInv <=> PageFacts
<1>1. Page!NoDataset \notin Ids
  BY SharedAssumption DEF Page!PageAssumption
<1> QED
  BY <1>1 DEF PageInv, PageFacts, Page!TypeOK, Page!PreviewsAreCurrent,
              Page!NothingPointsToTheDeleted, Page!Existing

LEMMA PageInvIsFactsNext == PageInv' <=> PageFacts'
<1>1. Page!NoDataset \notin Ids
  BY SharedAssumption DEF Page!PageAssumption
<1> QED
  BY <1>1 DEF PageInv, PageFacts, Page!TypeOK, Page!PreviewsAreCurrent,
              Page!NothingPointsToTheDeleted, Page!Existing

LEMMA PageInit == Page!Init => PageInv
<1> SUFFICES ASSUME Page!Init PROVE PageFacts
  BY PageInvIsFacts
<1>1. Page!NoDataset \notin Ids /\ MaxVersion \in Nat \ {0}
  BY SharedAssumption DEF Page!PageAssumption
<1>2. rows \in [Ids -> 0 .. MaxVersion] /\ 0 \in 0 .. MaxVersion
  BY <1>1 DEF Page!Init
<1> QED
  BY <1>1, <1>2 DEF Page!Init, PageFacts

\* A preview that is shown is made of the dataset as it is.
LEMMA ShownIsCurrent ==
    ASSUME NEW r \in [Ids -> 0 .. MaxVersion], NEW p \in [Ids -> 0 .. MaxVersion],
           NEW l, NEW v,
           \A i \in Ids : p[i] = 0 \/ p[i] = r[i]
    PROVE  /\ Page!Shown(p, r, l, v) \in [Ids -> 0 .. MaxVersion]
           /\ \A i \in Ids : Page!Shown(p, r, l, v)[i] = 0 \/ Page!Shown(p, r, l, v)[i] = r[i]
BY DEF Page!Shown

\* A list that is loaded holds datasets that there are.
LEMMA LoadedIsTrue ==
    ASSUME NEW r, NEW l, Page!Loads(r, l)
    PROVE  l \subseteq Ids /\ \A i \in l : r[i] > 0
BY DEF Page!Loads, Page!Existing

\* A step after which the page shows its list again.
LEMMA PageIsShown ==
    ASSUME PageFacts, rows' \in [Ids -> 0 .. MaxVersion], NEW p \in [Ids -> 0 .. MaxVersion],
           \A i \in Ids : p[i] = 0 \/ p[i] = rows'[i],
           list' \subseteq Ids, \A i \in list' : rows'[i] > 0,
           NEW s, Page!Ensured(s, list', selected'),
           previews' = Page!Shown(p, rows', list', visible'), loaded',
           visible' \in Ids \cup {Page!NoDataset}, edited' \in Ids \cup {Page!NoDataset}, opened' \subseteq Ids,
           \A i \in Ids : i = visible' \/ i = edited' \/ i \in opened' => rows'[i] > 0
    PROVE  PageFacts'
<1>2. selected' \in list' \/ (list' = {} /\ selected' = Page!NoDataset)
  BY DEF Page!Ensured
<1>3. /\ previews' \in [Ids -> 0 .. MaxVersion]
      /\ \A i \in Ids : previews'[i] = 0 \/ previews'[i] = rows'[i]
  BY ShownIsCurrent
<1> QED
  BY <1>2, <1>3 DEF PageFacts

LEMMA PageStep ==
    ASSUME PageInv, Page!Next \/ UNCHANGED ofPage
    PROVE  PageInv'
<1> SUFFICES PageFacts'
  BY PageInvIsFactsNext
<1>1. PageFacts
  BY PageInvIsFacts
<1>2. Page!NoDataset \notin Ids /\ MaxVersion \in Nat \ {0}
  BY SharedAssumption DEF Page!PageAssumption
<1>3. /\ 0 \in 0 .. MaxVersion /\ 1 \in 0 .. MaxVersion
      /\ \A v \in 1 .. (MaxVersion - 1) : v + 1 \in 0 .. MaxVersion /\ v + 1 > 0
  BY <1>2
<1>4. CASE Page!Visit
  <2>1. list' \subseteq Ids /\ \A i \in list' : rows'[i] > 0
    BY <1>1, <1>4, LoadedIsTrue DEF Page!Visit, PageFacts
  <2> QED
    BY <1>1, <1>4, <2>1, PageIsShown DEF Page!Visit, PageFacts
<1>5. CASE Page!Navigate
  BY <1>1, <1>5 DEF Page!Navigate, PageFacts
<1>6. CASE Page!SavePerimeter
  <2>1. /\ edited \in Ids /\ rows' = [rows EXCEPT ![edited] = @ + 1]
        /\ rows[edited] \in 1 .. (MaxVersion - 1) /\ rows[edited] + 1 \in 0 .. MaxVersion
        /\ rows[edited] + 1 > 0
    BY <1>1, <1>3, <1>6 DEF Page!SavePerimeter, PageFacts
  <2>2. rows' \in [Ids -> 0 .. MaxVersion]
    BY <1>1, <2>1 DEF PageFacts
  <2>3. \A i \in Ids : rows[i] > 0 => rows'[i] > 0
    BY <1>1, <2>1 DEF PageFacts
  <2>4. list' \subseteq Page!Existing(rows') /\ list' \subseteq Ids
    BY <1>6 DEF Page!SavePerimeter, Page!Loads, Page!Existing
  <2>5. /\ previews' \in [Ids -> 0 .. MaxVersion]
        /\ \A i \in Ids : previews'[i] = 0 \/ previews'[i] = rows'[i]
    BY <1>1, <1>3, <1>6, <2>1 DEF Page!SavePerimeter, PageFacts
  <2> QED
    BY <1>1, <1>6, <2>1, <2>2, <2>3, <2>4, <2>5 DEF Page!SavePerimeter, PageFacts, Page!Existing
<1>7. CASE Page!Back
  <2>1. /\ previews' \in [Ids -> 0 .. MaxVersion]
        /\ \A i \in Ids : previews'[i] = 0 \/ previews'[i] = rows[i]
    BY <1>1, <1>7, ShownIsCurrent DEF Page!Back, PageFacts
  <2>2. /\ selected' \in Ids \cup {Page!NoDataset}
        /\ selected' \in list \/ (list = {} /\ selected' = Page!NoDataset)
    BY <1>1, <1>7 DEF Page!Back, Page!Ensured, PageFacts
  <2>3. edited' = Page!NoDataset /\ UNCHANGED <<rows, list, opened, visible>>
    BY <1>7 DEF Page!Back
  <2> QED
    BY <1>1, <1>2, <1>7, <2>1, <2>2, <2>3 DEF Page!Back, PageFacts
<1>8. ASSUME NEW i \in Ids, Page!Add(i) PROVE PageFacts'
  <2>1. rows' \in [Ids -> 0 .. MaxVersion] /\ \A j \in Ids : rows[j] > 0 => rows'[j] > 0
    BY <1>1, <1>3, <1>8 DEF Page!Add, PageFacts
  <2>2. rows'[i] > 0 /\ opened' = opened \cup {i}
    BY <1>1, <1>8 DEF Page!Add, PageFacts, Page!Marked
  <2> DEFINE p == [j \in Ids |-> 0]
  <2>3. /\ p \in [Ids -> 0 .. MaxVersion] /\ \A j \in Ids : p[j] = 0 \/ p[j] = rows'[j]
        /\ previews' = Page!Shown(p, rows', list', visible')
    BY <1>3, <1>8 DEF Page!Add
  <2> HIDE DEF p
  <2>4. list' \subseteq Ids /\ (\A j \in list' : rows'[j] > 0) /\ Page!Ensured(i, list', selected') /\ loaded'
    BY <1>1, <1>8, LoadedIsTrue DEF Page!Add, PageFacts
  <2> QED
    BY <1>1, <1>8, <2>1, <2>2, <2>3, <2>4, PageIsShown DEF Page!Add, PageFacts
<1>9. ASSUME NEW i \in Ids, Page!OpenDialog(i) PROVE PageFacts'
  <2>1. rows[i] > 0 /\ opened' = opened \cup {i}
    BY <1>1, <1>9 DEF Page!OpenDialog, Page!Marked, PageFacts
  <2> QED
    BY <1>1, <1>9, <2>1 DEF Page!OpenDialog, PageFacts
<1>10. ASSUME NEW i \in Ids, Page!Edit(i) PROVE PageFacts'
  <2>1. /\ rows' = [rows EXCEPT ![i] = @ + 1] /\ rows[i] \in 1 .. (MaxVersion - 1)
        /\ rows[i] + 1 \in 0 .. MaxVersion /\ rows[i] + 1 > 0
    BY <1>1, <1>3, <1>10 DEF Page!Edit, PageFacts
  <2>2. rows' \in [Ids -> 0 .. MaxVersion] /\ rows'[i] > 0 /\ \A j \in Ids : rows[j] > 0 => rows'[j] > 0
    BY <1>1, <2>1 DEF PageFacts
  <2> DEFINE p == [previews EXCEPT ![i] = 0]
  <2>3. /\ p \in [Ids -> 0 .. MaxVersion] /\ \A j \in Ids : p[j] = 0 \/ p[j] = rows'[j]
        /\ previews' = Page!Shown(p, rows', list', visible')
    BY <1>1, <1>3, <1>10, <2>1 DEF Page!Edit, PageFacts
  <2> HIDE DEF p
  <2>4. /\ list' \subseteq Ids /\ (\A j \in list' : rows'[j] > 0) /\ Page!Ensured(i, list', selected') /\ loaded'
        /\ opened' = opened \cup {i}
    BY <1>1, <1>10, LoadedIsTrue DEF Page!Edit, PageFacts, Page!Marked
  <2> QED
    BY <1>1, <1>10, <2>2, <2>3, <2>4, PageIsShown DEF Page!Edit, PageFacts
<1>11. ASSUME NEW i \in Ids, Page!Delete(i) PROVE PageFacts'
  <2>1. rows' \in [Ids -> 0 .. MaxVersion] /\ \A j \in Ids \ {i} : rows'[j] = rows[j]
    BY <1>1, <1>3, <1>11 DEF Page!Delete, PageFacts
  <2> DEFINE p == [previews EXCEPT ![i] = 0]
             s == IF selected = i THEN Page!NoDataset ELSE selected
  <2>3. /\ p \in [Ids -> 0 .. MaxVersion] /\ \A j \in Ids : p[j] = 0 \/ p[j] = rows'[j]
        /\ previews' = Page!Shown(p, rows', list', visible')
    BY <1>1, <1>3, <1>11, <2>1 DEF Page!Delete, PageFacts
  <2>4. list' \subseteq Ids /\ (\A j \in list' : rows'[j] > 0) /\ Page!Ensured(s, list', selected') /\ loaded'
    BY <1>1, <1>11, LoadedIsTrue DEF Page!Delete, PageFacts
  <2> HIDE DEF p, s
  <2>5. /\ visible' \in (Ids \cup {Page!NoDataset}) \ {i} /\ (visible' # Page!NoDataset => visible' = visible)
        /\ edited' \in (Ids \cup {Page!NoDataset}) \ {i} /\ (edited' # Page!NoDataset => edited' = edited)
        /\ opened' = opened \ {i}
    BY <1>1, <1>2, <1>11 DEF Page!Delete, Page!Cleared, Page!Marked, PageFacts
  <2>6. \A j \in Ids : j = visible' \/ j = edited' \/ j \in opened' => rows'[j] > 0
    BY <1>1, <1>2, <2>1, <2>5 DEF PageFacts
  <2> QED
    BY <1>1, <2>1, <2>3, <2>4, <2>5, <2>6, PageIsShown DEF PageFacts
<1>12. ASSUME NEW i \in Ids, Page!TogglePreview(i) PROVE PageFacts'
  <2>1. /\ visible' \in {i, Page!NoDataset} /\ opened' \subseteq opened \cup {i} /\ rows[i] > 0
        /\ selected' = i /\ i \in list /\ page = "list"
        /\ UNCHANGED <<rows, list, loaded, edited, page>>
    BY <1>1, <1>12 DEF Page!TogglePreview, Page!Marked, PageFacts
  <2>2. /\ previews' \in [Ids -> 0 .. MaxVersion]
        /\ \A j \in Ids : previews'[j] = 0 \/ previews'[j] = rows[j]
    BY <1>1, <1>12, ShownIsCurrent DEF Page!TogglePreview, PageFacts
  <2> QED
    BY <1>1, <1>2, <2>1, <2>2 DEF PageFacts
<1>13. ASSUME NEW i \in Ids, Page!OpenPerimeter(i) PROVE PageFacts'
  <2>1. rows[i] > 0 /\ opened' = opened \cup {i}
    BY <1>1, <1>13 DEF Page!OpenPerimeter, Page!Marked, PageFacts
  <2> QED
    BY <1>1, <1>13, <2>1 DEF Page!OpenPerimeter, PageFacts
<1>14. CASE UNCHANGED ofPage
  BY <1>1, <1>14 DEF ofPage, PageFacts
<1> QED
  BY <1>4, <1>5, <1>6, <1>7, <1>8, <1>9, <1>10, <1>11, <1>12, <1>13, <1>14 DEF Page!Next

(***************************************************************************)
(* The commands that write tables.                                         *)
(***************************************************************************)

Table == [there : BOOLEAN, unique : BOOLEAN, rows : SUBSET Writers!Row]
Views == UNION {[D -> Tables \cup {None}] : D \in SUBSET Datasets}
Run == [step : Writers!Places, command : Commands \cup {None}, table : Tables \cup {None},
        found : SUBSET Writers!Row, erased : SUBSET Writers!Row, view : Views,
        dataset : Datasets \cup {None}, nth : Nat, left : Nat, before : SUBSET Writers!Row,
        disturbed : BOOLEAN]

\* A record of command c has key k.
Names(c, k) == k # None /\ \E i \in DOMAIN c.rows : c.rows[i] = k

\* The rows that the command number n + 1 of run r inserts, and what it means.
RecordsOf(r, n, c) ==
    {[key |-> c.rows[i], by |-> r, nth |-> n + 1, at |-> i] : i \in DOMAIN c.rows}
MeantOf(r, n, c, before) ==
    IF c.kind \notin {"export", "save"} THEN {}
    ELSE IF c.rows = <<>> THEN before
    ELSE IF Writers!Recreates(c) THEN RecordsOf(r, n, c)
    ELSE (IF Writers!Replaces(c) THEN {row \in before : ~Names(c, row.key)} ELSE before)
             \cup RecordsOf(r, n, c)

\* The rows the DELETE of command c is for.
ToDelete(c, content) ==
    IF Writers!Replaces(c) THEN {row \in content : Names(c, row.key)} ELSE content

\* Which command can be at which step.
KindAt(step, c) ==
    /\ step \in {"drop", "dropping"} =>
           \/ c.kind \in {"dropTable", "dropDataset"}
           \/ Writers!Recreates(c) /\ c.rows # <<>>
    /\ step \in {"ensure", "recreate", "insert", "commit", "register", "write"} =>
           c.kind \in {"export", "save"} /\ c.rows # <<>>
    /\ step = "recreate" => Writers!Recreates(c)
    /\ step \in {"look", "erase"} =>
           \/ c.kind \in {"cleanTable", "cleanDataset"}
           \/ Writers!Replaces(c) /\ c.rows # <<>>
    /\ step = "commit" => Writers!Replaces(c)
    /\ step \in {"register", "write"} => c.kind = "export"
    /\ step = "unregister" => c.kind = "dropDataset"

\* Where a command stands whose table, with these rows, nobody else has changed.
Undisturbed(r, x, content) ==
    /\ x.step \in {"drop", "dropping", "look", "erase"} => content = x.before
    /\ x.step \in {"ensure", "recreate", "insert"} =>
           content = IF Writers!Recreates(x.command) THEN {} ELSE x.before
    /\ x.step = "erase" => x.found = ToDelete(x.command, x.before)
    /\ x.step = "insert" /\ Writers!Replaces(x.command) => x.erased = ToDelete(x.command, x.before)
    /\ x.step = "commit" => /\ x.erased = ToDelete(x.command, x.before)
                           /\ content = x.before \cup RecordsOf(r, x.nth, x.command)
    /\ x.step \in {"register", "write", "unregister", "log"} =>
           content = MeantOf(r, x.nth, x.command, x.before)

\* Run r stands as x says, and its table has these rows.
Stands(r, x, content) ==
    /\ x \in Run
    /\ x.nth + x.left <= MaxCommands
    /\ x.step \notin {"idle", "over"} =>
           x.command \in Commands /\ x.table \in Tables /\ x.left > 0 /\ KindAt(x.step, x.command)
    /\ x.step = "write" => x.dataset \in Datasets
    /\ x.erased \subseteq x.found
    /\ x.erased # {} => x.step \in {"insert", "commit"} /\ Writers!Replaces(x.command)
    /\ x.step \in {"erase", "insert", "commit"} /\ Writers!Replaces(x.command) =>
           \A row \in x.found : Names(x.command, row.key)
    /\ \A row \in x.found \cup x.before : row.by = r => row.nth <= x.nth
    /\ ~x.disturbed => Undisturbed(r, x, content)

Stand == \A r \in Runs : Stands(r, runs[r], tables[runs[r].table].rows)

\* The last command of run r that may have inserted rows.
LastWriter(x) == IF x.step \in {"commit", "register", "write", "log"} THEN x.nth + 1 ELSE x.nth

\* No row is of a command that has not inserted its rows.
RowsAreOld ==
    \A r \in Runs :
        /\ \A t \in Tables : \A row \in tables[t].rows : row.by = r => row.nth <= LastWriter(runs[r])
        /\ \A q \in Runs : \A row \in runs[q].found : row.by = r => row.nth <= LastWriter(runs[r])

\* A deleted row is a row of its table, of one transaction.
DeletedOnce ==
    \A r \in Runs : /\ runs[r].erased # {} => runs[r].erased \subseteq tables[runs[r].table].rows
                    /\ \A q \in Runs : q # r => runs[q].erased \cap runs[r].erased = {}

\* Between its INSERT and the end of its transaction an insert-update has, for
\* a row it deleted, a row of the same key in the table, which no other
\* transaction deletes: who saw the new row saw the old one, too, and waits.
Replaced(r, x) ==
    x.step = "commit" =>
        \A row \in x.erased, new \in RecordsOf(r, x.nth, x.command) :
            new.key = row.key =>
                /\ new \in tables[x.table].rows
                /\ \A q \in Runs \ {r} : runs[q].table = x.table =>
                       /\ new \notin runs[q].erased
                       /\ runs[q].step = "erase" /\ new \in runs[q].found => row \in runs[q].found

NewRowsStay == \A r \in Runs : Replaced(r, runs[r])

\* The invariant of the table commands.
TablesInv ==
    /\ tables \in [Tables -> Table] /\ \A t \in Tables : ~tables[t].there => tables[t].rows = {}
    /\ runs \in [Runs -> Run]
    /\ datasets \in [Datasets -> Tables \cup {None}] /\ breaks \in 0 .. MaxFaults
    /\ Stand
    /\ RowsAreOld
    /\ DeletedOnce
    /\ NewRowsStay

LEMMA CommandType ==
    ASSUME NEW c \in Commands
    PROVE  /\ c.kind \in Writers!Kinds /\ c.mode \in Writers!Modes /\ c.table \in Tables
           /\ c.dataset \in Datasets \cup {New, None}
           /\ c.kind = "export" => c.dataset # None
           /\ c.kind \in {"dropDataset", "cleanDataset"} => c.dataset \in Datasets
           /\ c.rows \in Seq(Keys \cup {None}) /\ DOMAIN c.rows \subseteq Nat
           /\ \A i \in DOMAIN c.rows : c.rows[i] \in Keys \cup {None}
<1>1. c.rows \in Seq(Keys \cup {None})
  BY SharedAssumption DEF Writers!TableCommandsAssumption
<1> QED
  BY <1>1, SharedAssumption DEF Writers!TableCommandsAssumption

LEMMA TablesConstants ==
    /\ None \notin Keys /\ None \notin Tables /\ None \notin Datasets
    /\ New \notin Datasets /\ New # None
    /\ MaxCommands \in Nat /\ MaxFaults \in Nat
    /\ \A lengths \in Lengths : lengths \in [Runs -> 0 .. MaxCommands]
    /\ Named \in [Datasets -> Tables \cup {None}]
BY SharedAssumption DEF Writers!TableCommandsAssumption

\* The values are those of the model's operators.
LEMMA RecordsAre == \A r, c : Writers!Records(r, c) = RecordsOf(r, runs[r].nth, c)
BY DEF Writers!Records, RecordsOf

LEMMA WithoutKeyIs ==
    ASSUME NEW c, NEW content
    PROVE  Writers!WithoutKey(content, c) = {row \in content : ~Names(c, row.key)}
BY DEF Writers!WithoutKey, Names, Writers!Range

LEMMA MatchingIs ==
    ASSUME NEW c, NEW content
    PROVE  Writers!Matching(c, content) = ToDelete(c, content)
BY WithoutKeyIs DEF Writers!Matching, ToDelete

LEMMA MeantIs ==
    ASSUME NEW r, NEW c, NEW before
    PROVE  Writers!Meant(r, c, before) = MeantOf(r, runs[r].nth, c, before)
BY WithoutKeyIs, RecordsAre DEF Writers!Meant, MeantOf

\* The rows of a command are rows, and bear its number.
LEMMA RecordsType ==
    ASSUME NEW r \in Runs, NEW c \in Commands, NEW n \in Nat, n + 1 <= MaxCommands
    PROVE  /\ RecordsOf(r, n, c) \subseteq Writers!Row
           /\ \A row \in RecordsOf(r, n, c) : row.by = r /\ row.nth = n + 1
<1>1. n + 1 \in 0 .. MaxCommands
  BY TablesConstants
<1> QED
  BY <1>1, CommandType DEF RecordsOf, Writers!Row

LEMMA ViewGrows ==
    ASSUME NEW v \in Views, NEW d \in Datasets, NEW to \in Tables \cup {None}
    PROVE  [y \in DOMAIN v \cup {d} |-> IF y = d THEN to ELSE v[y]] \in Views
<1>1. PICK D \in SUBSET Datasets : v \in [D -> Tables \cup {None}]
  BY DEF Views
<1>2. D \cup {d} \in SUBSET Datasets
  BY <1>1
<1>3. [y \in DOMAIN v \cup {d} |-> IF y = d THEN to ELSE v[y]] \in [D \cup {d} -> Tables \cup {None}]
  BY <1>1
<1> QED
  BY <1>2, <1>3 DEF Views

LEMMA EmptyView == <<>> \in Views
<1>1. <<>> \in [{} -> Tables \cup {None}]
  OBVIOUS
<1> QED
  BY <1>1 DEF Views

LEMMA ViewNames ==
    ASSUME NEW v \in Views, NEW d \in DOMAIN v
    PROVE  v[d] \in Tables \cup {None} /\ d \in Datasets
BY DEF Views

\* Another run's step leaves all of a run but for the note that its table has
\* been written.
Same(x, y) ==
    /\ y \in Run /\ (x.disturbed => y.disturbed)
    /\ y.step = x.step /\ y.command = x.command /\ y.table = x.table /\ y.found = x.found
    /\ y.erased = x.erased /\ y.view = x.view /\ y.dataset = x.dataset /\ y.nth = x.nth
    /\ y.left = x.left /\ y.before = x.before

LEMMA SameStands ==
    ASSUME NEW q, NEW x, NEW y, NEW old, NEW new, Stands(q, x, old), Same(x, y),
           x.step \in {"idle", "over"} \/ y.disturbed \/ new = old
    PROVE  Stands(q, y, new)
BY DEF Stands, Same, Undisturbed

LEMMA TablesInit == Writers!Init => TablesInv
<1> SUFFICES ASSUME Writers!Init PROVE TablesInv
  OBVIOUS
<1>1. PICK unique \in BOOLEAN :
         tables = [t \in Tables |->
               IF \E d \in Datasets : Named[d] = t
               THEN [there |-> TRUE, unique |-> unique,
                     rows |-> {[key |-> k, by |-> None, nth |-> 0, at |-> 1] : k \in Keys}]
               ELSE Writers!Absent]
  BY DEF Writers!Init
<1>2. PICK lengths \in Lengths : runs = [r \in Runs |-> [Writers!Idle EXCEPT !.left = lengths[r]]]
  BY DEF Writers!Init
<1>3. lengths \in [Runs -> 0 .. MaxCommands] /\ MaxCommands \in Nat
  BY TablesConstants
<1>4. \A t \in Tables : /\ tables[t] \in Table /\ (~tables[t].there => tables[t].rows = {})
                        /\ \A row \in tables[t].rows : row.nth = 0
  <2>1. {[key |-> k, by |-> None, nth |-> 0, at |-> 1] : k \in Keys} \subseteq Writers!Row
    BY TablesConstants DEF Writers!Row
  <2> QED
    BY <1>1, <2>1 DEF Table, Writers!Absent
<1>5. tables \in [Tables -> Table]
  BY <1>1, <1>4
<1>6. \A r \in Runs : /\ runs[r] \in Run /\ runs[r].step = "idle" /\ runs[r].nth = 0
                      /\ runs[r].nth + runs[r].left <= MaxCommands
                      /\ runs[r].found = {} /\ runs[r].erased = {} /\ runs[r].before = {}
  <2> SUFFICES ASSUME NEW r \in Runs
               PROVE  /\ runs[r] \in Run /\ runs[r].step = "idle" /\ runs[r].nth = 0
                      /\ runs[r].nth + runs[r].left <= MaxCommands
                      /\ runs[r].found = {} /\ runs[r].erased = {} /\ runs[r].before = {}
    OBVIOUS
  <2>1. lengths[r] \in Nat /\ lengths[r] <= MaxCommands
    BY <1>3
  <2>2. runs[r] = [step |-> "idle", command |-> None, table |-> None, found |-> {}, erased |-> {},
                   view |-> <<>>, dataset |-> None, nth |-> 0, left |-> lengths[r], before |-> {},
                   disturbed |-> FALSE]
    BY <1>2 DEF Writers!Idle
  <2> QED
    BY <2>1, <2>2, EmptyView DEF Run, Writers!Places
<1>7. runs \in [Runs -> Run]
  BY <1>2, <1>6
<1>8. Stand
  BY <1>6 DEF Stand, Stands, Undisturbed
<1>9. RowsAreOld
  BY <1>4, <1>6 DEF RowsAreOld, LastWriter
<1>10. DeletedOnce
  BY <1>6 DEF DeletedOnce
<1>11. NewRowsStay
  BY <1>6 DEF NewRowsStay, Replaced
<1>12. datasets \in [Datasets -> Tables \cup {None}] /\ breaks \in 0 .. MaxFaults
  BY TablesConstants DEF Writers!Init
<1> QED
  BY <1>4, <1>5, <1>7, <1>8, <1>9, <1>10, <1>11, <1>12 DEF TablesInv

LEMMA LastWriterType ==
    ASSUME NEW x \in Run
    PROVE  LastWriter(x) \in Nat
BY DEF LastWriter, Run

\* What a step of run r to x has to see to: where the command stands, that the
\* rows it adds are its own, that it takes away no row that another
\* transaction has deleted, nor a new row that stands for one.
LEMMA StepKeeps ==
    ASSUME TablesInv, NEW r \in Runs, NEW x \in Run,
           tables' \in [Tables -> Table], \A t \in Tables : ~tables'[t].there => tables'[t].rows = {},
           datasets' \in [Datasets -> Tables \cup {None}], breaks' \in 0 .. MaxFaults,
           runs' \in [Runs -> Run], runs'[r] = x,
           \A q \in Runs \ {r} :
               /\ Same(runs[q], runs'[q])
               /\ \/ runs[q].step \in {"idle", "over"} \/ runs'[q].disturbed
                  \/ tables'[runs[q].table].rows = tables[runs[q].table].rows,
           Stands(r, x, tables'[x.table].rows), LastWriter(runs[r]) <= LastWriter(x),
           \A t \in Tables : \A row \in tables'[t].rows :
               row \in tables[t].rows \/ (row.by = r /\ row.nth <= LastWriter(x)),
           \A row \in x.found : row \in runs[r].found \/ \E t \in Tables : row \in tables[t].rows,
           x.erased # {} => x.erased \subseteq tables'[x.table].rows,
           \A q \in Runs \ {r} :
               /\ runs[q].erased \cap x.erased = {}
               /\ \A row \in runs[q].erased : row \in tables'[runs[q].table].rows
               /\ runs[q].step = "commit" =>
                      \A row \in runs[q].erased, new \in RecordsOf(q, runs[q].nth, runs[q].command) :
                          new.key = row.key =>
                              /\ new \in tables'[runs[q].table].rows
                              /\ x.table = runs[q].table =>
                                     /\ new \notin x.erased
                                     /\ x.step = "erase" /\ new \in x.found => row \in x.found,
           x.step = "commit" =>
               \A row \in x.erased, new \in RecordsOf(r, x.nth, x.command) :
                   new.key = row.key =>
                       /\ new \in tables'[x.table].rows
                       /\ \A q \in Runs \ {r} : runs[q].table = x.table =>
                              /\ new \notin runs[q].erased
                              /\ runs[q].step = "erase" /\ new \in runs[q].found => row \in runs[q].found
    PROVE  TablesInv'
<1>1. Stand'
  <2> SUFFICES ASSUME NEW q \in Runs PROVE Stands(q, runs'[q], tables'[runs'[q].table].rows)
    BY DEF Stand, Stands, Undisturbed
  <2>1. CASE q = r
    BY <2>1
  <2>2. CASE q # r
    <3>1. /\ Same(runs[q], runs'[q]) /\ runs'[q].table = runs[q].table
          /\ \/ runs[q].step \in {"idle", "over"} \/ runs'[q].disturbed
             \/ tables'[runs[q].table].rows = tables[runs[q].table].rows
      BY <2>2 DEF Same
    <3>2. Stands(q, runs[q], tables[runs[q].table].rows)
      BY DEF TablesInv, Stand
    <3> QED
      BY <3>1, <3>2, SameStands
  <2> QED
    BY <2>1, <2>2
<1>2. RowsAreOld'
  <2> SUFFICES ASSUME NEW p \in Runs
               PROVE  /\ \A t \in Tables : \A row \in tables'[t].rows :
                             row.by = p => row.nth <= LastWriter(runs'[p])
                      /\ \A q \in Runs : \A row \in runs'[q].found :
                             row.by = p => row.nth <= LastWriter(runs'[p])
    BY DEF RowsAreOld, LastWriter
  <2>1. /\ LastWriter(runs[p]) <= LastWriter(runs'[p])
        /\ LastWriter(runs[p]) \in Nat /\ LastWriter(runs'[p]) \in Nat
    <3>1. CASE p = r
      BY <3>1, LastWriterType DEF TablesInv
    <3>2. CASE p # r
      <4>1. LastWriter(runs'[p]) = LastWriter(runs[p])
        BY <3>2 DEF Same, LastWriter
      <4> QED
        BY <4>1, LastWriterType DEF TablesInv
    <3> QED
      BY <3>1, <3>2
  <2>2. ASSUME NEW t \in Tables, NEW row \in tables[t].rows, row.by = p
        PROVE  row.nth <= LastWriter(runs'[p])
    <3>1. row.nth \in Nat /\ row.nth <= LastWriter(runs[p])
      BY <2>2, TablesConstants DEF TablesInv, RowsAreOld, Table, Writers!Row
    <3> QED
      BY <2>1, <3>1
  <2>3. ASSUME NEW q \in Runs, NEW row \in runs[q].found, row.by = p
        PROVE  row.nth <= LastWriter(runs'[p])
    <3>1. row.nth \in Nat /\ row.nth <= LastWriter(runs[p])
      BY <2>3, TablesConstants DEF TablesInv, RowsAreOld, Run, Writers!Row
    <3> QED
      BY <2>1, <3>1
  <2>4. ASSUME NEW t \in Tables, NEW row \in tables'[t].rows, row.by = p
        PROVE  row.nth <= LastWriter(runs'[p])
    BY <2>2, <2>4
  <2>5. ASSUME NEW q \in Runs, NEW row \in runs'[q].found, row.by = p
        PROVE  row.nth <= LastWriter(runs'[p])
    <3>1. CASE q = r
      BY <2>2, <2>3, <2>5, <3>1
    <3>2. CASE q # r
      <4>1. row \in runs[q].found
        BY <2>5, <3>2 DEF Same
      <4> QED
        BY <2>3, <2>5, <4>1
    <3> QED
      BY <3>1, <3>2
  <2> QED
    BY <2>4, <2>5
<1>3. \A q \in Runs \ {r} : runs'[q].erased = runs[q].erased /\ runs'[q].table = runs[q].table
                          /\ runs'[q].step = runs[q].step /\ runs'[q].found = runs[q].found
                          /\ runs'[q].nth = runs[q].nth /\ runs'[q].command = runs[q].command
  BY DEF Same
<1>4. DeletedOnce'
  <2> SUFFICES ASSUME NEW p \in Runs
               PROVE  /\ runs'[p].erased # {} => runs'[p].erased \subseteq tables'[runs'[p].table].rows
                      /\ \A q \in Runs : q # p => runs'[q].erased \cap runs'[p].erased = {}
    BY DEF DeletedOnce
  <2>1. runs'[p].erased # {} => runs'[p].erased \subseteq tables'[runs'[p].table].rows
    <3>1. CASE p = r
      BY <3>1
    <3>2. CASE p # r
      BY <1>3, <3>2
    <3> QED
      BY <3>1, <3>2
  <2>2. ASSUME NEW q \in Runs, q # p PROVE runs'[q].erased \cap runs'[p].erased = {}
    <3>1. CASE p = r
      BY <1>3, <2>2, <3>1
    <3>2. CASE q = r
      BY <1>3, <2>2, <3>2
    <3>3. CASE p # r /\ q # r
      BY <1>3, <2>2, <3>3 DEF TablesInv, DeletedOnce
    <3> QED
      BY <3>1, <3>2, <3>3
  <2> QED
    BY <2>1, <2>2
<1>5. NewRowsStay'
  <2> SUFFICES ASSUME NEW p \in Runs, runs'[p].step = "commit", NEW row \in runs'[p].erased,
                      NEW new \in RecordsOf(p, runs'[p].nth, runs'[p].command), new.key = row.key
               PROVE  /\ new \in tables'[runs'[p].table].rows
                      /\ \A q \in Runs \ {p} : runs'[q].table = runs'[p].table =>
                             /\ new \notin runs'[q].erased
                             /\ runs'[q].step = "erase" /\ new \in runs'[q].found => row \in runs'[q].found
    BY DEF NewRowsStay, Replaced, RecordsOf
  <2>1. CASE p = r
    BY <1>3, <2>1
  <2>2. CASE p # r
    <3>1. /\ runs[p].step = "commit" /\ row \in runs[p].erased
          /\ new \in RecordsOf(p, runs[p].nth, runs[p].command)
          /\ runs'[p].table = runs[p].table
      BY <1>3, <2>2
    <3>2. /\ new \in tables'[runs[p].table].rows
          /\ x.table = runs[p].table =>
                 /\ new \notin x.erased
                 /\ x.step = "erase" /\ new \in x.found => row \in x.found
      BY <2>2, <3>1
    <3>3. ASSUME NEW q \in Runs \ {p}, runs[q].table = runs[p].table
          PROVE  /\ new \notin runs[q].erased
                 /\ runs[q].step = "erase" /\ new \in runs[q].found => row \in runs[q].found
      BY <3>1, <3>3 DEF TablesInv, NewRowsStay, Replaced
    <3>4. ASSUME NEW q \in Runs \ {p}, runs'[q].table = runs[p].table
          PROVE  /\ new \notin runs'[q].erased
                 /\ runs'[q].step = "erase" /\ new \in runs'[q].found => row \in runs'[q].found
      <4>1. CASE q = r
        BY <3>2, <3>4, <4>1
      <4>2. CASE q # r
        BY <1>3, <3>3, <3>4, <4>2
      <4> QED
        BY <4>1, <4>2
    <3> QED
      BY <3>1, <3>2, <3>4
  <2> QED
    BY <2>1, <2>2
<1> QED
  BY <1>1, <1>2, <1>4, <1>5 DEF TablesInv

\* A step that writes no table and deletes nothing.
LEMMA QuietKeeps ==
    ASSUME TablesInv, NEW r \in Runs, NEW x \in Run,
           runs' = [runs EXCEPT ![r] = x], UNCHANGED tables,
           datasets' \in [Datasets -> Tables \cup {None}], breaks' \in 0 .. MaxFaults,
           Stands(r, x, tables[x.table].rows), LastWriter(runs[r]) <= LastWriter(x),
           x.found \subseteq runs[r].found, x.erased = {}, x.step \notin {"erase", "commit"}
    PROVE  TablesInv'
<1>1. /\ tables \in [Tables -> Table] /\ \A t \in Tables : ~tables[t].there => tables[t].rows = {}
      /\ runs \in [Runs -> Run]
  BY DEF TablesInv
<1>2. /\ runs' \in [Runs -> Run] /\ runs'[r] = x
      /\ \A q \in Runs \ {r} : runs'[q] = runs[q]
  BY <1>1
<1>3. \A q \in Runs \ {r} : Same(runs[q], runs'[q])
  BY <1>1, <1>2 DEF Same
<1>4. \A q \in Runs \ {r} :
         /\ \A row \in runs[q].erased : row \in tables[runs[q].table].rows
         /\ runs[q].step = "commit" =>
                \A row \in runs[q].erased, new \in RecordsOf(q, runs[q].nth, runs[q].command) :
                    new.key = row.key => new \in tables[runs[q].table].rows
  BY DEF TablesInv, DeletedOnce, NewRowsStay, Replaced
<1> QED
  BY <1>1, <1>2, <1>3, <1>4, StepKeeps

\* What is known of a run.
LEMMA RunFacts ==
    ASSUME TablesInv, NEW r \in Runs
    PROVE  /\ runs[r] \in Run /\ Stands(r, runs[r], tables[runs[r].table].rows)
           /\ runs \in [Runs -> Run] /\ DOMAIN runs = Runs
           /\ runs[r].step \notin {"insert", "commit"} => runs[r].erased = {}
           /\ datasets \in [Datasets -> Tables \cup {None}] /\ breaks \in 0 .. MaxFaults
BY DEF TablesInv, Stand, Stands

\* A command is over, done or failed.
LEMMA EndedType ==
    ASSUME TablesInv, NEW r \in Runs, runs[r].left > 0
    PROVE  LET x == Writers!Ended(r) IN
           /\ x \in Run /\ x.step = "idle" /\ x.found = {} /\ x.erased = {} /\ x.before = {}
           /\ x.nth = runs[r].nth + 1 /\ x.left = runs[r].left - 1 /\ x.view = runs[r].view
           /\ x.table = None
<1>1. /\ runs[r] \in Run /\ runs[r].nth + 1 \in Nat /\ runs[r].left - 1 \in Nat
  BY RunFacts DEF Run
<1> DEFINE n == runs[r].nth + 1
           l == runs[r].left - 1
<1>2. Writers!Ended(r) = [runs[r] EXCEPT !.step = "idle", !.command = None, !.table = None,
          !.found = {}, !.erased = {}, !.dataset = None, !.nth = n, !.left = l, !.before = {},
          !.disturbed = FALSE]
  BY DEF Writers!Ended
<1>3. n \in Nat /\ l \in Nat
  BY <1>1
<1> HIDE DEF n, l
<1>4. /\ Writers!Ended(r) \in Run /\ Writers!Ended(r).step = "idle" /\ Writers!Ended(r).found = {}
      /\ Writers!Ended(r).erased = {} /\ Writers!Ended(r).before = {} /\ Writers!Ended(r).nth = n
      /\ Writers!Ended(r).left = l /\ Writers!Ended(r).view = runs[r].view
      /\ Writers!Ended(r).table = None
  BY <1>1, <1>2, <1>3 DEF Run, Writers!Places
<1> QED
  BY <1>4 DEF n, l

LEMMA EndedKeeps ==
    ASSUME TablesInv, NEW r \in Runs, runs[r].left > 0,
           runs' = [runs EXCEPT ![r] = Writers!Ended(r)], UNCHANGED <<tables, datasets>>,
           breaks' \in 0 .. MaxFaults
    PROVE  TablesInv'
<1> DEFINE x == Writers!Ended(r)
<1>1. /\ x \in Run /\ x.step = "idle" /\ x.found = {} /\ x.erased = {} /\ x.before = {}
      /\ x.nth = runs[r].nth + 1 /\ x.left = runs[r].left - 1
  BY EndedType
<1>2. runs' = [runs EXCEPT ![r] = x]
  OBVIOUS
<1> HIDE DEF x
<1>3. /\ runs[r] \in Run /\ runs[r].nth + runs[r].left <= MaxCommands
      /\ runs[r].nth \in Nat /\ runs[r].left \in Nat
  BY RunFacts DEF Stands, Run
<1>4. x.nth + x.left <= MaxCommands /\ LastWriter(runs[r]) <= LastWriter(x)
  BY <1>1, <1>3, TablesConstants DEF LastWriter
<1>5. Stands(r, x, tables[x.table].rows)
  BY <1>1, <1>4 DEF Stands, Undisturbed
<1> QED
  BY <1>1, <1>2, <1>4, <1>5, RunFacts, QuietKeeps

\* A command that begins.
LEMMA BeginKeeps ==
    ASSUME TablesInv, NEW r \in Runs, NEW c \in Commands, NEW t \in Tables,
           NEW step \in {"drop", "ensure", "look", "log"},
           runs[r].step = "idle", runs[r].left > 0, Writers!Begin(r, c, t, step), UNCHANGED breaks,
           KindAt(step, c), step = "ensure" => ~Writers!Recreates(c),
           step = "log" => c.kind \in {"export", "save"} /\ c.rows = <<>>
    PROVE  TablesInv'
<1> DEFINE b == tables[t].rows
           d == \E q \in Runs : Writers!Holds(q, t)
           x == [runs[r] EXCEPT !.step = step, !.command = c, !.table = t, !.before = b,
                                !.disturbed = d]
<1>1. /\ runs[r] \in Run /\ runs[r].erased = {} /\ runs \in [Runs -> Run] /\ b \subseteq Writers!Row
      /\ d \in BOOLEAN
  BY RunFacts DEF TablesInv, Table
<1>2. runs' = [runs EXCEPT ![r] = x] /\ UNCHANGED <<tables, datasets>>
  BY <1>1 DEF Writers!Begin, Run
<1> HIDE DEF d
<1>3. /\ x.step = step /\ x.command = c /\ x.table = t /\ x.before = b /\ x.disturbed = d
      /\ x.found = runs[r].found /\ x.erased = {} /\ x.nth = runs[r].nth /\ x.left = runs[r].left
  BY <1>1 DEF Run
<1>4. x \in Run
  BY <1>1 DEF Run, Writers!Places
<1> HIDE DEF x
<1>5. /\ runs[r].nth + runs[r].left <= MaxCommands
      /\ \A row \in runs[r].found : row.by = r => row.nth <= runs[r].nth
      /\ LastWriter(runs[r]) = runs[r].nth /\ runs[r].nth \in Nat
  BY RunFacts DEF Stands, LastWriter, Run
<1>6. \A row \in b : row.by = r => row.nth <= runs[r].nth
  BY <1>5 DEF TablesInv, RowsAreOld
<1>7. Stands(r, x, b)
  BY <1>3, <1>4, <1>5, <1>6 DEF Stands, Undisturbed, MeantOf
<1>8. LastWriter(runs[r]) <= LastWriter(x)
  BY <1>3, <1>5 DEF LastWriter
<1> QED
  BY <1>2, <1>3, <1>4, <1>7, <1>8, RunFacts, QuietKeeps

LEMMA SeenType ==
    ASSUME TablesInv, NEW r \in Runs, NEW d \in Datasets
    PROVE  Writers!Seen(r, d) \in Tables \cup {None}
<1>1. runs[r].view \in Views /\ datasets \in [Datasets -> Tables \cup {None}]
  BY RunFacts DEF Run
<1> QED
  BY <1>1, ViewNames DEF Writers!Seen

LEMMA StartKeeps ==
    ASSUME TablesInv, NEW r \in Runs, NEW c \in Commands, Writers!StartCommand(r, c)
    PROVE  TablesInv'
<1>1. runs[r].step = "idle" /\ runs[r].left > 0 /\ UNCHANGED breaks
  BY DEF Writers!StartCommand
<1>2. /\ c.table \in Tables
      /\ c.kind \in {"dropDataset", "cleanDataset"} => Writers!Seen(r, c.dataset) \in Tables \cup {None}
  BY CommandType, SeenType
<1>3. ASSUME Writers!Fail(r) PROVE TablesInv'
  BY <1>1, <1>3, RunFacts, EndedKeeps DEF Writers!Fail
<1>4. CASE Writers!ExportDataset(r, c)
  <2>1. CASE c.rows = <<>>
    BY <1>1, <1>2, <1>4, <2>1, BeginKeeps DEF Writers!ExportDataset, KindAt
  <2>2. CASE c.rows # <<>> /\ Writers!Recreates(c)
    BY <1>1, <1>2, <1>4, <2>2, BeginKeeps DEF Writers!ExportDataset, KindAt
  <2>3. CASE c.rows # <<>> /\ ~Writers!Recreates(c)
    BY <1>1, <1>2, <1>4, <2>3, BeginKeeps DEF Writers!ExportDataset, KindAt
  <2> QED
    BY <2>1, <2>2, <2>3
<1>5. CASE Writers!SaveTable(r, c)
  <2>1. CASE c.rows = <<>>
    BY <1>1, <1>2, <1>5, <2>1, BeginKeeps DEF Writers!SaveTable, KindAt
  <2>2. CASE c.rows # <<>>
    BY <1>1, <1>2, <1>5, <2>2, BeginKeeps DEF Writers!SaveTable, KindAt, Writers!Recreates
  <2> QED
    BY <2>1, <2>2
<1>6. CASE Writers!DropTable(r, c)
  BY <1>1, <1>2, <1>6, BeginKeeps DEF Writers!DropTable, KindAt
<1>7. CASE Writers!CleanTable(r, c)
  BY <1>1, <1>2, <1>7, BeginKeeps DEF Writers!CleanTable, KindAt
<1>8. CASE Writers!DropDataset(r, c)
  BY <1>1, <1>2, <1>3, <1>8, BeginKeeps DEF Writers!DropDataset, KindAt
<1>9. CASE Writers!CleanDataset(r, c)
  BY <1>1, <1>2, <1>3, <1>9, BeginKeeps DEF Writers!CleanDataset, KindAt
<1> QED
  BY <1>4, <1>5, <1>6, <1>7, <1>8, <1>9 DEF Writers!StartCommand

\* A command goes on without touching the table.
LEMMA MoveKeeps ==
    ASSUME TablesInv, NEW r \in Runs, NEW x \in Run,
           runs' = [runs EXCEPT ![r] = x], UNCHANGED <<tables, datasets, breaks>>,
           x.command = runs[r].command, x.table = runs[r].table, x.found = runs[r].found,
           x.erased = runs[r].erased, x.nth = runs[r].nth, x.left = runs[r].left,
           x.before = runs[r].before, x.disturbed = runs[r].disturbed,
           KindAt(x.step, x.command), x.step = "write" => x.dataset \in Datasets,
           \/ runs[r].step = "drop" /\ x.step = "dropping"
           \/ /\ runs[r].step \in {"register", "write", "unregister", "log"}
              /\ x.step \in {"write", "log"}
    PROVE  TablesInv'
<1>1. /\ Stands(r, runs[r], tables[runs[r].table].rows) /\ runs[r].erased = {}
      /\ runs[r].nth \in Nat
  BY RunFacts DEF Run
<1>2. Stands(r, x, tables[x.table].rows)
  BY <1>1 DEF Stands, Undisturbed
<1>3. LastWriter(runs[r]) <= LastWriter(x)
  BY <1>1 DEF LastWriter
<1> QED
  BY <1>1, <1>2, <1>3, RunFacts, QuietKeeps

LEMMA SendDropKeeps ==
    ASSUME TablesInv, NEW r \in Runs, Writers!SendDrop(r)
    PROVE  TablesInv'
<1> DEFINE x == [runs[r] EXCEPT !.step = "dropping"]
<1>1. runs[r] \in Run /\ KindAt("drop", runs[r].command) /\ runs[r].step = "drop"
  BY RunFacts DEF Writers!SendDrop, Stands
<1>2. /\ x \in Run /\ x.step = "dropping"
      /\ x.command = runs[r].command /\ x.table = runs[r].table /\ x.found = runs[r].found
      /\ x.erased = runs[r].erased /\ x.nth = runs[r].nth /\ x.left = runs[r].left
      /\ x.before = runs[r].before /\ x.disturbed = runs[r].disturbed
  BY <1>1 DEF Run, Writers!Places
<1>3. runs' = [runs EXCEPT ![r] = x] /\ UNCHANGED <<tables, datasets, breaks>>
  BY RunFacts DEF Writers!SendDrop, Writers!Go
<1>4. KindAt(x.step, x.command)
  BY <1>1, <1>2 DEF KindAt
<1> HIDE DEF x
<1> QED
  BY <1>1, <1>2, <1>3, <1>4, MoveKeeps

LEMMA RegisterKeeps ==
    ASSUME TablesInv, NEW r \in Runs, Writers!Register(r)
    PROVE  TablesInv'
<1>1. /\ runs[r] \in Run /\ runs[r].step = "register" /\ runs[r].command \in Commands
      /\ KindAt("register", runs[r].command)
  BY RunFacts DEF Writers!Register, Stands
<1>2. PICK d \in Datasets, step \in {"write", "log"} :
         runs' = [runs EXCEPT ![r].step = step, ![r].dataset = d]
  <2>1. runs[r].command.dataset # New => runs[r].command.dataset \in Datasets
    BY <1>1, CommandType DEF KindAt
  <2> QED
    BY <2>1 DEF Writers!Register
<1> DEFINE x == [runs[r] EXCEPT !.step = step, !.dataset = d]
<1>3. /\ x \in Run /\ x.step = step /\ x.dataset = d
      /\ x.command = runs[r].command /\ x.table = runs[r].table /\ x.found = runs[r].found
      /\ x.erased = runs[r].erased /\ x.nth = runs[r].nth /\ x.left = runs[r].left
      /\ x.before = runs[r].before /\ x.disturbed = runs[r].disturbed
  BY <1>1 DEF Run, Writers!Places
<1>4. runs' = [runs EXCEPT ![r] = x] /\ UNCHANGED <<tables, datasets, breaks>>
  BY <1>2, RunFacts DEF Writers!Register
<1>5. KindAt(x.step, x.command)
  BY <1>1, <1>3 DEF KindAt
<1> HIDE DEF x
<1> QED
  BY <1>1, <1>3, <1>4, <1>5, MoveKeeps

\* The run's changes of datasets, from here to the end of the run.
LEMMA ViewKeeps ==
    ASSUME TablesInv, NEW r \in Runs, NEW v \in Views, runs[r].step \in {"write", "unregister"},
           runs' = [runs EXCEPT ![r].step = "log", ![r].view = v], UNCHANGED <<tables, datasets, breaks>>
    PROVE  TablesInv'
<1> DEFINE x == [runs[r] EXCEPT !.step = "log", !.view = v]
<1>1. runs[r] \in Run
  BY RunFacts
<1>2. /\ x \in Run /\ x.step = "log"
      /\ x.command = runs[r].command /\ x.table = runs[r].table /\ x.found = runs[r].found
      /\ x.erased = runs[r].erased /\ x.nth = runs[r].nth /\ x.left = runs[r].left
      /\ x.before = runs[r].before /\ x.disturbed = runs[r].disturbed
  BY <1>1 DEF Run, Writers!Places
<1>3. runs' = [runs EXCEPT ![r] = x]
  BY RunFacts
<1>4. KindAt(x.step, x.command)
  BY <1>2 DEF KindAt
<1> HIDE DEF x
<1> QED
  BY <1>2, <1>3, <1>4, MoveKeeps

\* The run's session is given up.
LEMMA AbortKeeps ==
    ASSUME TablesInv, NEW r \in Runs, runs[r].left > 0, Writers!Abort(r), UNCHANGED breaks
    PROVE  TablesInv'
<1> DEFINE y == Writers!Ended(r)
           x == [y EXCEPT !.step = "over", !.view = <<>>]
<1>1. /\ y \in Run /\ y.step = "idle" /\ y.found = {} /\ y.erased = {} /\ y.before = {}
      /\ y.nth = runs[r].nth + 1 /\ y.left = runs[r].left - 1
  BY EndedType
<1>2. runs' = [runs EXCEPT ![r] = x] /\ UNCHANGED <<tables, datasets>>
  BY DEF Writers!Abort
<1> HIDE DEF y
<1>3. /\ x \in Run /\ x.step = "over" /\ x.found = {} /\ x.erased = {} /\ x.before = {}
      /\ x.nth = runs[r].nth + 1 /\ x.left = runs[r].left - 1
  BY <1>1, EmptyView DEF Run, Writers!Places
<1> HIDE DEF x
<1>4. /\ runs[r].nth + runs[r].left <= MaxCommands
      /\ runs[r].nth \in Nat /\ runs[r].left \in Nat
  BY RunFacts DEF Stands, Run
<1>5. x.nth + x.left <= MaxCommands /\ LastWriter(runs[r]) <= LastWriter(x)
  BY <1>3, <1>4, TablesConstants DEF LastWriter
<1>6. Stands(r, x, tables[x.table].rows)
  BY <1>3, <1>5 DEF Stands, Undisturbed
<1> QED
  BY <1>2, <1>3, <1>5, <1>6, RunFacts, QuietKeeps

LEMMA WriteDatasetKeeps ==
    ASSUME TablesInv, NEW r \in Runs, Writers!WriteDataset(r)
    PROVE  TablesInv'
<1>1. /\ runs[r] \in Run /\ runs[r].step = "write" /\ runs[r].left > 0
      /\ runs[r].dataset \in Datasets /\ runs[r].table \in Tables /\ runs[r].view \in Views
  BY RunFacts DEF Writers!WriteDataset, Stands, Run
<1>2. CASE Writers!Abort(r)
  BY <1>1, <1>2, AbortKeeps DEF Writers!WriteDataset
<1> DEFINE v == [y \in DOMAIN runs[r].view \cup {runs[r].dataset} |->
                    IF y = runs[r].dataset THEN runs[r].table ELSE runs[r].view[y]]
<1>3. CASE runs' = [runs EXCEPT ![r].step = "log", ![r].view = v] /\ UNCHANGED <<tables, datasets>>
  <2>1. v \in Views
    BY <1>1, ViewGrows
  <2> QED
    BY <1>1, <1>3, <2>1, ViewKeeps DEF Writers!WriteDataset
<1>4. CASE runs' = Writers!Go(r, "log") /\ UNCHANGED <<tables, datasets>>
  <2>1. runs' = [runs EXCEPT ![r].step = "log", ![r].view = runs[r].view]
    BY <1>1, <1>4, RunFacts DEF Writers!Go, Run
  <2> QED
    BY <1>1, <1>4, <2>1, ViewKeeps DEF Writers!WriteDataset
<1> QED
  BY <1>2, <1>3, <1>4 DEF Writers!WriteDataset

LEMMA UnregisterKeeps ==
    ASSUME TablesInv, NEW r \in Runs, Writers!Unregister(r)
    PROVE  TablesInv'
<1> DEFINE d == runs[r].command.dataset
           v == [y \in DOMAIN runs[r].view \cup {d} |-> IF y = d THEN None ELSE runs[r].view[y]]
<1>1. /\ runs[r] \in Run /\ runs[r].step = "unregister" /\ runs[r].command \in Commands
      /\ KindAt("unregister", runs[r].command) /\ runs[r].view \in Views
  BY RunFacts DEF Writers!Unregister, Stands, Run
<1>2. d \in Datasets
  BY <1>1, CommandType DEF KindAt
<1>3. v \in Views
  BY <1>1, <1>2, ViewGrows
<1>4. runs' = [runs EXCEPT ![r].step = "log", ![r].view = v] /\ UNCHANGED <<tables, datasets, breaks>>
  BY <1>1, RunFacts DEF Writers!Unregister, Run
<1> QED
  BY <1>1, <1>3, <1>4, ViewKeeps

LEMMA EndRunKeeps ==
    ASSUME TablesInv, NEW r \in Runs, Writers!EndRun(r)
    PROVE  TablesInv'
<1> DEFINE x == [runs[r] EXCEPT !.step = "over", !.view = <<>>]
<1>1. /\ runs[r] \in Run /\ runs[r].step = "idle" /\ runs[r].erased = {} /\ runs[r].nth \in Nat
      /\ Stands(r, runs[r], tables[runs[r].table].rows)
  BY RunFacts DEF Writers!EndRun, Run
<1>2. /\ x \in Run /\ x.step = "over" /\ x.found = runs[r].found /\ x.erased = {}
      /\ x.nth = runs[r].nth /\ x.left = runs[r].left /\ x.before = runs[r].before
  BY <1>1, EmptyView DEF Run, Writers!Places
<1>3. runs' = [runs EXCEPT ![r] = x] /\ UNCHANGED <<tables, breaks>>
  BY RunFacts DEF Writers!EndRun
<1> HIDE DEF x
<1>4. datasets' \in [Datasets -> Tables \cup {None}]
  BY SeenType, RunFacts DEF Writers!EndRun
<1>5. Stands(r, x, tables[x.table].rows) /\ LastWriter(runs[r]) <= LastWriter(x)
  BY <1>1, <1>2 DEF Stands, Undisturbed, LastWriter
<1> QED
  BY <1>2, <1>3, <1>4, <1>5, RunFacts, QuietKeeps

\* What is deleted and not committed, and what stands for it.
LEMMA DeletedFacts ==
    ASSUME TablesInv, NEW q \in Runs
    PROVE  /\ \A row \in runs[q].erased : /\ row \in tables[runs[q].table].rows
                                          /\ row \in runs[q].found
                                          /\ runs[q].table \in Tables
                                          /\ Writers!Holds(q, runs[q].table)
           /\ runs[q].step = "commit" =>
                  \A row \in runs[q].erased, new \in RecordsOf(q, runs[q].nth, runs[q].command) :
                      new.key = row.key => new \in tables[runs[q].table].rows
<1>1. Stands(q, runs[q], tables[runs[q].table].rows)
  BY RunFacts
<1>2. /\ runs[q].erased # {} => runs[q].erased \subseteq tables[runs[q].table].rows
      /\ Replaced(q, runs[q])
  BY DEF TablesInv, DeletedOnce, NewRowsStay
<1> QED
  BY <1>1, <1>2 DEF Stands, Writers!Holds, Replaced

\* A DELETE begins.
LEMMA LookKeeps ==
    ASSUME TablesInv, NEW r \in Runs, Writers!Look(r)
    PROVE  TablesInv'
<1> DEFINE t == runs[r].table
           c == runs[r].command
           f == ToDelete(c, tables[t].rows)
           x == [runs[r] EXCEPT !.step = "erase", !.found = f]
<1>1. /\ runs[r] \in Run /\ runs[r].step = "look" /\ runs[r].erased = {} /\ t \in Tables
      /\ c \in Commands /\ runs[r].left > 0 /\ runs[r].nth \in Nat
      /\ Stands(r, runs[r], tables[t].rows) /\ KindAt("look", c)
  BY RunFacts DEF Writers!Look, Stands, Run
<1>2. CASE ~tables[t].there
  BY <1>1, <1>2, RunFacts, EndedKeeps DEF Writers!Look, Writers!Fail
<1>3. CASE tables[t].there
  <2>1. /\ tables \in [Tables -> Table] /\ \A u \in Tables : ~tables[u].there => tables[u].rows = {}
        /\ runs \in [Runs -> Run]
    BY DEF TablesInv
  <2>2. f \subseteq tables[t].rows /\ f \subseteq Writers!Row
    BY <1>1, <2>1 DEF ToDelete, Table
  <2>3. runs' = [runs EXCEPT ![r] = x] /\ UNCHANGED <<tables, datasets, breaks>>
    BY <1>3, <2>1, MatchingIs DEF Writers!Look
  <2>4. /\ x \in Run /\ x.step = "erase" /\ x.found = f
        /\ x.command = c /\ x.table = t /\ x.erased = {} /\ x.nth = runs[r].nth
        /\ x.left = runs[r].left /\ x.before = runs[r].before /\ x.disturbed = runs[r].disturbed
    BY <1>1, <2>2 DEF Run, Writers!Places
  <2>5. /\ Writers!Replaces(c) => \A row \in f : Names(c, row.key)
        /\ tables[t].rows = runs[r].before => f = ToDelete(c, runs[r].before)
    BY DEF ToDelete
  <2>6. \A row \in f : row.by = r => row.nth <= runs[r].nth
    BY <1>1, <2>2 DEF TablesInv, RowsAreOld, LastWriter
  <2>7. ASSUME NEW q \in Runs \ {r}, runs[q].step = "commit", runs[q].table = t,
               NEW row \in runs[q].erased, NEW new \in f, new.key = row.key
        PROVE  row \in f
    <3>1. row \in tables[t].rows
      BY <2>7, DeletedFacts
    <3> QED
      BY <2>7, <3>1 DEF ToDelete
  <2> HIDE DEF x, f
  <2>8. Stands(r, x, tables[t].rows)
    BY <1>1, <2>4, <2>5, <2>6 DEF Stands, Undisturbed, KindAt
  <2>9. LastWriter(runs[r]) <= LastWriter(x)
    BY <1>1, <2>4 DEF LastWriter
  <2>10. runs' \in [Runs -> Run] /\ runs'[r] = x /\ \A q \in Runs \ {r} : runs'[q] = runs[q]
    BY <2>1, <2>3, <2>4
  <2>11. \A q \in Runs \ {r} : Same(runs[q], runs'[q])
    BY <2>1, <2>10 DEF Same
  <2> QED
    BY <1>1, <2>1, <2>2, <2>3, <2>4, <2>7, <2>8, <2>9, <2>10, <2>11, RunFacts, DeletedFacts, StepKeeps
<1> QED
  BY <1>2, <1>3

\* The DELETE of an insert-update, which stays open.
LEMMA EraseOpenKeeps ==
    ASSUME TablesInv, NEW r \in Runs, Writers!Erase(r), Writers!Replaces(runs[r].command)
    PROVE  TablesInv'
<1> DEFINE t == runs[r].table
           c == runs[r].command
           e == runs[r].found \cap tables[t].rows
           x == [runs[r] EXCEPT !.step = "insert", !.erased = e]
<1>1. /\ runs[r] \in Run /\ runs[r].step = "erase" /\ t \in Tables
      /\ c \in Commands /\ runs[r].left > 0 /\ runs[r].nth \in Nat
      /\ Stands(r, runs[r], tables[t].rows) /\ KindAt("erase", c)
  BY RunFacts DEF Writers!Erase, Stands, Run
<1>2. /\ tables \in [Tables -> Table] /\ \A u \in Tables : ~tables[u].there => tables[u].rows = {}
      /\ runs \in [Runs -> Run]
  BY DEF TablesInv
<1>3. /\ runs' = [runs EXCEPT ![r] = x] /\ UNCHANGED <<tables, datasets, breaks>>
      /\ \A q \in Runs \ {r} : runs[q].erased \cap runs[r].found = {}
  BY <1>2 DEF Writers!Erase
<1>4. /\ x \in Run /\ x.step = "insert" /\ x.found = runs[r].found
      /\ x.command = c /\ x.table = t /\ x.erased = e /\ x.nth = runs[r].nth
      /\ x.left = runs[r].left /\ x.before = runs[r].before /\ x.disturbed = runs[r].disturbed
  BY <1>1 DEF Run, Writers!Places
<1>5. ~Writers!Recreates(c) /\ c.kind = "export" /\ (c.kind \notin {"cleanTable", "cleanDataset"})
  BY DEF Writers!Recreates, Writers!Replaces
<1>6. runs[r].found = ToDelete(c, runs[r].before) /\ tables[t].rows = runs[r].before =>
          e = ToDelete(c, runs[r].before)
  BY DEF ToDelete
<1>7. e \subseteq runs[r].found /\ e \subseteq tables[t].rows
  OBVIOUS
<1>8. ASSUME NEW q \in Runs \ {r}, runs[q].step = "commit", runs[q].table = t,
             NEW row \in runs[q].erased,
             NEW new \in RecordsOf(q, runs[q].nth, runs[q].command), new.key = row.key
      PROVE  new \notin e
  <2>1. new \in runs[r].found => row \in runs[r].found
    BY <1>1, <1>8 DEF TablesInv, NewRowsStay, Replaced
  <2> QED
    BY <1>3, <1>7, <2>1
<1> HIDE DEF x, e
<1>9. Stands(r, x, tables[t].rows)
  BY <1>1, <1>4, <1>5, <1>6, <1>7 DEF Stands, Undisturbed, KindAt
<1>10. LastWriter(runs[r]) <= LastWriter(x)
  BY <1>1, <1>4 DEF LastWriter
<1>11. runs' \in [Runs -> Run] /\ runs'[r] = x /\ \A q \in Runs \ {r} : runs'[q] = runs[q]
  BY <1>2, <1>3, <1>4
<1>12. \A q \in Runs \ {r} : Same(runs[q], runs'[q]) /\ runs[q].erased \cap x.erased = {}
  BY <1>2, <1>3, <1>4, <1>7, <1>11 DEF Same
<1> QED
  BY <1>1, <1>2, <1>3, <1>4, <1>7, <1>8, <1>9, <1>10, <1>11, <1>12, RunFacts, DeletedFacts, StepKeeps

\* A step that writes table t, as others see it.
LEMMA WriteEffect ==
    ASSUME TablesInv, NEW r \in Runs, NEW t \in Tables, NEW new \in Table, NEW x \in Run,
           Writers!Write(r, t, new, x), ~new.there => new.rows = {}
    PROVE  /\ tables' \in [Tables -> Table] /\ \A u \in Tables : ~tables'[u].there => tables'[u].rows = {}
           /\ datasets' \in [Datasets -> Tables \cup {None}] /\ breaks' \in 0 .. MaxFaults
           /\ tables'[t] = new /\ \A u \in Tables \ {t} : tables'[u] = tables[u]
           /\ runs' \in [Runs -> Run] /\ runs'[r] = x
           /\ \A q \in Runs \ {r} :
                 /\ Same(runs[q], runs'[q])
                 /\ \/ runs[q].step \in {"idle", "over"} \/ runs'[q].disturbed
                    \/ tables'[runs[q].table].rows = tables[runs[q].table].rows
<1>1. /\ tables \in [Tables -> Table] /\ \A u \in Tables : ~tables[u].there => tables[u].rows = {}
      /\ runs \in [Runs -> Run]
  BY DEF TablesInv
<1>2. /\ tables' = [tables EXCEPT ![t] = new] /\ UNCHANGED <<datasets, breaks>>
      /\ runs' = [q \in Runs |->
             IF q = r THEN x
             ELSE IF runs[q].table = t /\ new # tables[t] THEN [runs[q] EXCEPT !.disturbed = TRUE]
             ELSE runs[q]]
  BY DEF Writers!Write
<1>3. ASSUME NEW q \in Runs \ {r}
      PROVE  /\ runs'[q] \in Run /\ Same(runs[q], runs'[q])
             /\ runs[q].table = t /\ new # tables[t] => runs'[q].disturbed
  <2>1. runs[q] \in Run
    BY <1>1
  <2>2. CASE runs[q].table = t /\ new # tables[t]
    <3>1. runs'[q] = [runs[q] EXCEPT !.disturbed = TRUE]
      BY <1>2, <2>2
    <3> QED
      BY <2>1, <3>1 DEF Same, Run
  <2>3. CASE ~(runs[q].table = t /\ new # tables[t])
    <3>1. runs'[q] = runs[q]
      BY <1>2, <2>3
    <3> QED
      BY <2>1, <2>3, <3>1 DEF Same
  <2> QED
    BY <2>2, <2>3
<1>4. /\ tables' \in [Tables -> Table] /\ tables'[t] = new
      /\ \A u \in Tables \ {t} : tables'[u] = tables[u]
  BY <1>1, <1>2
<1>5. ASSUME NEW q \in Runs \ {r}, runs[q].step \notin {"idle", "over"}, ~runs'[q].disturbed
      PROVE  tables'[runs[q].table].rows = tables[runs[q].table].rows
  <2>1. runs[q].table \in Tables
    BY <1>5, RunFacts DEF Stands
  <2> QED
    BY <1>3, <1>4, <1>5, <2>1
<1>6. runs' \in [Runs -> Run] /\ runs'[r] = x
  BY <1>2, <1>3
<1> QED
  BY <1>1, <1>2, <1>3, <1>4, <1>5, <1>6, RunFacts

\* A step that writes its command's table and deletes nothing that is still to
\* be committed.
LEMMA WriteKeeps ==
    ASSUME TablesInv, NEW r \in Runs, NEW t \in Tables, NEW content \in Table, NEW x \in Run,
           Writers!Write(r, t, content, x), ~content.there => content.rows = {},
           x.table = t, runs[r].table = t,
           Stands(r, x, content.rows), LastWriter(runs[r]) <= LastWriter(x),
           \A row \in content.rows :
               row \in tables[t].rows \/ (row.by = r /\ row.nth <= LastWriter(x)),
           x.found \subseteq runs[r].found, x.erased \subseteq runs[r].erased,
           x.erased \subseteq content.rows, x.step # "erase",
           \A q \in Runs \ {r} : runs[q].table = t =>
               /\ \A row \in runs[q].erased : row \in content.rows
               /\ runs[q].step = "commit" =>
                      \A row \in runs[q].erased, new \in RecordsOf(q, runs[q].nth, runs[q].command) :
                          new.key = row.key => new \in content.rows,
           x.step = "commit" =>
               \A row \in x.erased, new \in RecordsOf(r, x.nth, x.command) :
                   new.key = row.key =>
                       /\ new \in content.rows
                       /\ \A q \in Runs \ {r} : runs[q].table = t =>
                              /\ new \notin runs[q].erased
                              /\ runs[q].step = "erase" /\ new \in runs[q].found => row \in runs[q].found
    PROVE  TablesInv'
<1>1. /\ tables' \in [Tables -> Table] /\ \A u \in Tables : ~tables'[u].there => tables'[u].rows = {}
      /\ datasets' \in [Datasets -> Tables \cup {None}] /\ breaks' \in 0 .. MaxFaults
      /\ tables'[t] = content /\ \A u \in Tables \ {t} : tables'[u] = tables[u]
      /\ runs' \in [Runs -> Run] /\ runs'[r] = x
      /\ \A q \in Runs \ {r} :
            /\ Same(runs[q], runs'[q])
            /\ \/ runs[q].step \in {"idle", "over"} \/ runs'[q].disturbed
               \/ tables'[runs[q].table].rows = tables[runs[q].table].rows
  BY WriteEffect
<1>2. \A u \in Tables : \A row \in tables'[u].rows :
         row \in tables[u].rows \/ (row.by = r /\ row.nth <= LastWriter(x))
  BY <1>1
<1>3. ASSUME NEW q \in Runs \ {r}, NEW row \in runs[q].erased
      PROVE  row \in tables'[runs[q].table].rows
  <2>1. CASE runs[q].table = t
    BY <1>1, <2>1
  <2>2. CASE runs[q].table # t
    BY <1>1, <2>2, DeletedFacts
  <2> QED
    BY <2>1, <2>2
<1>4. ASSUME NEW q \in Runs \ {r}, runs[q].step = "commit", NEW row \in runs[q].erased,
             NEW new \in RecordsOf(q, runs[q].nth, runs[q].command), new.key = row.key
      PROVE  /\ new \in tables'[runs[q].table].rows
             /\ x.table = runs[q].table => new \notin x.erased
  <2>1. CASE runs[q].table = t
    <3>1. new \notin runs[r].erased
      BY <1>4, <2>1 DEF TablesInv, NewRowsStay, Replaced
    <3> QED
      BY <1>1, <1>4, <2>1, <3>1
  <2>2. CASE runs[q].table # t
    BY <1>1, <1>4, <2>2, DeletedFacts
  <2> QED
    BY <2>1, <2>2
<1>5. \A q \in Runs \ {r} : runs[q].erased \cap x.erased = {}
  BY DEF TablesInv, DeletedOnce
<1> QED
  BY <1>1, <1>2, <1>3, <1>4, <1>5, StepKeeps

LEMMA DropKeeps ==
    ASSUME TablesInv, NEW r \in Runs, Writers!Drop(r)
    PROVE  TablesInv'
<1> DEFINE t == runs[r].table
           c == runs[r].command
           step == CASE c.kind = "export" -> "ensure" [] c.kind = "dropDataset" -> "unregister"
                     [] OTHER -> "log"
           x == [runs[r] EXCEPT !.step = step]
<1>1. /\ runs[r] \in Run /\ runs[r].step = "dropping" /\ runs[r].erased = {} /\ t \in Tables
      /\ c \in Commands /\ runs[r].left > 0 /\ runs[r].nth \in Nat
      /\ Stands(r, runs[r], tables[t].rows) /\ KindAt("dropping", c)
  BY RunFacts DEF Writers!Drop, Stands, Run
<1>2. /\ Writers!Write(r, t, Writers!Absent, x) /\ \A q \in Runs : ~Writers!Holds(q, t)
  BY DEF Writers!Drop
<1>3. /\ c.kind = "export" => step = "ensure" /\ Writers!Recreates(c) /\ c.rows # <<>>
      /\ c.kind = "dropDataset" => step = "unregister"
      /\ c.kind # "export" /\ c.kind # "dropDataset" => step = "log" /\ c.kind = "dropTable"
  BY <1>1 DEF KindAt, Writers!Recreates
<1>4. step \in {"ensure", "unregister", "log"} /\ KindAt(step, c)
  BY <1>3 DEF KindAt
<1> HIDE DEF step
<1>5. /\ x \in Run /\ x.step = step /\ x.found = runs[r].found
      /\ x.command = c /\ x.table = t /\ x.erased = {} /\ x.nth = runs[r].nth
      /\ x.left = runs[r].left /\ x.before = runs[r].before /\ x.disturbed = runs[r].disturbed
  BY <1>1, <1>4 DEF Run, Writers!Places
<1> HIDE DEF x
<1>6. Stands(r, x, {})
  BY <1>1, <1>3, <1>4, <1>5 DEF Stands, Undisturbed, MeantOf
<1>7. LastWriter(runs[r]) <= LastWriter(x)
  BY <1>1, <1>5 DEF LastWriter
<1>8. \A q \in Runs : runs[q].table = t => runs[q].erased = {}
  BY <1>2, DeletedFacts
<1>9. Writers!Absent \in Table /\ Writers!Absent.rows = {}
  BY DEF Writers!Absent, Table
<1> QED
  BY <1>1, <1>2, <1>4, <1>5, <1>6, <1>7, <1>8, <1>9, WriteKeeps

LEMMA EnsureTableKeeps ==
    ASSUME TablesInv, NEW r \in Runs, Writers!EnsureTable(r)
    PROVE  TablesInv'
<1> DEFINE t == runs[r].table
           c == runs[r].command
           content == IF tables[t].there THEN tables[t] ELSE Writers!Created
           step == IF Writers!Replaces(c) THEN "look"
                   ELSE IF Writers!Recreates(c) /\ runs[r].step = "ensure" THEN "recreate"
                   ELSE "insert"
           x == [runs[r] EXCEPT !.step = step]
<1>1. /\ runs[r] \in Run /\ runs[r].step \in {"ensure", "recreate"} /\ runs[r].erased = {}
      /\ t \in Tables /\ c \in Commands /\ runs[r].left > 0 /\ runs[r].nth \in Nat
      /\ Stands(r, runs[r], tables[t].rows) /\ KindAt(runs[r].step, c)
  BY RunFacts DEF Writers!EnsureTable, Stands, Run
<1>2. Writers!Write(r, t, content, x)
  BY DEF Writers!EnsureTable
<1>3. /\ content \in Table /\ content.rows = tables[t].rows /\ (~content.there => content.rows = {})
  BY <1>1 DEF TablesInv, Table, Writers!Created
<1>4. /\ step \in {"look", "recreate", "insert"} /\ KindAt(step, c)
      /\ step = "look" => Writers!Replaces(c) /\ ~Writers!Recreates(c)
      /\ step = "recreate" => Writers!Recreates(c)
      /\ step = "insert" => ~Writers!Replaces(c)
  BY <1>1 DEF KindAt, Writers!Replaces, Writers!Recreates
<1> HIDE DEF step, content
<1>5. /\ x \in Run /\ x.step = step /\ x.found = runs[r].found
      /\ x.command = c /\ x.table = t /\ x.erased = {} /\ x.nth = runs[r].nth
      /\ x.left = runs[r].left /\ x.before = runs[r].before /\ x.disturbed = runs[r].disturbed
  BY <1>1, <1>4 DEF Run, Writers!Places
<1> HIDE DEF x
<1>6. Stands(r, x, content.rows)
  BY <1>1, <1>3, <1>4, <1>5 DEF Stands, Undisturbed, KindAt
<1>7. LastWriter(runs[r]) <= LastWriter(x)
  <2>1. LastWriter(runs[r]) = runs[r].nth
    BY <1>1 DEF LastWriter
  <2>2. x.step \in {"look", "recreate", "insert"} /\ x.nth = runs[r].nth
    BY <1>4, <1>5
  <2>3. LastWriter(x) = runs[r].nth
    BY <2>2 DEF LastWriter
  <2> QED
    BY <1>1, <2>1, <2>3
<1>8. \A q \in Runs \ {r} : runs[q].table = t =>
         /\ \A row \in runs[q].erased : row \in content.rows
         /\ runs[q].step = "commit" =>
                \A row \in runs[q].erased, new \in RecordsOf(q, runs[q].nth, runs[q].command) :
                    new.key = row.key => new \in content.rows
  BY <1>3, DeletedFacts
<1>9. x.step # "erase" /\ x.step # "commit"
  BY <1>4, <1>5
<1> QED
  BY <1>1, <1>2, <1>3, <1>5, <1>6, <1>7, <1>8, <1>9, WriteKeeps

\* The DELETE of a command that cleans, which is committed.
LEMMA EraseKeeps ==
    ASSUME TablesInv, NEW r \in Runs, Writers!Erase(r)
    PROVE  TablesInv'
<1>1. CASE Writers!Replaces(runs[r].command)
  BY <1>1, EraseOpenKeeps
<1>2. CASE ~Writers!Replaces(runs[r].command)
  <2> DEFINE t == runs[r].table
             c == runs[r].command
             left == tables[t].rows \ runs[r].found
             content == [tables[t] EXCEPT !.rows = left]
             x == [runs[r] EXCEPT !.step = "log"]
  <2>1. /\ runs[r] \in Run /\ runs[r].step = "erase" /\ t \in Tables /\ runs[r].erased = {}
        /\ c \in Commands /\ runs[r].left > 0 /\ runs[r].nth \in Nat
        /\ Stands(r, runs[r], tables[t].rows) /\ KindAt("erase", c)
    BY RunFacts DEF Writers!Erase, Stands, Run
  <2>2. tables[t] \in Table /\ (~tables[t].there => tables[t].rows = {})
    BY <2>1 DEF TablesInv
  <2>3. /\ Writers!Write(r, t, content, x)
        /\ \A q \in Runs \ {r} : runs[q].erased \cap runs[r].found = {}
    BY <1>2 DEF Writers!Erase
  <2>4. /\ content \in Table /\ content.rows = left /\ (~content.there => content.rows = {})
    BY <2>2 DEF Table
  <2>5. c.kind \in {"cleanTable", "cleanDataset"} /\ KindAt("log", c)
    BY <1>2, <2>1 DEF KindAt
  <2>6. /\ x \in Run /\ x.step = "log" /\ x.found = runs[r].found
        /\ x.command = c /\ x.table = t /\ x.erased = {} /\ x.nth = runs[r].nth
        /\ x.left = runs[r].left /\ x.before = runs[r].before /\ x.disturbed = runs[r].disturbed
    BY <2>1 DEF Run, Writers!Places
  <2>7. ASSUME NEW q \in Runs \ {r}, runs[q].table = t
        PROVE  /\ \A row \in runs[q].erased : row \in left
               /\ runs[q].step = "commit" =>
                      \A row \in runs[q].erased, new \in RecordsOf(q, runs[q].nth, runs[q].command) :
                          new.key = row.key => new \in left
    <3>1. \A row \in runs[q].erased : row \in tables[t].rows /\ row \notin runs[r].found
      BY <2>3, <2>7, DeletedFacts
    <3>2. ASSUME runs[q].step = "commit", NEW row \in runs[q].erased,
                 NEW new \in RecordsOf(q, runs[q].nth, runs[q].command), new.key = row.key
          PROVE  new \in tables[t].rows /\ new \notin runs[r].found
      BY <2>1, <2>7, <3>1, <3>2 DEF TablesInv, NewRowsStay, Replaced
    <3> QED
      BY <3>1, <3>2
  <2>8. ~runs[r].disturbed => left = {}
    BY <1>2, <2>1 DEF Stands, Undisturbed, ToDelete
  <2> HIDE DEF x, content, left
  <2>9. Stands(r, x, left)
    BY <2>1, <2>5, <2>6, <2>8 DEF Stands, Undisturbed, MeantOf
  <2>10. LastWriter(runs[r]) <= LastWriter(x)
    BY <2>1, <2>6 DEF LastWriter
  <2>11. left \subseteq tables[t].rows
    BY DEF left
  <2> QED
    BY <2>1, <2>3, <2>4, <2>6, <2>7, <2>9, <2>10, <2>11, WriteKeeps
<1> QED
  BY <1>1, <1>2

\* A row that run r has yet to insert is in no table and seen by no DELETE.
LEMMA NewRowsAreNew ==
    ASSUME TablesInv, NEW r \in Runs, runs[r].step = "insert",
           NEW new \in RecordsOf(r, runs[r].nth, runs[r].command)
    PROVE  /\ \A t \in Tables : new \notin tables[t].rows
           /\ \A q \in Runs : new \notin runs[q].found /\ new \notin runs[q].erased
<1>1. new.by = r /\ new.nth = runs[r].nth + 1 /\ runs[r].nth \in Nat
      /\ LastWriter(runs[r]) = runs[r].nth
  BY RunFacts DEF RecordsOf, Run, LastWriter
<1>2. ~(new.nth <= LastWriter(runs[r]))
  BY <1>1
<1>3. /\ \A t \in Tables : new \notin tables[t].rows
      /\ \A q \in Runs : new \notin runs[q].found
  BY <1>1, <1>2 DEF TablesInv, RowsAreOld
<1> QED
  BY <1>3, DeletedFacts

LEMMA InsertKeeps ==
    ASSUME TablesInv, NEW r \in Runs, Writers!Insert(r)
    PROVE  TablesInv'
<1> DEFINE t == runs[r].table
           c == runs[r].command
           n == runs[r].nth
           all == tables[t].rows \cup RecordsOf(r, n, c)
           content == [tables[t] EXCEPT !.rows = all]
           step == CASE Writers!Replaces(c) -> "commit" [] c.kind = "save" -> "log"
                     [] OTHER -> "register"
           x == [runs[r] EXCEPT !.step = step]
<1>1. /\ runs[r] \in Run /\ runs[r].step = "insert" /\ t \in Tables
      /\ c \in Commands /\ runs[r].left > 0 /\ n \in Nat /\ runs[r].left \in Nat
      /\ n + runs[r].left <= MaxCommands
      /\ Stands(r, runs[r], tables[t].rows) /\ KindAt("insert", c)
  BY RunFacts DEF Writers!Insert, Stands, Run
<1>2. CASE Writers!Fail(r) /\ UNCHANGED breaks
  BY <1>1, <1>2, RunFacts, EndedKeeps DEF Writers!Fail
<1>3. CASE tables[t].there /\ Writers!Write(r, t, content, x)
  <2>1. tables[t] \in Table
    BY <1>1 DEF TablesInv
  <2>2. n + 1 <= MaxCommands
    BY <1>1, TablesConstants
  <2>3. /\ RecordsOf(r, n, c) \subseteq Writers!Row
        /\ \A row \in RecordsOf(r, n, c) : row.by = r /\ row.nth = n + 1
    BY <1>1, <2>2, RecordsType
  <2>4. all \subseteq Writers!Row
    BY <2>1, <2>3 DEF Table
  <2>5. content \in Table /\ content.rows = all /\ content.there
    BY <1>3, <2>1, <2>4 DEF Table
  <2>6. /\ Writers!Replaces(c) => step = "commit" /\ ~Writers!Recreates(c) /\ c.kind = "export"
        /\ ~Writers!Replaces(c) /\ c.kind = "save" => step = "log" /\ ~Writers!Recreates(c)
        /\ ~Writers!Replaces(c) /\ c.kind # "save" => step = "register" /\ c.kind = "export"
    BY <1>1 DEF KindAt, Writers!Replaces, Writers!Recreates
  <2>7. step \in {"commit", "log", "register"} /\ KindAt(step, c)
    BY <1>1, <2>6 DEF KindAt
  <2> HIDE DEF step
  <2>8. /\ x \in Run /\ x.step = step /\ x.found = runs[r].found
        /\ x.command = c /\ x.table = t /\ x.erased = runs[r].erased /\ x.nth = n
        /\ x.left = runs[r].left /\ x.before = runs[r].before /\ x.disturbed = runs[r].disturbed
    BY <1>1, <2>7 DEF Run, Writers!Places
  <2> HIDE DEF x, content
  <2>9. LastWriter(runs[r]) <= LastWriter(x) /\ LastWriter(x) = n + 1
    <3>1. LastWriter(runs[r]) = n /\ LastWriter(x) = n + 1
      BY <1>1, <2>7, <2>8 DEF LastWriter
    <3> QED
      BY <1>1, <3>1
  <2>10. ~x.disturbed => Undisturbed(r, x, all)
    <3> SUFFICES ASSUME ~x.disturbed PROVE Undisturbed(r, x, all)
      OBVIOUS
    <3>1. /\ tables[t].rows = (IF Writers!Recreates(c) THEN {} ELSE runs[r].before)
          /\ Writers!Replaces(c) => runs[r].erased = ToDelete(c, runs[r].before)
      BY <1>1, <2>8 DEF Stands, Undisturbed
    <3>2. CASE Writers!Replaces(c)
      BY <2>6, <2>8, <3>1, <3>2 DEF Undisturbed
    <3>3. CASE ~Writers!Replaces(c)
      <4>1. all = MeantOf(r, n, c, runs[r].before)
        BY <1>1, <3>1, <3>3 DEF MeantOf, KindAt, all
      <4>2. step \in {"log", "register"}
        BY <2>6, <2>7, <3>3
      <4> QED
        BY <2>8, <4>1, <4>2 DEF Undisturbed
    <3> QED
      BY <3>2, <3>3
  <2>11. Stands(r, x, all)
    <3>1. runs[r].erased # {} => step = "commit" /\ Writers!Replaces(c)
      BY <1>1, <2>6 DEF Stands
    <3>2. step # "idle" /\ step # "over" /\ step # "write" /\ step # "erase" /\ step # "insert"
      BY <2>7
    <3>3. Writers!Replaces(c) => \A row \in runs[r].found : Names(c, row.key)
      BY <1>1 DEF Stands
    <3>4. /\ runs[r].erased \subseteq runs[r].found
          /\ \A row \in runs[r].found \cup runs[r].before : row.by = r => row.nth <= n
      BY <1>1 DEF Stands
    <3> QED
      BY <1>1, <2>7, <2>8, <2>10, <3>1, <3>2, <3>3, <3>4 DEF Stands
  <2>12. ASSUME NEW row \in all
         PROVE  row \in tables[t].rows \/ (row.by = r /\ row.nth <= LastWriter(x))
    <3>1. row \in RecordsOf(r, n, c) => row.by = r /\ row.nth = n + 1 /\ n + 1 <= n + 1
      BY <1>1, <2>3
    <3> QED
      BY <2>9, <3>1
  <2>13. \A q \in Runs : runs[q].table = t =>
            /\ \A row \in runs[q].erased : row \in all
            /\ runs[q].step = "commit" =>
                   \A row \in runs[q].erased, new \in RecordsOf(q, runs[q].nth, runs[q].command) :
                       new.key = row.key => new \in all
    BY DeletedFacts
  <2>14. \A row \in x.erased, new \in RecordsOf(r, x.nth, x.command) :
            /\ new \in all
            /\ \A q \in Runs : new \notin runs[q].erased /\ new \notin runs[q].found
    BY <1>1, <2>8, NewRowsAreNew
  <2>15. x.erased \subseteq all /\ x.step # "erase"
    BY <2>7, <2>8, <2>13
  <2> HIDE DEF all
  <2> QED
    BY <1>1, <1>3, <2>5, <2>8, <2>9, <2>11, <2>12, <2>13, <2>14, <2>15, WriteKeeps
<1>4. Writers!Records(r, c) = RecordsOf(r, n, c)
  BY RecordsAre
<1> QED
  BY <1>2, <1>3, <1>4 DEF Writers!Insert

\* The end of the transaction of the DELETEs.
LEMMA CommitEraseKeeps ==
    ASSUME TablesInv, NEW r \in Runs, Writers!CommitErase(r)
    PROVE  TablesInv'
<1> DEFINE t == runs[r].table
           c == runs[r].command
           n == runs[r].nth
           left == tables[t].rows \ runs[r].erased
           content == [tables[t] EXCEPT !.rows = left]
           x == [runs[r] EXCEPT !.step = "register", !.erased = {}]
<1>1. /\ runs[r] \in Run /\ runs[r].step = "commit" /\ t \in Tables
      /\ c \in Commands /\ runs[r].left > 0 /\ n \in Nat
      /\ Stands(r, runs[r], tables[t].rows) /\ KindAt("commit", c)
  BY RunFacts DEF Writers!CommitErase, Stands, Run
<1>2. Writers!Write(r, t, content, x)
  BY DEF Writers!CommitErase
<1>3. tables[t] \in Table /\ (~tables[t].there => tables[t].rows = {})
  BY <1>1 DEF TablesInv
<1>4. /\ content \in Table /\ content.rows = left /\ (~content.there => content.rows = {})
  BY <1>3 DEF Table
<1>5. /\ x \in Run /\ x.step = "register" /\ x.found = runs[r].found
      /\ x.command = c /\ x.table = t /\ x.erased = {} /\ x.nth = n
      /\ x.left = runs[r].left /\ x.before = runs[r].before /\ x.disturbed = runs[r].disturbed
  BY <1>1 DEF Run, Writers!Places
<1>6. /\ Writers!Replaces(c) /\ ~Writers!Recreates(c) /\ c.kind = "export" /\ c.rows # <<>>
      /\ KindAt("register", c)
  BY <1>1 DEF KindAt, Writers!Replaces, Writers!Recreates
<1>7. ASSUME ~runs[r].disturbed
      PROVE  left = MeantOf(r, n, c, runs[r].before)
  <2>1. /\ tables[t].rows = runs[r].before \cup RecordsOf(r, n, c)
        /\ runs[r].erased = {row \in runs[r].before : Names(c, row.key)}
    BY <1>1, <1>6, <1>7 DEF Stands, Undisturbed, ToDelete
  <2>2. RecordsOf(r, n, c) \cap runs[r].before = {}
    <3>1. \A row \in RecordsOf(r, n, c) : row.by = r /\ row.nth = n + 1 /\ ~(row.nth <= n)
      BY <1>1 DEF RecordsOf
    <3>2. \A row \in runs[r].before : row.by = r => row.nth <= n
      BY <1>1 DEF Stands
    <3> QED
      BY <3>1, <3>2
  <2>3. MeantOf(r, n, c, runs[r].before) =
            {row \in runs[r].before : ~Names(c, row.key)} \cup RecordsOf(r, n, c)
    BY <1>6 DEF MeantOf
  <2> QED
    BY <2>1, <2>2, <2>3
<1>8. ASSUME NEW q \in Runs \ {r}, runs[q].table = t
      PROVE  /\ \A row \in runs[q].erased : row \in left
             /\ runs[q].step = "commit" =>
                    \A row \in runs[q].erased, new \in RecordsOf(q, runs[q].nth, runs[q].command) :
                        new.key = row.key => new \in left
  <2>1. \A row \in runs[q].erased : row \in tables[t].rows /\ row \notin runs[r].erased
    BY <1>8, DeletedFacts DEF TablesInv, DeletedOnce
  <2>2. ASSUME runs[q].step = "commit", NEW row \in runs[q].erased,
               NEW new \in RecordsOf(q, runs[q].nth, runs[q].command), new.key = row.key
        PROVE  new \in tables[t].rows /\ new \notin runs[r].erased
    BY <1>8, <2>2 DEF TablesInv, NewRowsStay, Replaced
  <2> QED
    BY <2>1, <2>2
<1> HIDE DEF x, content
<1>9. Stands(r, x, left)
  <2>1. ~x.disturbed => Undisturbed(r, x, left)
    BY <1>5, <1>7 DEF Undisturbed
  <2> HIDE DEF left
  <2> QED
    BY <1>1, <1>5, <1>6, <2>1 DEF Stands
<1>10. LastWriter(runs[r]) <= LastWriter(x)
  BY <1>1, <1>5 DEF LastWriter
<1>11. left \subseteq tables[t].rows
  BY DEF left
<1> HIDE DEF left
<1> QED
  BY <1>1, <1>2, <1>4, <1>5, <1>8, <1>9, <1>10, <1>11, WriteKeeps

\* Every step of the table commands keeps their invariant.
LEMMA TablesStep ==
    ASSUME TablesInv, Writers!Next \/ UNCHANGED ofTables
    PROVE  TablesInv'
<1>1. ASSUME NEW r \in Runs, Writers!Finish(r) \/ Writers!Break(r) PROVE TablesInv'
  <2>1. runs[r].left > 0
    BY <1>1, RunFacts DEF Writers!Finish, Writers!Break, Stands
  <2>2. /\ runs' = [runs EXCEPT ![r] = Writers!Ended(r)] /\ UNCHANGED <<tables, datasets>>
        /\ breaks' \in 0 .. MaxFaults
    <3>1. breaks \in 0 .. MaxFaults /\ MaxFaults \in Nat
      BY RunFacts, TablesConstants
    <3> QED
      BY <1>1, <3>1 DEF Writers!Finish, Writers!Break, Writers!Fail
  <2> QED
    BY <2>1, <2>2, EndedKeeps
<1>2. CASE Writers!Next
  BY <1>1, <1>2, StartKeeps, SendDropKeeps, DropKeeps, EnsureTableKeeps, LookKeeps, EraseKeeps,
     InsertKeeps, CommitEraseKeeps, RegisterKeeps, WriteDatasetKeeps, UnregisterKeeps, EndRunKeeps
     DEF Writers!Next
<1>3. CASE UNCHANGED ofTables
  <2>1. UNCHANGED <<tables, datasets, runs, breaks>>
    BY <1>3 DEF ofTables
  <2> QED
    BY <2>1 DEF TablesInv, Stand, Stands, Undisturbed, RowsAreOld, LastWriter, DeletedOnce, NewRowsStay,
                Replaced
<1> QED
  BY <1>2, <1>3

\* The steps of a run that take rows away are those of commands that drop or
\* clean the table, and the commit of an insert-update, which leaves a row of
\* the same key.
LEMMA DropLosesKeys ==
    ASSUME TablesInv, NEW r \in Runs, Writers!Drop(r)
    PROVE  /\ runs[r] # runs'[r]
           /\ runs[r].command.kind \notin {"export", "save"} \/ Writers!Recreates(runs[r].command)
           /\ \A u \in Tables : u # runs[r].table => tables'[u] = tables[u]
<1>1. /\ runs[r] \in Run /\ runs[r].step = "dropping" /\ KindAt("dropping", runs[r].command)
      /\ runs[r].table \in Tables
  BY RunFacts DEF Writers!Drop, Stands
<1>2. runs'[r].step # "dropping"
  BY <1>1 DEF Writers!Drop, Writers!Write, Run
<1>3. tables \in [Tables -> Table]
  BY DEF TablesInv
<1> QED
  BY <1>1, <1>2, <1>3 DEF KindAt, Writers!Drop, Writers!Write

LEMMA EraseLosesKeys ==
    ASSUME TablesInv, NEW r \in Runs, Writers!Erase(r)
    PROVE  \/ UNCHANGED tables
           \/ /\ runs[r] # runs'[r] /\ runs[r].command.kind \notin {"export", "save"}
              /\ \A u \in Tables : u # runs[r].table => tables'[u] = tables[u]
<1>1. /\ runs[r] \in Run /\ runs[r].step = "erase" /\ KindAt("erase", runs[r].command)
      /\ runs[r].table \in Tables /\ tables \in [Tables -> Table]
  BY RunFacts DEF Writers!Erase, Stands, TablesInv
<1>2. CASE Writers!Replaces(runs[r].command)
  BY <1>2 DEF Writers!Erase
<1>3. CASE ~Writers!Replaces(runs[r].command)
  <2>1. runs'[r].step # "erase"
    BY <1>1, <1>3 DEF Writers!Erase, Writers!Write, Run
  <2> QED
    BY <1>1, <1>3, <2>1 DEF KindAt, Writers!Erase, Writers!Write
<1> QED
  BY <1>2, <1>3

LEMMA CommitEraseLosesNoKey ==
    ASSUME TablesInv, NEW r \in Runs, Writers!CommitErase(r),
           NEW t \in Tables, NEW k \in Keys, Writers!HasKey(t, k)
    PROVE  Writers!HasKey(t, k)'
<1> DEFINE c == runs[r].command
           n == runs[r].nth
           gone == runs[r].erased
<1>1. PICK row \in tables[t].rows : row.key = k
  BY DEF Writers!HasKey
<1>2. /\ runs[r] \in Run /\ runs[r].step = "commit" /\ n \in Nat /\ gone \subseteq runs[r].found
      /\ KindAt("commit", c) /\ Stands(r, runs[r], tables[runs[r].table].rows)
      /\ tables \in [Tables -> Table]
  BY RunFacts DEF Writers!CommitErase, Stands, Run, TablesInv
<1>3. CASE t # runs[r].table \/ row \notin gone
  <2>1. row \in tables'[t].rows
    BY <1>1, <1>2, <1>3 DEF Writers!CommitErase, Writers!Write, Table
  <2> QED
    BY <1>1, <2>1 DEF Writers!HasKey
<1>4. CASE t = runs[r].table /\ row \in gone
  <2>1. Names(c, k)
    BY <1>1, <1>2, <1>4 DEF Stands, KindAt
  <2>2. PICK i \in DOMAIN c.rows : c.rows[i] = k
    BY <2>1 DEF Names
  <2> DEFINE new == [key |-> c.rows[i], by |-> r, nth |-> n + 1, at |-> i]
  <2>3. new \in RecordsOf(r, n, c) /\ new.key = k /\ new.by = r /\ new.nth = n + 1
    BY <2>2 DEF RecordsOf
  <2> HIDE DEF new
  <2>4. new \in tables[t].rows
    BY <1>1, <1>2, <1>4, <2>3, DeletedFacts
  <2>5. new \notin gone
    <3>1. ~(n + 1 <= n)
      BY <1>2
    <3> QED
      BY <1>2, <2>3, <3>1 DEF Stands
  <2>6. new \in tables'[t].rows
    BY <1>2, <1>4, <2>4, <2>5 DEF Writers!CommitErase, Writers!Write, Table
  <2> QED
    BY <2>3, <2>6 DEF Writers!HasKey
<1> QED
  BY <1>3, <1>4

LEMMA InsertsLoseNoKey ==
    ASSUME TablesInv, NEW r \in Runs, Writers!EnsureTable(r) \/ Writers!Insert(r),
           NEW t \in Tables, NEW k \in Keys, Writers!HasKey(t, k)
    PROVE  Writers!HasKey(t, k)'
<1>1. PICK row \in tables[t].rows : row.key = k
  BY DEF Writers!HasKey
<1>2. tables \in [Tables -> Table] /\ (~tables[t].there => tables[t].rows = {})
  BY DEF TablesInv
<1>3. CASE Writers!EnsureTable(r)
  <2>1. tables'[t] = tables[t]
    BY <1>1, <1>2, <1>3 DEF Writers!EnsureTable, Writers!Write
  <2> QED
    BY <1>1, <2>1 DEF Writers!HasKey
<1>4. CASE Writers!Insert(r)
  <2>1. row \in tables'[t].rows
    BY <1>1, <1>2, <1>4 DEF Writers!Insert, Writers!Write, Writers!Fail, Table
  <2> QED
    BY <1>1, <2>1 DEF Writers!HasKey
<1> QED
  BY <1>3, <1>4

\* The other steps leave the tables alone.
LEMMA TablesStay ==
    ASSUME Writers!Next \/ UNCHANGED ofTables,
           ~ \E r \in Runs : \/ Writers!Drop(r) \/ Writers!EnsureTable(r) \/ Writers!Erase(r)
                             \/ Writers!Insert(r) \/ Writers!CommitErase(r)
    PROVE  UNCHANGED tables
<1>1. CASE UNCHANGED ofTables
  BY <1>1 DEF ofTables
<1>2. ASSUME NEW r \in Runs, NEW c \in Commands, Writers!StartCommand(r, c) PROVE UNCHANGED tables
  BY <1>2 DEF Writers!StartCommand, Writers!ExportDataset, Writers!SaveTable, Writers!DropTable,
              Writers!CleanTable, Writers!DropDataset, Writers!CleanDataset, Writers!Begin, Writers!Fail
<1>3. ASSUME NEW r \in Runs,
             \/ Writers!SendDrop(r) \/ Writers!Look(r) \/ Writers!Register(r) \/ Writers!WriteDataset(r)
             \/ Writers!Unregister(r) \/ Writers!Finish(r) \/ Writers!Break(r) \/ Writers!EndRun(r)
      PROVE  UNCHANGED tables
  BY <1>3 DEF Writers!SendDrop, Writers!Look, Writers!Register, Writers!WriteDataset, Writers!Unregister,
              Writers!Finish, Writers!Break, Writers!EndRun, Writers!Fail, Writers!Abort
<1> QED
  BY <1>1, <1>2, <1>3 DEF Writers!Next

LEMMA NoStepLosesKeys ==
    ASSUME TablesInv, Writers!Next \/ UNCHANGED ofTables
    PROVE  Writers!KeysSurvive
<1> SUFFICES ASSUME NEW t \in Tables, NEW k \in Keys, Writers!HasKey(t, k), ~Writers!HasKey(t, k)'
             PROVE  \E r \in Runs : /\ runs[r].table = t /\ runs[r] # runs'[r]
                                    /\ \/ runs[r].command.kind \notin {"export", "save"}
                                       \/ Writers!Recreates(runs[r].command)
  BY DEF Writers!KeysSurvive
<1>1. tables'[t] # tables[t] /\ ~UNCHANGED tables
  BY DEF Writers!HasKey
<1>2. PICK r \in Runs : \/ Writers!Drop(r) \/ Writers!EnsureTable(r) \/ Writers!Erase(r)
                        \/ Writers!Insert(r) \/ Writers!CommitErase(r)
  BY <1>1, TablesStay
<1>3. CASE Writers!Drop(r)
  BY <1>1, <1>3, DropLosesKeys
<1>4. CASE Writers!Erase(r)
  BY <1>1, <1>4, EraseLosesKeys
<1>5. CASE Writers!EnsureTable(r) \/ Writers!Insert(r)
  BY <1>5, InsertsLoseNoKey
<1>6. CASE Writers!CommitErase(r)
  BY <1>6, CommitEraseLosesNoKey
<1> QED
  BY <1>2, <1>3, <1>4, <1>5, <1>6

\* A successful command that nobody disturbed left what it means.
LEMMA TablesAreRight ==
    ASSUME TablesInv
    PROVE  Writers!TypeOK /\ Writers!DoesWhatTheModeSays
<1>1. Writers!TypeOK
  <2>1. \A t \in Tables : tables[t].rows \subseteq Writers!Row /\ (~tables[t].there => tables[t].rows = {})
    BY DEF TablesInv, Table
  <2>2. \A r \in Runs : runs[r].step \in Writers!Places
    BY DEF TablesInv, Run
  <2> QED
    BY <2>1, <2>2 DEF TablesInv, DeletedOnce, Writers!TypeOK
<1>2. ASSUME NEW r \in Runs, runs[r].step = "log", ~runs[r].disturbed
      PROVE  tables[runs[r].table].rows = Writers!Meant(r, runs[r].command, runs[r].before)
  <2>1. tables[runs[r].table].rows = MeantOf(r, runs[r].nth, runs[r].command, runs[r].before)
    BY <1>2 DEF TablesInv, Stand, Stands, Undisturbed
  <2> QED
    BY <2>1, MeantIs
<1> QED
  BY <1>1, <1>2 DEF Writers!DoesWhatTheModeSays

(***************************************************************************)
(* The editor of a hook's commands.                                        *)
(***************************************************************************)

Value == [tag : Nat, val : Nat, kind : Editor!Kinds]
OpKeys == Nat \X (Editor!Kinds \cup {"new"})
Op == [order : 1 .. MaxOfHook, key : OpKeys, content : Value]
Raw == [order : Nat, key : OpKeys, content : Value]  \* a command that is not numbered yet

\* The commands of a hook: their orders rise, and their keys differ.
Numbered(os) ==
    /\ os \in Seq(Op) /\ Len(os) <= MaxOfHook
    /\ \A j, k \in DOMAIN os : j < k => os[j].order < os[k].order

Hook(os) ==
    /\ Numbered(os)
    /\ \A j, k \in DOMAIN os : os[j].key = os[k].key => j = k

Filled(f) == \A x \in DOMAIN f : f[x] \in Value

DialogOK(d) ==
    /\ d \in [open : BOOLEAN, seen : BOOLEAN, copy : Seq(Op)]
    /\ Len(d.copy) <= MaxOfHook /\ (d.seen => d.open)

\* The keys that new_ui_key has made.
FreshKeys(os, n) == \A k \in DOMAIN os : \A t \in Nat : os[k].key = Editor!NewKey(t) => t < n
FreshRows(rws, n) == \A t \in Nat : Editor!NewKey(t) \in DOMAIN rws => t < n

\* What the draft has and the server has not was added.
Waits(os, st) ==
    /\ \A k \in DOMAIN st : k \in DOMAIN os /\ os[k].content = st[k]
    /\ \A k \in DOMAIN os \ DOMAIN st : os[k].key = Editor!NewKey(os[k].content.tag)

\* What the session keeps for a command was made of it: the field that is drawn
\* is that of an editor of its command, and the API editor has rows for the
\* API commands only, under the key they have or will have when the suite is
\* loaded.  An empty form has no tag.
InPlace(os) ==
    \A k \in DOMAIN os : /\ os[k].order = k
                         /\ \/ os[k].key = <<k, os[k].content.kind>>
                            \/ \E t \in Nat : os[k].key = Editor!NewKey(t)

OwnFields(os, flds) ==
    \A x \in DOMAIN flds : \E k \in DOMAIN os :
        x = <<os[k].content.kind, k>> /\ flds[x].tag \in {0, os[k].content.tag}

OwnRows(os, rws) ==
    /\ \A k \in DOMAIN os : os[k].content.kind = "api" =>
          \A x \in {os[k].key, <<k, "api">>} : x \in DOMAIN rws => rws[x].tag = os[k].content.tag
    /\ \A n \in Nat : <<n, "api">> \in DOMAIN rws => n \in DOMAIN os /\ os[n].content.kind = "api"

Owned(os, flds, rws) == InPlace(os) /\ OwnFields(os, flds) /\ OwnRows(os, rws)

\* The editor's invariant.
EditorInv ==
    /\ Hook(ops)
    /\ chosen \in Editor!KeysOf(ops) \cup {Editor!NoKey}
    /\ marks \subseteq 1 .. MaxOfHook
    /\ \A x, y \in DOMAIN fields : x = y
    /\ Filled(fields) /\ Filled(apiRows)
    /\ DialogOK(dialog)
    /\ tags \in Nat /\ shifted \in BOOLEAN
    /\ FreshKeys(ops, tags) /\ FreshRows(apiRows, tags)
    /\ Waits(ops, stored)
    /\ ~shifted => Owned(ops, fields, apiRows)

LEMMA EditorConstants ==
    MaxOfHook \in Nat /\ Loaded \in Seq(Editor!Kinds) /\ Len(Loaded) <= MaxOfHook
BY SharedAssumption DEF Editor!EditorAssumption

\* A command of a hook, and that its key is its own.
LEMMA OpType ==
    ASSUME NEW os, Numbered(os), NEW k \in DOMAIN os
    PROVE  /\ k \in Nat \ {0} /\ k <= Len(os) /\ k \in 1 .. MaxOfHook /\ Len(os) \in Nat
           /\ os[k] \in Op /\ os[k].content \in Value /\ os[k].order \in 1 .. MaxOfHook
           /\ os[k].content.kind \in Editor!Kinds /\ os[k].content.tag \in Nat
           /\ os[k].key \in OpKeys
<1>1. os \in Seq(Op) /\ Len(os) \in Nat /\ Len(os) <= MaxOfHook /\ DOMAIN os = 1 .. Len(os)
  BY DEF Numbered
<1>2. os[k] \in Op /\ k \in 1 .. Len(os)
  BY <1>1
<1>3. k \in Nat \ {0} /\ k <= Len(os) /\ k \in 1 .. MaxOfHook
  BY <1>1, <1>2, EditorConstants
<1>4. os[k].content \in Value /\ os[k].order \in 1 .. MaxOfHook /\ os[k].key \in OpKeys
  BY <1>2 DEF Op
<1> QED
  BY <1>1, <1>2, <1>3, <1>4 DEF Value

LEMMA OpsAreRaw ==
    ASSUME NEW os, os \in Seq(Op)
    PROVE  os \in Seq(Raw)
<1>1. \A o \in Op : o \in Raw
  BY EditorConstants DEF Op, Raw
<1> QED
  BY <1>1

LEMMA KeysAreApart ==
    ASSUME NEW os, Hook(os), NEW j \in DOMAIN os, NEW k \in DOMAIN os, Editor!Key(os[j]) = Editor!Key(os[k])
    PROVE  j = k
BY DEF Hook, Editor!Key

LEMMA FoundAtItsPlace ==
    ASSUME NEW os, Hook(os), NEW k \in DOMAIN os
    PROVE  Editor!IndexOf(os, Editor!Key(os[k])) = k
<1> DEFINE I == {i \in 1 .. Len(os) : Editor!Key(os[i]) = Editor!Key(os[k])}
<1>1. I = {k}
  <2>1. DOMAIN os = 1 .. Len(os)
    BY DEF Hook, Numbered
  <2> QED
    BY <2>1, KeysAreApart
<1>2. Editor!Min({k}) = k
  BY OpType DEF Editor!Min, Hook
<1>3. Editor!IndexOf(os, Editor!Key(os[k])) = IF I # {} THEN Editor!Min(I) ELSE 0
  BY DEF Editor!IndexOf, Editor!SelectInSeq
<1> QED
  BY <1>1, <1>2, <1>3

\* The selection that is drawn is that of a command.
LEMMA ResolvedIsACommand ==
    ASSUME NEW os, Hook(os), os # <<>>, NEW key
    PROVE  \E k \in DOMAIN os : /\ Editor!Resolved(os, key) = Editor!Key(os[k])
                                /\ Editor!IndexOf(os, Editor!Resolved(os, key)) = k
<1>1. \E k \in DOMAIN os : Editor!Resolved(os, key) = Editor!Key(os[k])
  <2>1. 1 \in DOMAIN os
    BY DEF Hook, Numbered
  <2> QED
    BY <2>1 DEF Editor!Resolved, Editor!KeysOf
<1> QED
  BY <1>1, FoundAtItsPlace

LEMMA ShownType ==
    ASSUME NEW os, Hook(os), NEW k \in DOMAIN os, NEW mks, NEW flds, NEW rws, Filled(flds), Filled(rws)
    PROVE  Editor!Shown(os, k, mks, flds, rws) \in Value
<1>1. os[k].content \in Value /\ Editor!Blank \in Value
  BY OpType DEF Editor!Blank, Editor!Content, Value, Editor!Kinds, Hook
<1> QED
  BY <1>1 DEF Editor!Shown, Filled

\* A form shows its own command or nothing.
LEMMA ShownIsOwn ==
    ASSUME NEW os, Hook(os), NEW k \in DOMAIN os, NEW mks, NEW flds, NEW rws, Owned(os, flds, rws)
    PROVE  LET c == Editor!Shown(os, k, mks, flds, rws) IN
           /\ c.tag \in {0, os[k].content.tag}
           /\ os[k].content.kind = "api" => c.tag = os[k].content.tag
<1> DEFINE c == Editor!Shown(os, k, mks, flds, rws)
           kind == os[k].content.kind
<1>1. CASE kind = "api"
  <2>1. os[k].key \in DOMAIN rws => rws[os[k].key].tag = os[k].content.tag
    BY <1>1 DEF Owned, OwnRows
  <2>2. c = IF os[k].key \in DOMAIN rws THEN rws[os[k].key] ELSE os[k].content
    BY <1>1 DEF Editor!Shown, Editor!Key
  <2> QED
    BY <1>1, <2>1, <2>2
<1>2. CASE kind # "api"
  <2>1. <<kind, k>> \in DOMAIN flds => flds[<<kind, k>>].tag \in {0, os[k].content.tag}
    BY DEF Owned, OwnFields
  <2>2. \/ c = os[k].content \/ c = Editor!Blank
        \/ <<kind, k>> \in DOMAIN flds /\ c = flds[<<kind, k>>]
    BY <1>2 DEF Editor!Shown, Editor!FieldKey
  <2>3. Editor!Blank.tag = 0
    BY DEF Editor!Blank, Editor!Content
  <2> QED
    BY <1>2, <2>1, <2>2, <2>3
<1> QED
  BY <1>1, <1>2

\* Rows of the API editor that are drawn.
LEMMA RowsDrawn ==
    ASSUME NEW os, Hook(os), NEW k \in DOMAIN os, NEW rws, NEW c, InPlace(os), OwnRows(os, rws),
           os[k].content.kind = "api", c.tag = os[k].content.tag
    PROVE  OwnRows(os, Editor!With(rws, os[k].key, c))
<1> DEFINE new == Editor!With(rws, os[k].key, c)
<1>1. DOMAIN new = DOMAIN rws \cup {os[k].key}
      /\ \A x \in DOMAIN new : new[x] = IF x = os[k].key THEN c ELSE rws[x]
  BY DEF Editor!With
<1>2. \A n \in Nat : os[k].key = <<n, "api">> => n = k
  BY DEF InPlace, Editor!NewKey
<1>k. \A j \in DOMAIN os : j \in Nat
  BY OpType DEF Hook
<1> HIDE DEF new
<1>3. ASSUME NEW j \in DOMAIN os, os[j].content.kind = "api", NEW x \in {os[j].key, <<j, "api">>},
             x \in DOMAIN new
      PROVE  new[x].tag = os[j].content.tag
  <2>1. CASE x = os[k].key
    <3>1. j = k
      BY <1>2, <1>3, <1>k, <2>1 DEF Hook
    <3> QED
      BY <1>1, <1>3, <2>1, <3>1
  <2>2. CASE x # os[k].key
    BY <1>1, <1>3, <2>2 DEF OwnRows
  <2> QED
    BY <2>1, <2>2
<1>4. ASSUME NEW n \in Nat, <<n, "api">> \in DOMAIN new
      PROVE  n \in DOMAIN os /\ os[n].content.kind = "api"
  BY <1>1, <1>2, <1>4 DEF OwnRows
<1> QED
  BY <1>3, <1>4 DEF OwnRows, new

\* Drawing the page leaves the session as it should be.
LEMMA DrawKeeps ==
    ASSUME NEW os, Hook(os), NEW key, NEW mks, mks \subseteq 1 .. MaxOfHook, NEW n,
           NEW flds, NEW rws, Filled(flds), Filled(rws), Editor!Draw(os, key, mks, flds, rws),
           FreshKeys(os, n), FreshRows(rws, n)
    PROVE  /\ chosen' \in Editor!KeysOf(os) \cup {Editor!NoKey}
           /\ marks' \subseteq 1 .. MaxOfHook
           /\ \A x, y \in DOMAIN fields' : x = y
           /\ Filled(fields') /\ Filled(apiRows')
           /\ FreshRows(apiRows', n)
           /\ Owned(os, flds, rws) => Owned(os, fields', apiRows')
<1>1. CASE os = <<>>
  <2>1. chosen' = Editor!NoKey /\ marks' = mks /\ fields' = Editor!NoFields /\ apiRows' = rws
    BY <1>1 DEF Editor!Draw, Editor!Resolved, Editor!KeysOf
  <2> QED
    BY <2>1 DEF Editor!NoFields, Filled, Owned, OwnFields
<1>2. CASE os # <<>>
  <2>1. PICK k \in DOMAIN os : /\ Editor!Resolved(os, key) = Editor!Key(os[k])
                               /\ Editor!IndexOf(os, Editor!Resolved(os, key)) = k
    BY <1>2, ResolvedIsACommand
  <2> DEFINE c == Editor!Shown(os, k, mks, flds, rws)
             kind == os[k].content.kind
  <2>2. /\ chosen' = Editor!Key(os[k])
        /\ marks' = IF kind = "typed" THEN mks \cup {k} ELSE mks
        /\ fields' = IF kind = "api" THEN Editor!NoFields ELSE Editor!Only(<<kind, k>>, c)
        /\ apiRows' = IF kind = "api" THEN Editor!With(rws, os[k].key, c) ELSE rws
    BY <1>2, <2>1 DEF Editor!Draw, Editor!FieldKey, Editor!Key
  <2>3. c \in Value
    BY ShownType
  <2>4. Owned(os, flds, rws) => c.tag \in {0, os[k].content.tag} /\ (kind = "api" => c.tag = os[k].content.tag)
    BY ShownIsOwn
  <2> HIDE DEF c
  <2>5. chosen' \in Editor!KeysOf(os) /\ marks' \subseteq 1 .. MaxOfHook
    BY <2>2, OpType DEF Editor!KeysOf, Hook
  <2>6. /\ \A x, y \in DOMAIN fields' : x = y
        /\ Filled(fields') /\ Filled(apiRows')
    BY <2>2, <2>3 DEF Filled, Editor!NoFields, Editor!Only, Editor!With
  <2>7. FreshRows(apiRows', n)
    BY <2>2 DEF FreshRows, FreshKeys, Editor!With
  <2>8. ASSUME Owned(os, flds, rws)
        PROVE  Owned(os, fields', apiRows')
    <3>1. OwnFields(os, fields')
      BY <2>2, <2>4, <2>8 DEF OwnFields, Editor!NoFields, Editor!Only
    <3>2. OwnRows(os, apiRows')
      BY <2>2, <2>4, <2>8, RowsDrawn DEF Owned
    <3> QED
      BY <2>8, <3>1, <3>2 DEF Owned
  <2> QED
    BY <2>5, <2>6, <2>7, <2>8
<1> QED
  BY <1>1, <1>2

\* A click that draws the page.
LEMMA DrawnKeeps ==
    ASSUME EditorInv, NEW os, Hook(os), ops' = os, NEW key, NEW flds, NEW rws, Filled(flds), Filled(rws),
           Editor!Draw(os, key, marks, flds, rws), DialogOK(dialog'), tags' \in Nat, shifted' \in BOOLEAN,
           FreshKeys(os, tags'), FreshRows(rws, tags'), Waits(os, stored'),
           ~shifted' => Owned(os, flds, rws)
    PROVE  EditorInv'
<1>1. marks \subseteq 1 .. MaxOfHook
  BY DEF EditorInv
<1>2. /\ chosen' \in Editor!KeysOf(os) \cup {Editor!NoKey}
      /\ marks' \subseteq 1 .. MaxOfHook
      /\ \A x, y \in DOMAIN fields' : x = y
      /\ Filled(fields') /\ Filled(apiRows')
      /\ FreshRows(apiRows', tags')
      /\ Owned(os, flds, rws) => Owned(os, fields', apiRows')
  BY <1>1, DrawKeeps
<1>3. ops' = os
  OBVIOUS
<1>4. /\ Hook(os)' /\ FreshKeys(os, tags)' /\ Waits(os, stored)'
      /\ chosen' \in Editor!KeysOf(os)' \cup {Editor!NoKey}
      /\ ~shifted' => Owned(os, fields', apiRows')
  BY <1>2
<1> QED
  BY <1>2, <1>3, <1>4 DEF EditorInv

LEMMA SeenAgainKeeps ==
    ASSUME EditorInv, Editor!SeenAgain
    PROVE  DialogOK(dialog')
BY DEF EditorInv, DialogOK, Editor!SeenAgain

\* The command that is selected, and its form.
LEMMA CurrentFacts ==
    ASSUME EditorInv, chosen # Editor!NoKey
    PROVE  /\ Editor!Current \in DOMAIN ops /\ chosen = Editor!Key(ops[Editor!Current])
           /\ Editor!Form \in Value
           /\ ~shifted => /\ Editor!Form.tag \in {0, ops[Editor!Current].content.tag}
                          /\ ops[Editor!Current].content.kind = "api" =>
                                 Editor!Form.tag = ops[Editor!Current].content.tag
<1>1. PICK k \in DOMAIN ops : chosen = Editor!Key(ops[k])
  BY DEF EditorInv, Editor!KeysOf
<1>2. Editor!Current = k
  BY <1>1, FoundAtItsPlace DEF EditorInv, Editor!Current
<1>3. Editor!Form = Editor!Shown(ops, k, marks, fields, apiRows)
  BY <1>2 DEF Editor!Form
<1> QED
  BY <1>1, <1>2, <1>3, ShownType, ShownIsOwn DEF EditorInv

LEMMA WithoutKeeps ==
    ASSUME NEW os, NEW flds, NEW rws, NEW key, NEW n, Filled(rws), FreshRows(rws, n)
    PROVE  /\ Filled(Editor!Without(rws, key)) /\ FreshRows(Editor!Without(rws, key), n)
           /\ Owned(os, flds, rws) => Owned(os, flds, Editor!Without(rws, key))
BY DEF Filled, FreshRows, Owned, OwnRows, Editor!Without

\* The commands of a suite that is loaded.
LEMMA ReloadedIsAHook ==
    ASSUME NEW os, Numbered(os)
    PROVE  LET new == Editor!Reloaded(os) IN
           /\ Hook(new) /\ DOMAIN new = DOMAIN os
           /\ \A k \in DOMAIN os : /\ new[k].content = os[k].content /\ new[k].order = os[k].order
                                   /\ new[k].key = <<os[k].order, os[k].content.kind>>
           /\ \A n : FreshKeys(new, n)
           /\ Waits(new, Editor!Contents(os))
           /\ \A flds, rws : Owned(os, flds, rws) => Owned(new, flds, rws)
<1> DEFINE new == Editor!Reloaded(os)
<1>1. os \in Seq(Op) /\ DOMAIN os = 1 .. Len(os) /\ Len(os) \in Nat
  BY DEF Numbered
<1>2. DOMAIN new = DOMAIN os
  BY DEF Editor!Reloaded
<1>3. ASSUME NEW k \in DOMAIN os
      PROVE  /\ new[k] = [order |-> os[k].order, key |-> <<os[k].order, os[k].content.kind>>,
                          content |-> os[k].content]
             /\ new[k] \in Op
  <2>1. /\ os[k] \in Op /\ os[k].order \in 1 .. MaxOfHook /\ os[k].content \in Value
        /\ os[k].content.kind \in Editor!Kinds
    BY OpType
  <2>2. new[k] = [os[k] EXCEPT !.key = <<os[k].order, os[k].content.kind>>]
    BY DEF Editor!Reloaded
  <2>3. os[k].order \in Nat
    BY <2>1, EditorConstants
  <2>4. <<os[k].order, os[k].content.kind>> \in OpKeys
    BY <2>1, <2>3 DEF OpKeys
  <2> QED
    BY <2>1, <2>2, <2>4 DEF Op
<1>4. new = [k \in 1 .. Len(os) |-> new[k]]
  BY <1>1 DEF Editor!Reloaded
<1> HIDE DEF new
<1>5. new \in Seq(Op) /\ Len(new) = Len(os)
  BY <1>1, <1>3, <1>4
<1>6. Numbered(new)
  BY <1>1, <1>2, <1>3, <1>5 DEF Numbered
<1>7. ASSUME NEW j \in DOMAIN new, NEW k \in DOMAIN new, new[j].key = new[k].key
      PROVE  j = k
  <2>1. new[j].order = new[k].order
    BY <1>2, <1>3, <1>7
  <2>2. ~(j < k) /\ ~(k < j) /\ j \in Nat /\ k \in Nat
    <3>1. new[j].order \in 1 .. MaxOfHook /\ new[k].order \in 1 .. MaxOfHook /\ j \in Nat /\ k \in Nat
      BY <1>6, OpType
    <3> QED
      BY <1>6, <2>1, <3>1, EditorConstants DEF Numbered
  <2> QED
    BY <2>2
<1>8. Hook(new)
  BY <1>6, <1>7 DEF Hook
<1>9. \A n : FreshKeys(new, n)
  <2>1. ASSUME NEW k \in DOMAIN new, NEW t \in Nat PROVE new[k].key # Editor!NewKey(t)
    <3>1. new[k].key = <<os[k].order, os[k].content.kind>> /\ os[k].content.kind \in Editor!Kinds
      BY <1>2, <1>3, OpType
    <3> QED
      BY <3>1 DEF Editor!NewKey, Editor!Kinds
  <2> QED
    BY <2>1 DEF FreshKeys
<1>10. Waits(new, Editor!Contents(os))
  BY <1>2, <1>3 DEF Waits, Editor!Contents
<1>11. ASSUME NEW flds, NEW rws, Owned(os, flds, rws)
       PROVE  Owned(new, flds, rws)
  <2>1. \A k \in DOMAIN os : os[k].order = k
    BY <1>11 DEF Owned, InPlace
  <2>2. InPlace(new)
    BY <1>2, <1>3, <2>1 DEF InPlace
  <2>3. OwnFields(new, flds)
    BY <1>2, <1>3, <1>11 DEF Owned, OwnFields
  <2>4. OwnRows(new, rws)
    BY <1>2, <1>3, <1>11, <2>1 DEF Owned, OwnRows
  <2> QED
    BY <2>2, <2>3, <2>4 DEF Owned
<1> QED
  BY <1>2, <1>3, <1>8, <1>9, <1>10, <1>11 DEF new

\* _persist_current_draft: the suite is loaded again, or is left as back.
LEMMA PersistKeeps ==
    ASSUME NEW os, Numbered(os), NEW back, Hook(back), NEW ok \in BOOLEAN, Editor!Persist(os, back, ok),
           NEW n, FreshKeys(back, n), ~ok => Waits(back, stored)
    PROVE  /\ Hook(ops') /\ FreshKeys(ops', n) /\ Waits(ops', stored')
           /\ ok => ops' = Editor!Reloaded(os) /\ DOMAIN ops' = DOMAIN os
           /\ ~ok => ops' = back
<1>1. CASE ok
  <2>1. ops' = Editor!Reloaded(os) /\ stored' = Editor!Contents(os)
    BY <1>1 DEF Editor!Persist
  <2> QED
    BY <1>1, <2>1, ReloadedIsAHook
<1>2. CASE ~ok
  BY <1>2 DEF Editor!Persist
<1> QED
  BY <1>1, <1>2

LEMMA RemovedIsNumbered ==
    ASSUME NEW os, Hook(os), NEW k \in DOMAIN os
    PROVE  Numbered(Editor!RemoveAt(os, k))
<1> DEFINE n == Len(os)
           a == SubSeq(os, 1, k - 1)
           b == SubSeq(os, k + 1, n)
<1>1. os \in Seq(Op) /\ n \in Nat /\ n <= MaxOfHook /\ k \in 1 .. n
  BY OpType DEF Hook, Numbered
<1>2. a \in Seq(Op) /\ Len(a) = k - 1 /\ \A i \in 1 .. k - 1 : a[i] = os[i]
  BY <1>1
<1>3. b \in Seq(Op) /\ Len(b) = n - k /\ \A i \in 1 .. n - k : b[i] = os[k + i]
  BY <1>1
<1>4. Editor!RemoveAt(os, k) = a \o b
  BY DEF Editor!RemoveAt
<1> HIDE DEF a, b
<1>5. /\ a \o b \in Seq(Op) /\ Len(a \o b) = n - 1
      /\ \A i \in 1 .. n - 1 : (a \o b)[i] = IF i < k THEN os[i] ELSE os[i + 1]
  BY <1>1, <1>2, <1>3, JoinedLists
<1> DEFINE c == a \o b
<1>6. c \in Seq(Op) /\ Len(c) = n - 1 /\ \A i \in 1 .. n - 1 : c[i] = IF i < k THEN os[i] ELSE os[i + 1]
  BY <1>5
<1> HIDE DEF c
<1>7. ASSUME NEW i \in 1 .. n - 1, NEW j \in 1 .. n - 1, i < j
      PROVE  c[i].order < c[j].order
  <2> DEFINE p(x) == IF x < k THEN x ELSE x + 1
  <2>1. p(i) \in 1 .. n /\ p(j) \in 1 .. n /\ p(i) < p(j)
    BY <1>1, <1>7
  <2>2. c[i] = os[p(i)] /\ c[j] = os[p(j)]
    BY <1>6
  <2>3. DOMAIN os = 1 .. n
    BY <1>1
  <2> HIDE DEF p
  <2> QED
    BY <2>1, <2>2, <2>3 DEF Hook, Numbered
<1>8. Len(c) <= MaxOfHook /\ DOMAIN c = 1 .. n - 1
  BY <1>1, <1>6, EditorConstants
<1> QED
  BY <1>4, <1>6, <1>7, <1>8 DEF c, Numbered

\* Commands that are numbered anew.
LEMMA ResequencedIsNumbered ==
    ASSUME NEW os, os \in Seq(Raw), Len(os) <= MaxOfHook
    PROVE  /\ Numbered(Editor!Resequenced(os)) /\ DOMAIN Editor!Resequenced(os) = DOMAIN os
           /\ \A k \in DOMAIN os : Editor!Resequenced(os)[k] =
                 [order |-> k, key |-> os[k].key, content |-> os[k].content]
<1> DEFINE new == Editor!Resequenced(os)
           n == Len(os)
           renumbered(k) == [order |-> k, key |-> os[k].key, content |-> os[k].content]
<1>1. DOMAIN os = 1 .. n /\ n \in Nat /\ \A k \in 1 .. n : os[k] \in Raw
  OBVIOUS
<1>2. \A k \in 1 .. n : [os[k] EXCEPT !.order = k] = renumbered(k)
  BY <1>1 DEF Raw
<1>3. new = [k \in 1 .. n |-> renumbered(k)]
  BY <1>1, <1>2 DEF Editor!Resequenced
<1>4. \A k \in 1 .. n : renumbered(k) \in Op
  BY <1>1, EditorConstants DEF Op, Raw
<1>5. new \in Seq(Op) /\ Len(new) = n
  BY <1>1, <1>3, <1>4
<1> QED
  BY <1>1, <1>3, <1>5 DEF Numbered

LEMMA EditorInit == Editor!Init => EditorInv
<1> SUFFICES ASSUME Editor!Init PROVE EditorInv
  OBVIOUS
<1>1. /\ Loaded \in Seq(Editor!Kinds) /\ Len(Loaded) <= MaxOfHook /\ MaxOfHook \in Nat
      /\ DOMAIN Loaded = 1 .. Len(Loaded) /\ Len(Loaded) \in Nat
  BY EditorConstants
<1> DEFINE first(k) == [order |-> k, key |-> <<k, Loaded[k]>>, content |-> Editor!Content(k, 1, Loaded[k])]
<1>2. ops = [k \in DOMAIN Loaded |-> first(k)] /\ stored = Editor!Contents(ops)
  BY DEF Editor!Init
<1>3. ASSUME NEW k \in DOMAIN Loaded PROVE first(k) \in Op
  <2>1. k \in Nat /\ k \in 1 .. MaxOfHook /\ Loaded[k] \in Editor!Kinds
    BY <1>1
  <2>2. <<k, Loaded[k]>> \in OpKeys /\ Editor!Content(k, 1, Loaded[k]) \in Value
    BY <2>1 DEF OpKeys, Value, Editor!Content
  <2> QED
    BY <2>1, <2>2 DEF Op
<1>4. \A k \in DOMAIN ops : ops[k] = first(k)
  BY <1>2
<1>5. ops \in Seq(Op) /\ Len(ops) = Len(Loaded) /\ DOMAIN ops = DOMAIN Loaded
  BY <1>1, <1>2, <1>3
<1>6. Numbered(ops)
  BY <1>1, <1>4, <1>5 DEF Numbered
<1>7. Editor!Reloaded(ops) = ops
  <2>1. \A k \in DOMAIN ops : [ops[k] EXCEPT !.key = <<ops[k].order, ops[k].content.kind>>] = ops[k]
    BY <1>4 DEF Editor!Content
  <2>2. ops = [k \in DOMAIN ops |-> ops[k]]
    BY <1>2
  <2> QED
    BY <2>1, <2>2 DEF Editor!Reloaded
<1>8. Hook(ops) /\ FreshKeys(ops, tags) /\ Waits(ops, stored)
  BY <1>2, <1>6, <1>7, ReloadedIsAHook
<1>9. fields = Editor!NoFields /\ DOMAIN apiRows = {} /\ DOMAIN fields = {}
  BY DEF Editor!Init, Editor!NoFields
<1>10. Owned(ops, fields, apiRows)
  <2>1. InPlace(ops)
    BY <1>4, <1>5 DEF InPlace, Editor!Content
  <2> QED
    BY <1>9, <2>1 DEF Owned, OwnFields, OwnRows
<1>11. Filled(fields) /\ Filled(apiRows) /\ FreshRows(apiRows, tags) /\ \A x, y \in DOMAIN fields : x = y
  BY <1>9 DEF Filled, FreshRows
<1>12. DialogOK(dialog)
  BY EditorConstants DEF Editor!Init, Editor!Closed, DialogOK
<1>13. chosen = Editor!NoKey /\ marks = {} /\ tags = Len(Loaded) + 1 /\ shifted = FALSE
  BY DEF Editor!Init
<1>14. tags \in Nat
  BY <1>1, <1>13
<1> QED
  BY <1>8, <1>10, <1>11, <1>12, <1>13, <1>14 DEF EditorInv

\* Clicks that leave the commands alone.
LEMMA LooksKeep ==
    ASSUME EditorInv,
           \/ Editor!OpenPage \/ \E k \in DOMAIN ops : Editor!Select(k)
           \/ Editor!ResetForm \/ Editor!OpenReorder \/ Editor!CancelReorder
    PROVE  EditorInv'
<1>1. /\ Hook(ops) /\ Filled(fields) /\ Filled(apiRows) /\ DialogOK(dialog)
      /\ tags \in Nat /\ shifted \in BOOLEAN /\ (~shifted => Owned(ops, fields, apiRows))
      /\ FreshKeys(ops, tags) /\ FreshRows(apiRows, tags) /\ Waits(ops, stored)
  BY DEF EditorInv
<1>2. CASE Editor!OpenPage
  <2>1. /\ Filled(Editor!NoFields)
        /\ Owned(ops, fields, apiRows) => Owned(ops, Editor!NoFields, apiRows)
    BY DEF Filled, Owned, OwnFields, Editor!NoFields
  <2> QED
    BY <1>1, <1>2, <2>1, DrawnKeeps, SeenAgainKeeps DEF Editor!OpenPage
<1>3. ASSUME NEW k \in DOMAIN ops, Editor!Select(k) PROVE EditorInv'
  BY <1>1, <1>3, DrawnKeeps, SeenAgainKeeps DEF Editor!Select
<1>4. CASE Editor!ResetForm
  <2> DEFINE kept == IF ops[Editor!Current].content.kind = "api" THEN Editor!Without(apiRows, chosen) ELSE apiRows
  <2>1. /\ Filled(kept) /\ FreshRows(kept, tags)
        /\ Owned(ops, fields, apiRows) => Owned(ops, fields, kept)
    BY <1>1, WithoutKeeps
  <2>2. /\ Editor!Draw(ops, chosen, marks, fields, kept) /\ Editor!SeenAgain
        /\ UNCHANGED <<ops, stored, tags, shifted>>
    BY <1>4 DEF Editor!ResetForm
  <2> HIDE DEF kept
  <2>3. /\ FreshKeys(ops, tags') /\ FreshRows(kept, tags') /\ Waits(ops, stored')
        /\ tags' \in Nat /\ shifted' \in BOOLEAN /\ ops' = ops
        /\ ~shifted' => Owned(ops, fields, kept)
    BY <1>1, <2>1, <2>2
  <2>4. Filled(kept) /\ DialogOK(dialog')
    BY <2>1, <2>2, SeenAgainKeeps
  <2> QED
    BY <1>1, <2>2, <2>3, <2>4, DrawnKeeps
<1>5. CASE Editor!OpenReorder \/ Editor!CancelReorder
  <2>1. DialogOK(dialog')
    <3>1. ops \in Seq(Op) /\ Len(ops) <= MaxOfHook
      BY <1>1 DEF Hook, Numbered
    <3>2. CASE Editor!OpenReorder
      <4>1. dialog' = [open |-> TRUE, seen |-> TRUE, copy |-> ops]
        BY <3>2 DEF Editor!OpenReorder
      <4> QED
        BY <3>1, <4>1 DEF DialogOK
    <3>3. CASE Editor!CancelReorder
      <4>1. dialog' = [open |-> FALSE, seen |-> FALSE, copy |-> <<>>]
        BY <3>3 DEF Editor!CancelReorder, Editor!Closed
      <4> QED
        BY <4>1, EditorConstants DEF DialogOK
    <3> QED
      BY <1>5, <3>2, <3>3
  <2> QED
    BY <1>1, <1>5, <2>1, DrawnKeeps DEF Editor!OpenReorder, Editor!CancelReorder
<1> QED
  BY <1>2, <1>3, <1>4, <1>5

LEMMA TypeKeeps ==
    ASSUME EditorInv, Editor!Type
    PROVE  EditorInv'
<1> DEFINE k == Editor!Current
           kind == ops[k].content.kind
           typed == [Editor!Form EXCEPT !.val = 2]
<1>1. /\ k \in DOMAIN ops /\ chosen = Editor!Key(ops[k]) /\ Editor!Form \in Value
      /\ ~shifted => /\ Editor!Form.tag \in {0, ops[k].content.tag}
                     /\ kind = "api" => Editor!Form.tag = ops[k].content.tag
  BY CurrentFacts DEF Editor!Type
<1>2. typed \in Value /\ typed.tag = Editor!Form.tag
  BY <1>1 DEF Value
<1>3. /\ IF kind = "api" THEN apiRows' = Editor!With(apiRows, chosen, typed) /\ UNCHANGED fields
         ELSE fields' = Editor!Only(<<kind, k>>, typed) /\ UNCHANGED apiRows
      /\ UNCHANGED <<ops, stored, chosen, marks, tags, shifted>>
  BY DEF Editor!Type, Editor!FieldKey
<1>4. DialogOK(dialog')
  BY SeenAgainKeeps DEF Editor!Type
<1> HIDE DEF typed, k
<1>5. /\ Filled(fields') /\ Filled(apiRows')
      /\ \A x, y \in DOMAIN fields' : x = y
      /\ FreshRows(apiRows', tags)
  <2>1. \A t \in Nat : chosen = Editor!NewKey(t) => t < tags
    BY <1>1 DEF EditorInv, FreshKeys, Editor!Key
  <2> QED
    BY <1>2, <1>3, <2>1 DEF EditorInv, Filled, FreshRows, Editor!With, Editor!Only
<1>6. ASSUME ~shifted PROVE Owned(ops, fields', apiRows')
  <2>1. Owned(ops, fields, apiRows)
    BY <1>6 DEF EditorInv
  <2>2. CASE kind = "api"
    <3>1. apiRows' = Editor!With(apiRows, ops[k].key, typed) /\ UNCHANGED fields
      BY <1>1, <1>3, <2>2 DEF Editor!Key
    <3>2. OwnRows(ops, apiRows')
      BY <1>1, <1>2, <1>6, <2>1, <2>2, <3>1, RowsDrawn DEF Owned, EditorInv
    <3> QED
      BY <2>1, <3>1, <3>2 DEF Owned
  <2>3. CASE kind # "api"
    BY <1>1, <1>2, <1>3, <1>6, <2>1, <2>3 DEF Owned, OwnFields, Editor!Only
  <2> QED
    BY <2>2, <2>3
<1>7. /\ Hook(ops)' /\ FreshKeys(ops, tags)' /\ Waits(ops, stored)'
      /\ chosen' \in Editor!KeysOf(ops)' \cup {Editor!NoKey}
      /\ marks' \subseteq 1 .. MaxOfHook /\ tags' \in Nat /\ shifted' \in BOOLEAN
      /\ ~shifted' => Owned(ops, fields, apiRows)'
      /\ FreshRows(apiRows, tags)'
  BY <1>3, <1>5, <1>6 DEF EditorInv, Hook, Numbered, FreshKeys, Waits, Editor!KeysOf, Owned, InPlace,
                    OwnFields, OwnRows
<1> QED
  BY <1>4, <1>5, <1>7 DEF EditorInv

\* A form is saved: what the session keeps is still of the same command.
LEMMA SaveFormKeeps ==
    ASSUME EditorInv, NEW ok \in BOOLEAN, Editor!SaveForm(ok)
    PROVE  EditorInv'
<1> DEFINE k == Editor!Current
           form == Editor!Form
           saved == [ops EXCEPT ![k].content = form]
           kept == IF ok /\ ops[k].content.kind = "api" THEN Editor!Without(apiRows, chosen) ELSE apiRows
<1>1. /\ k \in DOMAIN ops /\ chosen = Editor!Key(ops[k]) /\ form \in Value
      /\ ~shifted => /\ form.tag \in {0, ops[k].content.tag}
                     /\ ops[k].content.kind = "api" => form.tag = ops[k].content.tag
  BY CurrentFacts DEF Editor!SaveForm
<1>2. /\ Hook(ops) /\ Numbered(ops) /\ Filled(fields) /\ Filled(apiRows) /\ shifted \in BOOLEAN
      /\ tags \in Nat /\ FreshKeys(ops, tags) /\ FreshRows(apiRows, tags) /\ Waits(ops, stored)
      /\ ~shifted => Owned(ops, fields, apiRows)
  BY DEF EditorInv, Hook
<1>3. /\ Editor!Persist(saved, ops, ok) /\ Editor!Draw(ops', chosen, marks, fields, kept) /\ UNCHANGED tags
      /\ shifted' = (shifted \/ (ok /\ form.kind # ops[k].content.kind))
      /\ form # Editor!Blank
  BY DEF Editor!SaveForm
<1>4. DialogOK(dialog')
  BY SeenAgainKeeps DEF Editor!SaveForm
<1>5. /\ Filled(kept) /\ FreshRows(kept, tags)
      /\ \A os : Owned(os, fields, apiRows) => Owned(os, fields, kept)
  BY <1>2, WithoutKeeps
<1>6. /\ Numbered(saved) /\ DOMAIN saved = DOMAIN ops
      /\ saved[k].content = form /\ saved[k].order = ops[k].order /\ saved[k].key = ops[k].key
      /\ \A j \in DOMAIN ops : j # k => saved[j] = ops[j]
  <2>1. ops[k] \in Op /\ [ops[k] EXCEPT !.content = form] \in Op
    BY <1>1, <1>2, OpType DEF Op
  <2>2. saved = [ops EXCEPT ![k] = [ops[k] EXCEPT !.content = form]]
    OBVIOUS
  <2>3. saved \in Seq(Op) /\ Len(saved) = Len(ops) /\ DOMAIN saved = DOMAIN ops
    BY <1>1, <1>2, <2>1, <2>2 DEF Numbered
  <2>4. /\ saved[k].content = form /\ saved[k].order = ops[k].order /\ saved[k].key = ops[k].key
        /\ \A j \in DOMAIN ops : j # k => saved[j] = ops[j]
    BY <1>1, <2>1, <2>2 DEF Op
  <2>5. \A j \in DOMAIN ops : saved[j].order = ops[j].order
    BY <2>4
  <2> QED
    BY <1>2, <2>3, <2>4, <2>5 DEF Numbered
<1>7. ASSUME ~shifted, form.kind = ops[k].content.kind
      PROVE  Owned(saved, fields, apiRows)
  <2>1. Owned(ops, fields, apiRows) /\ k \in DOMAIN saved
    BY <1>1, <1>2, <1>6, <1>7
  <2>2. ASSUME NEW x \in DOMAIN fields, x = <<ops[k].content.kind, k>>
        PROVE  fields[x].tag \in {0, form.tag}
    <3>1. \/ form = ops[k].content \/ ops[k].content.kind = "api"
          \/ <<ops[k].content.kind, k>> \notin DOMAIN fields
          \/ form = fields[<<ops[k].content.kind, k>>]
      BY <1>3 DEF Editor!Form, Editor!Shown, Editor!FieldKey
    <3>2. fields[x].tag \in {0, ops[k].content.tag}
      BY <1>1, <2>1, <2>2 DEF Owned, OwnFields
    <3> QED
      BY <1>1, <1>7, <2>2, <3>1, <3>2
  <2>3. \A j \in DOMAIN saved : /\ saved[j].order = j /\ saved[j].key = ops[j].key
                               /\ saved[j].content.kind = ops[j].content.kind
    BY <1>6, <1>7, <2>1 DEF Owned, InPlace
  <2> HIDE DEF saved, form, k
  <2>4. InPlace(saved)
    BY <1>6, <2>1, <2>3 DEF Owned, InPlace
  <2>5. OwnFields(saved, fields)
    <3> SUFFICES ASSUME NEW x \in DOMAIN fields
                 PROVE  \E j \in DOMAIN saved :
                            x = <<saved[j].content.kind, j>> /\ fields[x].tag \in {0, saved[j].content.tag}
      BY DEF OwnFields
    <3>1. PICK j \in DOMAIN ops : x = <<ops[j].content.kind, j>> /\ fields[x].tag \in {0, ops[j].content.tag}
      BY <2>1 DEF Owned, OwnFields
    <3> QED
      BY <1>6, <2>2, <2>3, <3>1
  <2>6. OwnRows(saved, apiRows)
    <3>1. ASSUME NEW j \in DOMAIN saved, saved[j].content.kind = "api",
                 NEW x \in {saved[j].key, <<j, "api">>}, x \in DOMAIN apiRows
          PROVE  apiRows[x].tag = saved[j].content.tag
      <4>1. apiRows[x].tag = ops[j].content.tag
        <5>1. j \in DOMAIN ops /\ ops[j].content.kind = "api" /\ x \in {ops[j].key, <<j, "api">>}
          BY <1>6, <2>3, <3>1
        <5> QED
          BY <2>1, <3>1, <5>1 DEF Owned, OwnRows
      <4>2. saved[j].content.tag = ops[j].content.tag
        BY <1>1, <1>6, <1>7, <2>3, <3>1
      <4> QED
        BY <4>1, <4>2
    <3>2. ASSUME NEW n \in Nat, <<n, "api">> \in DOMAIN apiRows
          PROVE  n \in DOMAIN saved /\ saved[n].content.kind = "api"
      <4>1. n \in DOMAIN ops /\ ops[n].content.kind = "api"
        BY <2>1, <3>2 DEF Owned, OwnRows
      <4> QED
        BY <1>6, <2>3, <4>1
    <3> QED
      BY <3>1, <3>2 DEF OwnRows
  <2> QED
    BY <2>4, <2>5, <2>6 DEF Owned
<1>8. /\ Hook(ops') /\ FreshKeys(ops', tags) /\ Waits(ops', stored')
      /\ ok => ops' = Editor!Reloaded(saved)
      /\ ~ok => ops' = ops
  BY <1>2, <1>3, <1>6, PersistKeeps
<1> HIDE DEF saved, form, k
<1>9. ~shifted' => Owned(ops', fields, apiRows)
  BY <1>2, <1>3, <1>6, <1>7, <1>8, ReloadedIsAHook
<1>10. shifted' \in BOOLEAN
  BY <1>2, <1>3
<1> HIDE DEF kept
<1>11. ~shifted' => Owned(ops', fields, kept)
  BY <1>5, <1>9
<1> QED
  BY <1>2, <1>3, <1>4, <1>5, <1>8, <1>10, <1>11, DrawnKeeps

LEMMA DeleteSelectedKeeps ==
    ASSUME EditorInv, NEW ok \in BOOLEAN, Editor!DeleteSelected(ok)
    PROVE  EditorInv'
<1> DEFINE left == Editor!RemoveAt(ops, Editor!Current)
<1>1. /\ Hook(ops) /\ Filled(fields) /\ Filled(apiRows) /\ shifted \in BOOLEAN /\ tags \in Nat
      /\ FreshKeys(ops, tags) /\ FreshRows(apiRows, tags) /\ Waits(ops, stored)
      /\ ~shifted => Owned(ops, fields, apiRows)
  BY DEF EditorInv
<1>2. /\ Editor!Persist(left, ops, ok) /\ shifted' = (shifted \/ ok) /\ UNCHANGED tags /\ Editor!SeenAgain
      /\ Editor!Draw(ops', Editor!Fallback(left, Editor!Current), marks, fields, apiRows)
  BY DEF Editor!DeleteSelected
<1>3. Numbered(left)
  BY <1>1, CurrentFacts, RemovedIsNumbered DEF Editor!DeleteSelected
<1> HIDE DEF left
<1>4. /\ Hook(ops') /\ FreshKeys(ops', tags) /\ Waits(ops', stored')
      /\ ~ok => ops' = ops
  BY <1>1, <1>2, <1>3, PersistKeeps
<1>5. ~shifted' => Owned(ops', fields, apiRows)
  BY <1>1, <1>2, <1>4
<1> QED
  BY <1>1, <1>2, <1>4, <1>5, DrawnKeeps, SeenAgainKeeps

\* A command is added: it stays in the draft when it is refused.
LEMMA AddCommandKeeps ==
    ASSUME EditorInv, NEW kind \in Editor!Kinds, NEW ok \in BOOLEAN, Editor!AddCommand(kind, ok)
    PROVE  EditorInv'
<1> DEFINE n == Len(ops)
           value == Editor!Content(tags, 1, kind)
           added == [order |-> 0, key |-> Editor!NewKey(tags), content |-> value]
           longer == Append(ops, added)
           more == Editor!Resequenced(longer)
<1>1. /\ Hook(ops) /\ Numbered(ops) /\ Filled(fields) /\ Filled(apiRows) /\ shifted \in BOOLEAN
      /\ tags \in Nat /\ FreshKeys(ops, tags) /\ FreshRows(apiRows, tags) /\ Waits(ops, stored)
      /\ ~shifted => Owned(ops, fields, apiRows)
  BY DEF EditorInv, Hook
<1>2. /\ Editor!Persist(more, more, ok) /\ tags' = tags + 1
      /\ shifted' = (shifted \/ \E k \in DOMAIN ops : ops'[k].order # ops[k].order)
      /\ n < MaxOfHook
  BY DEF Editor!AddCommand, Editor!Appended, Editor!Content
<1>3. /\ value \in Value /\ value.tag = tags /\ value.kind = kind
      /\ added \in Raw
  <2>1. value \in Value /\ Editor!NewKey(tags) \in OpKeys
    BY <1>1 DEF Editor!Content, Value, Editor!NewKey, OpKeys
  <2> QED
    BY <2>1 DEF Raw, Editor!Content
<1>4. /\ ops \in Seq(Raw) /\ n \in Nat /\ DOMAIN ops = 1 .. n
      /\ \A k \in 1 .. n : ops[k] = [order |-> ops[k].order, key |-> ops[k].key, content |-> ops[k].content]
  <2>1. ops \in Seq(Op) /\ ops \in Seq(Raw)
    BY <1>1, OpsAreRaw DEF Numbered
  <2>2. n \in Nat /\ DOMAIN ops = 1 .. n /\ \A k \in 1 .. n : ops[k] \in Op
    BY <2>1
  <2>3. \A k \in 1 .. n : ops[k] = [order |-> ops[k].order, key |-> ops[k].key, content |-> ops[k].content]
    BY <2>2 DEF Op
  <2> QED
    BY <2>1, <2>2, <2>3
<1> DEFINE Added == added.key = Editor!NewKey(tags) /\ added.content = value
<1>a. Added
  OBVIOUS
<1> HIDE DEF added
<1>5. /\ longer \in Seq(Raw) /\ Len(longer) = n + 1
      /\ \A k \in 1 .. n : longer[k] = ops[k]
      /\ longer[n + 1] = added
  BY <1>3, <1>4
<1>6. Len(longer) <= MaxOfHook /\ DOMAIN longer = 1 .. n + 1
  BY <1>2, <1>4, <1>5, EditorConstants
<1> HIDE DEF longer
<1>7. /\ Numbered(more) /\ DOMAIN more = 1 .. n + 1
      /\ \A k \in 1 .. n + 1 : more[k] = [order |-> k, key |-> longer[k].key, content |-> longer[k].content]
  BY <1>5, <1>6, ResequencedIsNumbered
<1> HIDE DEF more, value
<1>8. /\ \A k \in 1 .. n : more[k].order = k /\ more[k].key = ops[k].key /\ more[k].content = ops[k].content
      /\ more[n + 1].order = n + 1 /\ more[n + 1].key = Editor!NewKey(tags)
      /\ more[n + 1].content = value
      /\ n + 1 \in Nat /\ n + 1 \notin 1 .. n /\ 1 .. n + 1 = (1 .. n) \cup {n + 1}
  <2>1. n + 1 \in Nat /\ n + 1 \notin 1 .. n /\ 1 .. n + 1 = (1 .. n) \cup {n + 1}
    BY <1>4
  <2>2. ASSUME NEW k \in 1 .. n
        PROVE  more[k].order = k /\ more[k].key = ops[k].key /\ more[k].content = ops[k].content
    <3>1. more[k] = [order |-> k, key |-> longer[k].key, content |-> longer[k].content]
      BY <1>7, <2>1
    <3> QED
      BY <1>5, <3>1
  <2>3. /\ more[n + 1].order = n + 1 /\ more[n + 1].key = Editor!NewKey(tags)
        /\ more[n + 1].content = value
    <3>1. more[n + 1] = [order |-> n + 1, key |-> longer[n + 1].key, content |-> longer[n + 1].content]
      BY <1>7, <2>1
    <3> QED
      BY <1>5, <1>a, <3>1
  <2> QED
    BY <2>1, <2>2, <2>3
<1>9. ASSUME NEW j \in DOMAIN more, NEW k \in DOMAIN more, more[j].key = more[k].key
      PROVE  j = k
  <2>1. \A i \in 1 .. n : ops[i].key # Editor!NewKey(tags)
    BY <1>1, <1>4 DEF FreshKeys
  <2> QED
    BY <1>1, <1>4, <1>7, <1>8, <1>9, <2>1 DEF Hook
<1>10. Hook(more)
  BY <1>7, <1>9 DEF Hook
<1>11. FreshKeys(more, tags + 1) /\ FreshRows(apiRows, tags + 1)
  <2>1. \A t \in Nat : Editor!NewKey(t) = Editor!NewKey(tags) => t = tags
    BY DEF Editor!NewKey
  <2>2. \A t \in Nat : t < tags => t < tags + 1
    BY <1>1
  <2>3. tags < tags + 1
    BY <1>1
  <2>4. ASSUME NEW k \in DOMAIN more, NEW t \in Nat, more[k].key = Editor!NewKey(t)
        PROVE  t < tags + 1
    <3>1. CASE k \in 1 .. n
      BY <1>1, <1>4, <1>8, <2>2, <2>4, <3>1 DEF FreshKeys
    <3>2. CASE k = n + 1
      BY <1>8, <2>1, <2>3, <2>4, <3>2
    <3> QED
      BY <1>7, <1>8, <3>1, <3>2
  <2> QED
    BY <1>1, <2>2, <2>4 DEF FreshKeys, FreshRows
<1>12. Waits(more, stored)
  <2>1. \A k \in DOMAIN stored : k \in 1 .. n /\ ops[k].content = stored[k]
    BY <1>1, <1>4 DEF Waits
  <2>2. \A k \in 1 .. n : k \notin DOMAIN stored => ops[k].key = Editor!NewKey(ops[k].content.tag)
    BY <1>1, <1>4 DEF Waits
  <2> QED
    BY <1>3, <1>7, <1>8, <2>1, <2>2 DEF Waits
<1>13. /\ Hook(ops') /\ FreshKeys(ops', tags') /\ Waits(ops', stored')
       /\ ok => ops' = Editor!Reloaded(more)
       /\ ~ok => ops' = more
  BY <1>2, <1>7, <1>10, <1>11, <1>12, PersistKeeps
<1>14. ASSUME ~shifted PROVE Owned(more, fields, apiRows)
  <2>1. Owned(ops, fields, apiRows)
    BY <1>1, <1>14
  <2>2. InPlace(more)
    BY <1>1, <1>4, <1>7, <1>8, <2>1 DEF Owned, InPlace
  <2>3. OwnFields(more, fields)
    BY <1>4, <1>7, <1>8, <2>1 DEF Owned, OwnFields
  <2>4. Editor!NewKey(tags) \notin DOMAIN apiRows /\ <<n + 1, "api">> \notin DOMAIN apiRows
    <3>1. Editor!NewKey(tags) \notin DOMAIN apiRows
      BY <1>1 DEF FreshRows
    <3>2. <<n + 1, "api">> \notin DOMAIN apiRows
      BY <1>4, <1>8, <2>1 DEF Owned, OwnRows
    <3> QED
      BY <3>1, <3>2
  <2>5. OwnRows(more, apiRows)
    BY <1>4, <1>7, <1>8, <2>1, <2>4 DEF Owned, OwnRows
  <2> QED
    BY <2>2, <2>3, <2>5 DEF Owned
<1>15. ~shifted' => Owned(ops', fields, apiRows)
  BY <1>1, <1>2, <1>7, <1>13, <1>14, ReloadedIsAHook
<1>16. shifted' \in BOOLEAN /\ tags' \in Nat /\ FreshRows(apiRows, tags')
  BY <1>1, <1>2, <1>11
<1>17. CASE ok
  <2>1. Editor!Draw(ops', chosen, marks, fields, apiRows) /\ Editor!SeenAgain
    BY <1>17 DEF Editor!AddCommand
  <2> QED
    BY <1>1, <1>13, <1>15, <1>16, <2>1, DrawnKeeps, SeenAgainKeeps
<1>18. CASE ~ok
  <2>1. UNCHANGED <<chosen, marks, fields, apiRows, dialog>>
    BY <1>18 DEF Editor!AddCommand, Editor!session
  <2>2. chosen \in Editor!KeysOf(more) \cup {Editor!NoKey}
    BY <1>4, <1>7, <1>8 DEF EditorInv, Editor!KeysOf, Editor!Key
  <2>3. ops' = more
    BY <1>13, <1>18
  <2>4. chosen' \in Editor!KeysOf(ops)' \cup {Editor!NoKey}
    BY <2>1, <2>2, <2>3 DEF Editor!KeysOf
  <2>5. /\ marks' \subseteq 1 .. MaxOfHook /\ (\A x, y \in DOMAIN fields' : x = y)
        /\ Filled(fields') /\ Filled(apiRows') /\ DialogOK(dialog')
        /\ FreshRows(apiRows', tags') /\ (~shifted' => Owned(ops', fields', apiRows'))
    BY <1>15, <1>16, <2>1 DEF EditorInv
  <2>6. /\ Hook(ops)' /\ FreshKeys(ops, tags)' /\ Waits(ops, stored)' /\ FreshRows(apiRows, tags)'
        /\ (~shifted => Owned(ops, fields, apiRows))'
    BY <1>13, <2>5
  <2> QED
    BY <1>16, <2>4, <2>5, <2>6 DEF EditorInv
<1> QED
  BY <1>17, <1>18

\* The reorder dialog.
LEMMA ReorderKeeps ==
    ASSUME EditorInv,
           \/ \E ok \in BOOLEAN : Editor!SaveReorder(ok)
           \/ \E k \in DOMAIN dialog.copy : Editor!SwapInDialog(k)
           \/ Editor!DismissReorder
    PROVE  EditorInv'
<1>1. /\ Hook(ops) /\ Filled(fields) /\ Filled(apiRows) /\ shifted \in BOOLEAN /\ tags \in Nat
      /\ FreshKeys(ops, tags) /\ FreshRows(apiRows, tags) /\ Waits(ops, stored)
      /\ ~shifted => Owned(ops, fields, apiRows)
      /\ DialogOK(dialog)
  BY DEF EditorInv
<1>2. /\ dialog \in [open : BOOLEAN, seen : BOOLEAN, copy : Seq(Op)] /\ dialog.copy \in Seq(Op)
      /\ Len(dialog.copy) <= MaxOfHook
  BY <1>1 DEF DialogOK
<1>3. ASSUME NEW ok \in BOOLEAN, Editor!SaveReorder(ok) PROVE EditorInv'
  <2> DEFINE new == Editor!Resequenced(dialog.copy)
  <2>1. /\ Editor!Persist(new, ops, ok) /\ shifted' = (shifted \/ ok) /\ UNCHANGED tags
        /\ Editor!Draw(ops', chosen, marks, fields, apiRows)
        /\ dialog' = IF ok THEN Editor!Closed ELSE dialog
    BY <1>3 DEF Editor!SaveReorder
  <2>2. Numbered(new)
    <3>1. dialog.copy \in Seq(Raw)
      BY <1>2, OpsAreRaw
    <3> QED
      BY <1>2, <3>1, ResequencedIsNumbered
  <2>3. DialogOK(dialog')
    BY <1>1, <2>1, EditorConstants DEF DialogOK, Editor!Closed
  <2> HIDE DEF new
  <2>4. /\ Hook(ops') /\ FreshKeys(ops', tags) /\ Waits(ops', stored')
        /\ ~ok => ops' = ops
    BY <1>1, <2>1, <2>2, PersistKeeps
  <2>5. ~shifted' => Owned(ops', fields, apiRows)
    BY <1>1, <2>1, <2>4
  <2> QED
    BY <1>1, <2>1, <2>3, <2>4, <2>5, DrawnKeeps
<1>4. ASSUME DialogOK(dialog'), UNCHANGED <<ops, stored, chosen, marks, fields, apiRows, tags, shifted>>
      PROVE  EditorInv'
  BY <1>4 DEF EditorInv, Hook, Numbered, FreshKeys, FreshRows, Waits, Owned, InPlace, OwnFields, OwnRows,
              Editor!KeysOf, Filled
<1>5. ASSUME NEW k \in DOMAIN dialog.copy, Editor!SwapInDialog(k) PROVE EditorInv'
  <2> DEFINE swapped == [dialog.copy EXCEPT ![k] = dialog.copy[k + 1], ![k + 1] = dialog.copy[k]]
  <2>1. swapped \in Seq(Op) /\ Len(swapped) = Len(dialog.copy)
    <3> DEFINE copy == dialog.copy
    <3>1. copy \in Seq(Op) /\ k \in DOMAIN copy /\ k + 1 \in DOMAIN copy
      BY <1>2, <1>5 DEF Editor!SwapInDialog
    <3> HIDE DEF copy
    <3>2. copy[k] \in Op /\ copy[k + 1] \in Op
      BY <3>1
    <3>3. [copy EXCEPT ![k] = copy[k + 1], ![k + 1] = copy[k]] \in Seq(Op)
      BY <3>1, <3>2
    <3>4. Len([copy EXCEPT ![k] = copy[k + 1], ![k + 1] = copy[k]]) = Len(copy)
      BY <3>1, <3>2
    <3> QED
      BY <3>3, <3>4 DEF copy
  <2>2. dialog' = [dialog EXCEPT !.copy = swapped]
    BY <1>2, <1>5 DEF Editor!SwapInDialog
  <2> HIDE DEF swapped
  <2>3. DialogOK(dialog')
    BY <1>1, <2>1, <2>2 DEF DialogOK
  <2> QED
    BY <1>4, <1>5, <2>3 DEF Editor!SwapInDialog, Editor!session
<1>6. CASE Editor!DismissReorder
  <2>1. DialogOK(dialog')
    BY <1>1, <1>6 DEF DialogOK, Editor!DismissReorder
  <2> QED
    BY <1>4, <1>6, <2>1 DEF Editor!DismissReorder, Editor!session
<1> QED
  BY <1>3, <1>5, <1>6

\* Every click keeps the editor's invariant.
LEMMA EditorStep ==
    ASSUME EditorInv, Editor!Next \/ UNCHANGED ofEditor
    PROVE  EditorInv'
<1>1. CASE UNCHANGED ofEditor
  BY <1>1 DEF ofEditor, EditorInv, Hook, Numbered, FreshKeys, FreshRows, Waits, Owned, InPlace,
              OwnFields, OwnRows, Filled, DialogOK, Editor!KeysOf
<1>2. CASE Editor!Next
  BY <1>2, LooksKeep, TypeKeeps, SaveFormKeeps, DeleteSelectedKeeps, AddCommandKeeps, ReorderKeeps
     DEF Editor!Next
<1> QED
  BY <1>1, <1>2

LEMMA EditorIsRight ==
    ASSUME EditorInv
    PROVE  /\ Editor!TypeOK /\ Editor!KeysDiffer /\ Editor!ForeignOnlyAfterShift
           /\ Editor!OnlyAdditionsWait
<1>1. Editor!TypeOK
  BY OpType DEF EditorInv, Editor!TypeOK, DialogOK, Hook
<1>2. Editor!KeysDiffer
  BY KeysAreApart DEF EditorInv, Editor!KeysDiffer
<1>3. Editor!ForeignOnlyAfterShift
  BY CurrentFacts DEF Editor!ForeignOnlyAfterShift
<1>4. Editor!OnlyAdditionsWait
  BY DEF EditorInv, Waits, Editor!OnlyAdditionsWait
<1> QED
  BY <1>1, <1>2, <1>3, <1>4

-----------------------------------------------------------------------------
(* The inductive invariant: that of the part that is followed.             *)

SharedInv ==
    /\ part = "registry" => RegistryInv
    /\ part = "tables" => TablesInv
    /\ part = "page" => PageInv
    /\ part = "editor" => EditorInv

LEMMA SharedStep ==
    ASSUME SharedInv, [Next]_vars
    PROVE  SharedInv'
<1>1. part' = part
  BY DEF Next, OfRegistry, OfTables, OfPage, OfEditor, vars
<1>2. CASE part = "registry"
  <2>1. Registry!Next \/ UNCHANGED ofRegistry
    BY <1>2 DEF Next, OfRegistry, OfTables, OfPage, OfEditor, vars
  <2> QED
    BY <1>1, <1>2, <2>1, RegistryStep DEF SharedInv
<1>3. CASE part = "tables"
  <2>1. Writers!Next \/ UNCHANGED ofTables
    BY <1>3 DEF Next, OfRegistry, OfTables, OfPage, OfEditor, vars
  <2> QED
    BY <1>1, <1>3, <2>1, TablesStep DEF SharedInv
<1>4. CASE part = "page"
  <2>1. Page!Next \/ UNCHANGED ofPage
    BY <1>4 DEF Next, OfRegistry, OfTables, OfPage, OfEditor, vars
  <2> QED
    BY <1>1, <1>4, <2>1, PageStep DEF SharedInv
<1>5. CASE part = "editor"
  <2>1. Editor!Next \/ UNCHANGED ofEditor
    BY <1>5 DEF Next, OfRegistry, OfTables, OfPage, OfEditor, vars
  <2> QED
    BY <1>1, <1>5, <2>1, EditorStep DEF SharedInv
<1> QED
  BY <1>1, <1>2, <1>3, <1>4, <1>5 DEF SharedInv

\* Whatever part is followed, its invariant holds and goes on to hold.
THEOREM InductiveInvariant == Spec => []SharedInv
<1>1. Init => SharedInv
  BY RegistryInit, TablesInit, PageInit, EditorInit DEF Init, SharedInv
<1>2. SharedInv /\ [Next]_vars => SharedInv'
  BY SharedStep
<1> QED
  BY <1>1, <1>2, PTL DEF Spec

\* mock_server_runtime_registry.py and mock_server_runtime.py: an endpoint leads
\* to a server registered with it, an active server is reached at the endpoint of
\* its row unless its last handler stopped halfway (mock_server_api.py deletes the
\* row after the stop and writes is_active again after a failed start), and every
\* listener at work is of the list that the next stop_server goes through.
THEOREM RegistryIsRight == Spec => []RegistryFollowsTable
<1>1. SharedInv => RegistryFollowsTable
  BY DEF SharedInv, RegistryInv, RegistryFollowsTable
<1> QED
  BY <1>1, InductiveInvariant, PTL

\* database_datasources/services/state_service.py: a preview that is kept is of
\* the dataset as it is, and nothing points to a dataset that this session
\* deleted; suite_editor_component.py: a key finds one command of a hook, and a
\* form shows its own command until one is deleted, moved or given another editor,
\* and of the edits that were refused only added commands stay in the draft.
THEOREM SessionsAreRight == Spec => []SessionsAreTrue
<1>1. SharedInv => SessionsAreTrue
  BY EditorIsRight DEF SharedInv, PageInv, SessionsAreTrue
<1> QED
  BY <1>1, InductiveInvariant, PTL

\* export_dataset_command_executor.py and its like: a command that succeeds while
\* no other run writes to its table leaves there what its mode says.
THEOREM CommandsDoWhatTheyMean == Spec => []TablesAreAsMeant
<1>1. SharedInv => TablesAreAsMeant
  BY TablesAreRight DEF SharedInv, TablesAreAsMeant
<1> QED
  BY <1>1, InductiveInvariant, PTL

\* export_dataset_command_executor.py: the INSERT is committed before the DELETEs
\* are, so that no step of an append or an insert-update, and no failure and no
\* other run, takes the last row of a key away.
THEOREM NothingGetsLost == Spec => NothingIsLost
<1> DEFINE Lossless == part = "tables" => Writers!KeysSurvive
<1>1. SharedInv /\ [Next]_vars => [Lossless]_vars
  <2> SUFFICES ASSUME SharedInv, Next, part = "tables" PROVE Writers!KeysSurvive
    OBVIOUS
  <2>1. Writers!Next
    BY DEF Next, OfRegistry, OfTables, OfPage, OfEditor
  <2> QED
    BY <2>1, NoStepLosesKeys DEF SharedInv
<1> QED
  BY <1>1, InductiveInvariant, PTL DEF Spec, NothingIsLost

=============================================================================
