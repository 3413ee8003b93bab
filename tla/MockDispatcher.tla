---------------------------- MODULE MockDispatcher ----------------------------
(***************************************************************************)
(* How a request to /mock/<endpoint>/<path> is answered                    *)
(* (mock_servers/services/runtime/mock_runtime_dispatcher.py): the routes  *)
(* as the loader sorts them, the choice of a route, the commands before    *)
(* and after the response.  The dispatch of a request does not await; the  *)
(* commands after the response are a background task, and the server can   *)
(* be reloaded with other routes before it runs.                           *)
(*                                                                         *)
(* JSON bodies are modelled as values tagged with their kind; a string is  *)
(* given by its length in a one-letter alphabet, so that one contains      *)
(* another when it is at least as long.                                    *)
(***************************************************************************)
EXTENDS Integers, Sequences, FiniteSets, SequencesExt

CONSTANTS Routes,       \* route rows a configuration can hold, as records
          Requests,     \* requests, as records
          Values,       \* JSON values the bodies range over
          Loads,        \* bound on the times the server is (re)loaded
          WithTenant    \* the request carries a tenant to store under

VARIABLES rows,      \* the API rows of the server in the database
          apis,      \* the routes of the running server, in their order
          loads,     \* times loaded
          calls      \* the requests made: route taken, progress, trace

vars == <<rows, apis, loads, calls>>

----------------------------------------------------------------------------
RECURSIVE JsonContains_AnyItem(_, _)
JsonContains_AnyItem(expected, actual) ==
    CASE expected.kind = "dict" ->
            /\ actual.kind = "dict"
            /\ \A k \in DOMAIN expected.map :
                   k \in DOMAIN actual.map
                   /\ JsonContains_AnyItem(expected.map[k], actual.map[k])
      [] expected.kind = "list" ->
            /\ actual.kind = "list"
            /\ \E i \in DOMAIN expected.items, j \in DOMAIN actual.items :
                   JsonContains_AnyItem(expected.items[i], actual.items[j])
      [] expected.kind = "str" ->
            actual.kind = "str" /\ expected.length <= actual.length
      [] OTHER -> expected = actual

(* _contains: dictionaries by key, lists by member, strings by substring.  *)
RECURSIVE JsonContains(_, _)
JsonContains(expected, actual) ==
    CASE expected.kind = "dict" ->
            /\ actual.kind = "dict"
            /\ \A k \in DOMAIN expected.map :
                   k \in DOMAIN actual.map
                   /\ JsonContains(expected.map[k], actual.map[k])
      [] expected.kind = "list" ->
            /\ actual.kind = "list"
            /\ \A i \in DOMAIN expected.items :
                   \E j \in DOMAIN actual.items :
                       JsonContains(expected.items[i], actual.items[j])
      [] expected.kind = "str" ->
            actual.kind = "str" /\ expected.length <= actual.length
      [] OTHER -> expected = actual

(* _body_matches; a route without a body, or with the text ANY, takes any. *)
BodyMatches(route, request) ==
    \/ route.body.kind \in {"none", "any"}
    \/ IF route.body_match = "equals" THEN route.body = request.body
                                      ELSE JsonContains(route.body, request.body)

(* _map_matches, for the query parameters and for the headers, whose names *)
(* are lowered on both sides.                                              *)
MapMatches(expected, actual) ==
    \A k \in DOMAIN expected : k \in DOMAIN actual /\ actual[k] = expected[k]

Lower(name) == IF name = "X-Env" THEN "x-env" ELSE name
Lowered(map) == [k \in {Lower(n) : n \in DOMAIN map} |->
                    map[CHOOSE n \in DOMAIN map : Lower(n) = k]]

Matches_CaseSensitive(route, request) ==
    /\ route.target = request.target
    /\ MapMatches(route.params, request.params)
    /\ MapMatches(route.headers, request.headers)
    /\ BodyMatches(route, request)

Matches(route, request) ==
    /\ route.target = request.target
    /\ MapMatches(route.params, request.params)
    /\ MapMatches(Lowered(route.headers), Lowered(request.headers))
    /\ BodyMatches(route, request)

(* _find_matching_api_route: the first that matches, in the loaded order.  *)
NoRoute == 0
FindMatchingRoute(routes, request) ==
    LET found == {i \in DOMAIN routes : Matches(routes[i], request)}
    IN  IF found = {} THEN NoRoute ELSE CHOOSE i \in found : \A j \in found : i <= j

(* load_runtime_server: the routes by priority, then order, then id, and   *)
(* the commands of a route by their order and id.                          *)
Before(r, s) ==
    \/ r.priority < s.priority
    \/ r.priority = s.priority /\ r.order < s.order
    \/ r.priority = s.priority /\ r.order = s.order /\ r.id < s.id

(* Commands of the route after the response: those of its own list when it *)
(* has one, even an empty one, and the rows of the older form otherwise.   *)
PostCommands(route) == IF route.post = "unset" THEN route.legacy ELSE route.post

LoadRuntimeServer(set) == SetToSortSeq(set, Before)

----------------------------------------------------------------------------
Init ==
    /\ rows \in {S \in SUBSET Routes : Cardinality(S) \in 1 .. 2}
    /\ apis = LoadRuntimeServer(rows)
    /\ loads = 0
    /\ calls = <<>>

(* The server is saved with other routes and started again.                *)
Reload(S) ==
    /\ loads < Loads
    /\ rows' = S
    /\ apis' = LoadRuntimeServer(S)
    /\ loads' = loads + 1
    /\ UNCHANGED calls

(* The background task of a request: none when the dispatch raised.        *)
Scheduled(route, outcome) ==
    IF route # NoRoute /\ outcome = "ok" THEN PostCommands(apis[route]) ELSE "empty"

(* dispatch_mock_runtime_request up to the response.  The invocation is    *)
(* stored first; commands before the response raise when one fails, and    *)
(* then there is neither a response nor a background task.                 *)
Answer(request, route, outcome) ==
    [request |-> request, route |-> route,
     status |-> CASE route = NoRoute -> "not found"
                  [] route # NoRoute /\ outcome = "ok" -> "answered"
                  [] OTHER -> "error",
     stored |-> route # NoRoute /\ WithTenant,
     body |-> IF route # NoRoute /\ outcome = "ok"
              THEN apis[route].response ELSE "none",
     post |-> Scheduled(route, outcome),
     owner |-> IF route = NoRoute THEN 0 ELSE apis[route].id]

Outcomes(route) ==
    IF route = NoRoute THEN {"ok"}
    ELSE IF ~WithTenant THEN {"raised"}
    ELSE IF apis[route].pre THEN {"ok", "raised"} ELSE {"ok"}

Dispatch(request, outcome) ==
    LET route == FindMatchingRoute(apis, request)
    IN  /\ Len(calls) < 1
        /\ outcome \in Outcomes(route)
        /\ calls' = Append(calls, Answer(request, route, outcome))
        /\ UNCHANGED <<rows, apis, loads>>

(* The background task runs the commands taken at the dispatch.            *)
RunPost(c) ==
    /\ calls[c].post # "empty"
    /\ calls' = [calls EXCEPT ![c].post = "empty", ![c].stored = TRUE]
    /\ UNCHANGED <<rows, apis, loads>>

Next ==
    \/ \E S \in SUBSET Routes : Cardinality(S) \in 1 .. 2 /\ Reload(S)
    \/ \E request \in Requests, o \in {"ok", "raised"} : Dispatch(request, o)
    \/ \E c \in DOMAIN calls : RunPost(c)

Spec == Init /\ [][Next]_vars

----------------------------------------------------------------------------
(* The route a request takes is the least, by priority, order and id, of   *)
(* those whose target, parameters, headers (in any case) and body accept   *)
(* it, although the loop of the code just takes the first.                 *)
Accepts(route, request) ==
    /\ route.target = request.target
    /\ \A k \in DOMAIN route.params :
           k \in DOMAIN request.params /\ request.params[k] = route.params[k]
    /\ \A h \in DOMAIN route.headers :
           \E g \in DOMAIN request.headers :
               Lower(h) = Lower(g) /\ request.headers[g] = route.headers[h]
    /\ BodyMatches(route, request)

BestRouteTaken ==
    \A request \in Requests :
        LET i == FindMatchingRoute(apis, request)
            ok == {r \in rows : Accepts(r, request)}
        IN  IF i = NoRoute THEN ok = {}
            ELSE apis[i] \in ok
                 /\ \A r \in ok \ {apis[i]} :
                        /\ apis[i].priority <= r.priority
                        /\ apis[i].priority = r.priority => apis[i].order <= r.order
                        /\ apis[i].priority = r.priority /\ apis[i].order = r.order => apis[i].id < r.id

(* A body rule is reflexive and transitive on documents: every document    *)
(* meets its own rule ("equals" implies "contains"), and what contains a   *)
(* document that contains a third also contains the third.                 *)
ContainsIsPreorder ==
    \A c \in DOMAIN calls :
        LET b == calls[c].request.body
        IN  /\ JsonContains(b, b)
            /\ \A x, y \in Values :
                   JsonContains(x, b) /\ JsonContains(b, y) => JsonContains(x, y)

(* "a configurable HTTP stub" (README.md): a request some route accepts    *)
(* gets the response of that route unless a command of the route fails.    *)
MatchedIsAnswered ==
    \A c \in DOMAIN calls :
        calls[c].route # NoRoute /\ calls[c].status # "answered" =>
            \E r \in Routes : r.id = calls[c].owner /\ r.pre
=============================================================================
