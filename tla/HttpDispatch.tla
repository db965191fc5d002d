---------------------------- MODULE HttpDispatch ----------------------------
(***************************************************************************)
(* HttpServletDispatch (src/net/http/http_servlet.cpp): the routes of an   *)
(* HTTP server.  Every operation holds route_mtx_ throughout, so each is   *)
(* one step, whichever thread calls it; handle() runs the servlet it found *)
(* after it has let go of the lock.                                        *)
(*                                                                         *)
(* A vector of routes is appended to with growing ids and erased from in   *)
(* place, so it is in the order of its ids and is modelled by the set of   *)
(* its routes.                                                             *)
(***************************************************************************)
EXTENDS Routes

VARIABLES
    exactRoutes,        \* exact_routes_: from patterns to their vectors
    dynamicRoutes,      \* dynamic_routes_
    nextId,             \* next_route_id_
    answer              \* what the last call returned

vars == <<exactRoutes, dynamicRoutes, nextId, answer>>

Init ==
    /\ exactRoutes = [p \in {} |-> {}]
    /\ dynamicRoutes = {}
    /\ nextId = 1
    /\ answer = NotFound

-----------------------------------------------------------------------------

\* hasMethodConflict.
HasMethodConflict(routes, methods) == \E r \in routes : r.methods \cap methods # {}

\* exact_routes_.find(pattern), an absent vector read as an empty one.
ExactAt(pattern) == IF pattern \in DOMAIN exactRoutes THEN exactRoutes[pattern] ELSE {}

\* addRoute.  With the lookup for an exact pattern its vector is made; when that
\* was new there is nothing for it to be in conflict with.  No methods stand for
\* all invalid arguments: a bad mask, an empty pattern or one that makes no
\* matcher, no servlet.
AddRoute(pattern, methods) ==
    LET r == [id |-> nextId, pattern |-> pattern, methods |-> methods]
        same == IF pattern \in Exacts THEN ExactAt(pattern)
                ELSE {d \in dynamicRoutes : d.pattern = pattern}
    IN  IF methods = {}
        THEN answer' = InvalidArgument /\ UNCHANGED <<exactRoutes, dynamicRoutes, nextId>>
        ELSE IF HasMethodConflict(same, methods)
        THEN answer' = Conflict /\ UNCHANGED <<exactRoutes, dynamicRoutes, nextId>>
        ELSE /\ IF pattern \in Exacts
                THEN /\ exactRoutes' = [p \in DOMAIN exactRoutes \cup {pattern} |->
                            IF p = pattern THEN same \cup {r} ELSE exactRoutes[p]]
                     /\ UNCHANGED dynamicRoutes
                ELSE dynamicRoutes' = dynamicRoutes \cup {r} /\ UNCHANGED exactRoutes
             /\ nextId' = nextId + 1
             /\ answer' = Ok(nextId)

\* Routes erased from the vector of an exact pattern, which goes when it is empty.
EraseExact(pattern, routes) ==
    LET emptied == {p \in {pattern} : exactRoutes[p] \subseteq routes}
    IN  [p \in DOMAIN exactRoutes \ emptied |->
            IF p = pattern THEN exactRoutes[p] \ routes ELSE exactRoutes[p]]

\* removeRoute(route_id): in one of the vectors of exact_routes_, or else in
\* dynamic_routes_, or else nowhere.
RemoveRouteById(id) ==
    /\ \/ \E p \in DOMAIN exactRoutes : \E r \in exactRoutes[p] :
            /\ r.id = id
            /\ exactRoutes' = EraseExact(p, {r})
            /\ answer' = Removed({r})
            /\ UNCHANGED dynamicRoutes
       \/ /\ \A p \in DOMAIN exactRoutes : \A r \in exactRoutes[p] : r.id # id
          /\ dynamicRoutes' = {d \in dynamicRoutes : d.id # id}
          /\ answer' = Removed({d \in dynamicRoutes : d.id = id})
          /\ UNCHANGED exactRoutes
    /\ UNCHANGED nextId

\* removeRoute(pattern, methods): the very mask, in both containers.
RemoveRouteByMethods(pattern, methods) ==
    LET exact == {r \in ExactAt(pattern) : r.methods = methods}
        dynamic == {d \in dynamicRoutes : d.pattern = pattern /\ d.methods = methods}
    IN  /\ exactRoutes' = IF pattern \in DOMAIN exactRoutes
                          THEN EraseExact(pattern, exact) ELSE exactRoutes
        /\ dynamicRoutes' = dynamicRoutes \ dynamic
        /\ answer' = Removed(exact \cup dynamic)
        /\ UNCHANGED nextId

\* removeRoute(pattern).
RemoveRouteByPattern(pattern) ==
    LET dynamic == {d \in dynamicRoutes : d.pattern = pattern}
    IN  /\ exactRoutes' = [p \in DOMAIN exactRoutes \ {pattern} |-> exactRoutes[p]]
        /\ dynamicRoutes' = dynamicRoutes \ dynamic
        /\ answer' = Removed(ExactAt(pattern) \cup dynamic)
        /\ UNCHANGED nextId

\* match: a vector found under the path decides, whatever is in it.
Match(path, method) ==
    IF path \in DOMAIN exactRoutes
    THEN IF Allowing(exactRoutes[path], method) # {}
         THEN Found(First(Allowing(exactRoutes[path], method)))
         ELSE NotAllowed(MethodsOf(exactRoutes[path]))
    ELSE Choose({d \in dynamicRoutes : MatchPath(d.pattern, path)}, method)

\* handle, up to the servlet's own work.
Handle(path, method) ==
    /\ answer' = Match(path, method)
    /\ UNCHANGED <<exactRoutes, dynamicRoutes, nextId>>

\* getRoute: looked for as removeRoute(route_id) does.
GetRoute(id) ==
    /\ \/ \E p \in DOMAIN exactRoutes : \E r \in exactRoutes[p] :
            r.id = id /\ answer' = Listed({r})
       \/ /\ \A p \in DOMAIN exactRoutes : \A r \in exactRoutes[p] : r.id # id
          /\ answer' = Listed({d \in dynamicRoutes : d.id = id})
    /\ UNCHANGED <<exactRoutes, dynamicRoutes, nextId>>

\* listRoutes(), and listRoutes(pattern).
ListRoutes ==
    /\ answer' = Listed((UNION {exactRoutes[p] : p \in DOMAIN exactRoutes}) \cup dynamicRoutes)
    /\ UNCHANGED <<exactRoutes, dynamicRoutes, nextId>>

ListRoutesOf(pattern) ==
    /\ answer' = Listed(ExactAt(pattern) \cup {d \in dynamicRoutes : d.pattern = pattern})
    /\ UNCHANGED <<exactRoutes, dynamicRoutes, nextId>>

Next ==
    \/ \E p \in Strings, ms \in SUBSET Methods : AddRoute(p, ms) \/ RemoveRouteByMethods(p, ms)
    \/ \E p \in Strings : RemoveRouteByPattern(p) \/ ListRoutesOf(p)
    \/ \E i \in Nat : RemoveRouteById(i) \/ GetRoute(i)
    \/ ListRoutes
    \/ \E x \in Strings, m \in RequestMethods : Handle(x, m)

Spec == Init /\ [][Next]_vars

-----------------------------------------------------------------------------
(* Properties.                                                             *)

Table == dynamicRoutes \cup UNION {exactRoutes[p] : p \in DOMAIN exactRoutes}

DispatchTypeOK ==
    /\ DOMAIN exactRoutes \subseteq Exacts
    /\ \A p \in DOMAIN exactRoutes : \A r \in exactRoutes[p] : r \in Route /\ r.pattern = p
    /\ \A r \in dynamicRoutes : r \in Route /\ r.pattern \in Dynamics
    /\ nextId \in Nat

\* A pattern without routes leaves no vector behind: match would answer 405 for
\* its path, with an empty Allow, and hide the dynamic routes.
NoEmptyVector == \A p \in DOMAIN exactRoutes : exactRoutes[p] # {}

\* An id names one route, for removeRoute and getRoute.
IdsAreUnique ==
    /\ \A r \in Table : r.id < nextId
    /\ \A r, s \in Table : r.id = s.id => r = s

\* Two routes of one pattern share no method (the conflict check of addRoute).
NoMethodTwice ==
    \A r, s \in Table : r.pattern = s.pattern /\ r # s => r.methods \cap s.methods = {}

\* Together they are inductive.
DispatchInv == DispatchTypeOK /\ NoEmptyVector /\ IdsAreUnique /\ NoMethodTwice

\* The two containers with their separate lookups are one table of routes.
AbstractTable == INSTANCE RouteTable WITH table <- Table
ImplementsRouteTable == AbstractTable!Spec
=============================================================================
