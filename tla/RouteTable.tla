----------------------------- MODULE RouteTable -----------------------------
(***************************************************************************)
(* What HttpServletDispatch promises: a table of routes, no two of one     *)
(* pattern with a method in common, in which a request finds the first     *)
(* route in order of registration that matches its path and allows its     *)
(* method; routes for exactly its path hide all the others.                *)
(***************************************************************************)
EXTENDS Routes

VARIABLES
    table,              \* the set of routes
    nextId,             \* the id of the next one
    answer              \* what the last call returned

vars == <<table, nextId, answer>>

Init == table = {} /\ nextId = 1 /\ answer = NotFound

Clashes(pattern, methods) ==
    \E r \in table : r.pattern = pattern /\ r.methods \cap methods # {}

AddRoute(pattern, methods) ==
    IF methods = {}
    THEN answer' = InvalidArgument /\ UNCHANGED <<table, nextId>>
    ELSE IF Clashes(pattern, methods)
    THEN answer' = Conflict /\ UNCHANGED <<table, nextId>>
    ELSE /\ table' = table \cup {[id |-> nextId, pattern |-> pattern, methods |-> methods]}
         /\ nextId' = nextId + 1
         /\ answer' = Ok(nextId)

Remove(routes) ==
    /\ table' = table \ routes
    /\ answer' = Removed(routes)
    /\ UNCHANGED nextId

RemoveById(id) == Remove({r \in table : r.id = id})
RemoveByMethods(pattern, methods) ==
    Remove({r \in table : r.pattern = pattern /\ r.methods = methods})
RemoveByPattern(pattern) == Remove({r \in table : r.pattern = pattern})

\* The routes a path leads to.
Candidates(path) ==
    LET exact == {r \in table : r.pattern \in Exacts /\ r.pattern = path}
    IN  IF exact # {} THEN exact
        ELSE {r \in table : r.pattern \in Dynamics /\ MatchPath(r.pattern, path)}

Handle(path, method) ==
    /\ answer' = Choose(Candidates(path), method)
    /\ UNCHANGED <<table, nextId>>

List(routes) == answer' = Listed(routes) /\ UNCHANGED <<table, nextId>>
GetRoute(id) == List({r \in table : r.id = id})
ListRoutes == List(table)
ListRoutesOf(pattern) == List({r \in table : r.pattern = pattern})

Next ==
    \/ \E p \in Strings, ms \in SUBSET Methods : AddRoute(p, ms) \/ RemoveByMethods(p, ms)
    \/ \E p \in Strings : RemoveByPattern(p) \/ ListRoutesOf(p)
    \/ \E i \in Nat : RemoveById(i) \/ GetRoute(i)
    \/ ListRoutes
    \/ \E x \in Strings, m \in RequestMethods : Handle(x, m)

Spec == Init /\ [][Next]_vars
=============================================================================
