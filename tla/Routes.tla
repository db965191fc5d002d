------------------------------- MODULE Routes -------------------------------
(***************************************************************************)
(* Routes of HttpServletDispatch (include/net/http/http_servlet.h) and     *)
(* what it answers.  A pattern without parameters and wildcards is the one *)
(* path it stands for; any other is matched against paths by a regular     *)
(* expression or a glob.                                                   *)
(***************************************************************************)
EXTENDS Integers

CONSTANTS
    Strings,            \* patterns, and paths of requests
    Methods,            \* ExpectHttpMethods
    RequestMethods,     \* the methods of requests, which may be others too
    RouteKind(_),       \* routeKind: "Exact", "Regex" or "Glob"
    MatchPath(_, _)     \* RouterMatcher::MatchPath: does a pattern match a path?

Exacts == {s \in Strings : RouteKind(s) = "Exact"}
Dynamics == Strings \ Exacts

\* A RouteEntry; its servlet is known by the id.
Route == [id : Nat, pattern : Strings, methods : SUBSET Methods]

\* The first in order of registration.
First(routes) == CHOOSE r \in routes : \A s \in routes : r.id <= s.id

Allowing(routes, method) == {r \in routes : method \in r.methods}
MethodsOf(routes) == UNION {r.methods : r \in routes}

\* What a dispatcher answers to a request and to its user.
Found(route) == [status |-> "Found", id |-> route.id]
NotAllowed(methods) == [status |-> "PathFoundMethodNotAllowed", allow |-> methods]
NotFound == [status |-> "NotFound"]
Ok(id) == [status |-> "Ok", id |-> id]
Conflict == [status |-> "Conflict"]
InvalidArgument == [status |-> "InvalidArgument"]
Removed(routes) == [status |-> "Removed", routes |-> routes]
Listed(routes) == [status |-> "Listed", routes |-> routes]

\* The answer when the routes that match the path are known.
Choose(routes, method) ==
    IF Allowing(routes, method) # {} THEN Found(First(Allowing(routes, method)))
    ELSE IF routes # {} THEN NotAllowed(MethodsOf(routes))
    ELSE NotFound
=============================================================================
