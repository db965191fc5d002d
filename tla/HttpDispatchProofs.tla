------------------------- MODULE HttpDispatchProofs -------------------------
(***************************************************************************)
(* Proofs about HttpDispatch: its two containers are one table of routes,  *)
(* in which ids are unique and routes of one pattern share no method.      *)
(***************************************************************************)
EXTENDS HttpDispatch, TLAPS

\* What EraseExact leaves: every other route where it was, no empty vector.
LEMMA EraseFacts ==
  ASSUME DispatchTypeOK, NoEmptyVector,
         NEW p \in DOMAIN exactRoutes, NEW S \in SUBSET exactRoutes[p]
  PROVE  LET e == EraseExact(p, S)
         IN  /\ DOMAIN e \subseteq DOMAIN exactRoutes
             /\ \A q \in DOMAIN e : e[q] # {} /\ e[q] = exactRoutes[q] \ S
             /\ \A q \in DOMAIN exactRoutes \ DOMAIN e : exactRoutes[q] \subseteq S
<1> DEFINE emptied == {q \in {p} : exactRoutes[q] \subseteq S}
           e == [q \in DOMAIN exactRoutes \ emptied |->
                   IF q = p THEN exactRoutes[q] \ S ELSE exactRoutes[q]]
<1>1. EraseExact(p, S) = e
  BY DEF EraseExact
<1>2. ASSUME NEW q \in DOMAIN e PROVE e[q] # {} /\ e[q] = exactRoutes[q] \ S
  <2>1. CASE q = p
    BY <2>1
  <2>2. CASE q # p
    <3>1. \A r \in exactRoutes[q] : r \notin S
      BY <2>2 DEF DispatchTypeOK
    <3> QED
      BY <2>2, <3>1 DEF NoEmptyVector
  <2> QED
    BY <2>1, <2>2
<1>3. \A q \in DOMAIN exactRoutes \ DOMAIN e : exactRoutes[q] \subseteq S
  OBVIOUS
<1> HIDE DEF e
<1> QED
  BY <1>1, <1>2, <1>3 DEF e

\* The containers stay well formed: a route is where its pattern belongs, and
\* an exact pattern whose last route goes takes its vector along.
LEMMA ContainersStep ==
  ASSUME DispatchTypeOK, NoEmptyVector, Next
  PROVE  DispatchTypeOK' /\ NoEmptyVector'
<1> USE DEF DispatchTypeOK, NoEmptyVector, Exacts, Dynamics
<1>1. ASSUME NEW p \in Strings, NEW ms \in SUBSET Methods, AddRoute(p, ms)
      PROVE  DispatchTypeOK' /\ NoEmptyVector'
  <2> DEFINE r == [id |-> nextId, pattern |-> p, methods |-> ms]
  <2>1. r \in Route /\ r.pattern = p
    BY DEF Route
  <2>2. CASE ms = {} \/ UNCHANGED <<exactRoutes, dynamicRoutes, nextId>>
    BY <1>1, <2>2 DEF AddRoute
  <2>3. CASE /\ p \in Exacts /\ nextId' = nextId + 1 /\ UNCHANGED dynamicRoutes
             /\ exactRoutes' = [q \in DOMAIN exactRoutes \cup {p} |->
                                  IF q = p THEN ExactAt(p) \cup {r} ELSE exactRoutes[q]]
    BY <2>1, <2>3 DEF ExactAt
  <2>4. CASE /\ p \notin Exacts /\ nextId' = nextId + 1 /\ UNCHANGED exactRoutes
             /\ dynamicRoutes' = dynamicRoutes \cup {r}
    BY <2>1, <2>4
  <2> QED
    BY <1>1, <2>2, <2>3, <2>4 DEF AddRoute
<1>2. ASSUME NEW i \in Nat, RemoveRouteById(i)
      PROVE  DispatchTypeOK' /\ NoEmptyVector'
  <2>1. CASE UNCHANGED exactRoutes
    BY <1>2, <2>1 DEF RemoveRouteById
  <2>2. ASSUME NEW p \in DOMAIN exactRoutes, NEW r \in exactRoutes[p],
               exactRoutes' = EraseExact(p, {r}), UNCHANGED <<dynamicRoutes, nextId>>
        PROVE  DispatchTypeOK' /\ NoEmptyVector'
    <3>1. {r} \in SUBSET exactRoutes[p]
      OBVIOUS
    <3> QED
      BY SMTT(30), <2>2, <3>1, EraseFacts
  <2> QED
    BY <1>2, <2>1, <2>2 DEF RemoveRouteById
<1>3. ASSUME NEW p \in Strings, NEW ms \in SUBSET Methods, RemoveRouteByMethods(p, ms)
      PROVE  DispatchTypeOK' /\ NoEmptyVector'
  BY <1>3 DEF RemoveRouteByMethods, EraseExact, ExactAt
<1>4. ASSUME NEW p \in Strings, RemoveRouteByPattern(p)
      PROVE  DispatchTypeOK' /\ NoEmptyVector'
  BY <1>4 DEF RemoveRouteByPattern
<1>5. ASSUME NEW x \in Strings, NEW m \in RequestMethods, Handle(x, m)
      PROVE  DispatchTypeOK' /\ NoEmptyVector'
  BY <1>5 DEF Handle
<1>6. ASSUME UNCHANGED <<exactRoutes, dynamicRoutes, nextId>>
      PROVE  DispatchTypeOK' /\ NoEmptyVector'
  BY <1>6
<1> QED
  BY <1>1, <1>2, <1>3, <1>4, <1>5, <1>6 DEF Next, GetRoute, ListRoutes, ListRoutesOf

\* Where the routes of a pattern are.
LEMMA TableFacts ==
  ASSUME DispatchTypeOK
  PROVE  /\ \A x \in Exacts : {r \in Table : r.pattern = x} = ExactAt(x)
         /\ \A x \in Strings : {r \in Table : r.pattern \in Exacts /\ r.pattern = x} = ExactAt(x)
         /\ \A d \in Dynamics : {r \in Table : r.pattern = d} = {r \in dynamicRoutes : r.pattern = d}
         /\ {r \in Table : r.pattern \in Dynamics} = dynamicRoutes
         /\ \A d \in Dynamics : d \notin DOMAIN exactRoutes
BY DEF DispatchTypeOK, Table, ExactAt, Dynamics

\* addRoute is AddRoute of the table.
LEMMA AddImplements ==
  ASSUME DispatchTypeOK, NEW p \in Strings, NEW ms \in SUBSET Methods, AddRoute(p, ms)
  PROVE  AbstractTable!AddRoute(p, ms)
<1> DEFINE same == IF p \in Exacts THEN ExactAt(p) ELSE {d \in dynamicRoutes : d.pattern = p}
           r == [id |-> nextId, pattern |-> p, methods |-> ms]
<1>1. same = {s \in Table : s.pattern = p}
  BY TableFacts DEF Dynamics
<1>2. HasMethodConflict(same, ms) <=> AbstractTable!Clashes(p, ms)
  BY <1>1 DEF HasMethodConflict, AbstractTable!Clashes
<1> USE DEF Ok, Conflict, InvalidArgument, AbstractTable!Ok, AbstractTable!Conflict,
            AbstractTable!InvalidArgument
<1>3. CASE ms = {} \/ HasMethodConflict(same, ms)
  <2>1. UNCHANGED <<exactRoutes, dynamicRoutes, nextId>>
    BY <1>3, AddRoute(p, ms) DEF AddRoute
  <2>2. UNCHANGED <<Table, nextId>>
    BY <2>1 DEF Table
  <2> QED
    BY <1>2, <1>3, <2>2, AddRoute(p, ms) DEF AddRoute, AbstractTable!AddRoute
<1>4. CASE ms # {} /\ ~HasMethodConflict(same, ms)
  <2>1. nextId' = nextId + 1 /\ answer' = Ok(nextId)
    BY <1>4, AddRoute(p, ms) DEF AddRoute
  <2>2. CASE p \in Exacts
    <3>1. /\ exactRoutes' = [q \in DOMAIN exactRoutes \cup {p} |->
                                IF q = p THEN ExactAt(p) \cup {r} ELSE exactRoutes[q]]
          /\ dynamicRoutes' = dynamicRoutes
      BY <1>4, <2>2, AddRoute(p, ms) DEF AddRoute
    <3>2. Table' = Table \cup {r}
      BY SMTT(30), <3>1 DEF Table, ExactAt
    <3> QED
      BY <1>2, <1>4, <2>1, <3>2 DEF AbstractTable!AddRoute
  <2>3. CASE p \notin Exacts
    <3>1. exactRoutes' = exactRoutes /\ dynamicRoutes' = dynamicRoutes \cup {r}
      BY <1>4, <2>3, AddRoute(p, ms) DEF AddRoute
    <3>2. Table' = Table \cup {r}
      BY <3>1 DEF Table
    <3> QED
      BY <1>2, <1>4, <2>1, <3>2 DEF AbstractTable!AddRoute
  <2> QED
    BY <2>2, <2>3
<1> QED
  BY <1>3, <1>4

\* What a removal leaves of the table: all but the routes erased.
LEMMA EraseTable ==
  ASSUME DispatchTypeOK, NoEmptyVector,
         NEW p \in DOMAIN exactRoutes, NEW S \in SUBSET exactRoutes[p],
         exactRoutes' = EraseExact(p, S), dynamicRoutes' = dynamicRoutes
  PROVE  Table' = Table \ S
<1>1. /\ DOMAIN exactRoutes' \subseteq DOMAIN exactRoutes
      /\ \A q \in DOMAIN exactRoutes' : exactRoutes'[q] = exactRoutes[q] \ S
      /\ \A q \in DOMAIN exactRoutes \ DOMAIN exactRoutes' : exactRoutes[q] \subseteq S
  BY EraseFacts
<1>2. \A r \in dynamicRoutes : r \notin S
  BY DEF DispatchTypeOK, Dynamics
<1> QED
  BY <1>1, <1>2 DEF Table

\* The three forms of removeRoute are those of the table.
LEMMA RemoveByIdImplements ==
  ASSUME DispatchInv, NEW i \in Nat, RemoveRouteById(i)
  PROVE  AbstractTable!RemoveById(i)
<1> USE DEF Removed, AbstractTable!Removed, AbstractTable!RemoveById, AbstractTable!Remove
<1>1. ASSUME NEW p \in DOMAIN exactRoutes, NEW r \in exactRoutes[p], r.id = i,
             exactRoutes' = EraseExact(p, {r}), answer' = Removed({r}),
             UNCHANGED <<dynamicRoutes, nextId>>
      PROVE  AbstractTable!RemoveById(i)
  <2>1. r \in Table
    BY DEF Table
  <2>2. {s \in Table : s.id = i} = {r}
    BY <1>1, <2>1 DEF DispatchInv, IdsAreUnique
  <2>3. Table' = Table \ {r}
    BY <1>1, EraseTable DEF DispatchInv
  <2> QED
    BY <1>1, <2>2, <2>3
<1>2. ASSUME \A p \in DOMAIN exactRoutes : \A r \in exactRoutes[p] : r.id # i,
             dynamicRoutes' = {d \in dynamicRoutes : d.id # i},
             answer' = Removed({d \in dynamicRoutes : d.id = i}),
             UNCHANGED <<exactRoutes, nextId>>
      PROVE  AbstractTable!RemoveById(i)
  <2>1. {s \in Table : s.id = i} = {d \in dynamicRoutes : d.id = i}
    BY <1>2 DEF Table
  <2>2. Table' = Table \ {d \in dynamicRoutes : d.id = i}
    BY <1>2 DEF Table
  <2> QED
    BY <1>2, <2>1, <2>2
<1> QED
  BY <1>1, <1>2, RemoveRouteById(i) DEF RemoveRouteById

LEMMA RemoveByMethodsImplements ==
  ASSUME DispatchInv, NEW p \in Strings, NEW ms \in SUBSET Methods,
         RemoveRouteByMethods(p, ms)
  PROVE  AbstractTable!RemoveByMethods(p, ms)
<1> USE DEF Removed, AbstractTable!Removed, AbstractTable!RemoveByMethods, AbstractTable!Remove
<1> DEFINE exact == {r \in ExactAt(p) : r.methods = ms}
           dynamic == {d \in dynamicRoutes : d.pattern = p /\ d.methods = ms}
<1>1. /\ exactRoutes' = IF p \in DOMAIN exactRoutes THEN EraseExact(p, exact) ELSE exactRoutes
      /\ dynamicRoutes' = dynamicRoutes \ dynamic
      /\ answer' = Removed(exact \cup dynamic)
      /\ nextId' = nextId
  BY RemoveRouteByMethods(p, ms) DEF RemoveRouteByMethods
<1>2. {r \in Table : r.pattern = p /\ r.methods = ms} = exact \cup dynamic
  BY DEF DispatchInv, DispatchTypeOK, Dynamics, ExactAt, Table
<1>3. Table' = Table \ (exact \cup dynamic)
  <2>1. CASE p \in DOMAIN exactRoutes
    <3>1. p \in Exacts /\ dynamic = {}
      BY <2>1 DEF DispatchInv, DispatchTypeOK, Dynamics
    <3>2. exact \in SUBSET exactRoutes[p]
      BY <2>1 DEF ExactAt
    <3>3. dynamicRoutes' = dynamicRoutes /\ exactRoutes' = EraseExact(p, exact)
      BY <1>1, <2>1, <3>1
    <3> HIDE DEF exact, dynamic
    <3>4. Table' = Table \ exact
      BY <2>1, <3>2, <3>3, EraseTable DEF DispatchInv
    <3> QED
      BY <3>1, <3>4
  <2>2. CASE p \notin DOMAIN exactRoutes
    <3>1. exact = {} /\ exactRoutes' = exactRoutes
      BY <1>1, <2>2 DEF ExactAt
    <3>2. \A q \in DOMAIN exactRoutes : \A r \in exactRoutes[q] : r \notin dynamic
      BY <2>2 DEF DispatchInv, DispatchTypeOK
    <3>3. dynamicRoutes' = dynamicRoutes \ dynamic
      BY <1>1
    <3> HIDE DEF exact, dynamic
    <3>4. Table' = Table \ dynamic
      BY <3>1, <3>2, <3>3 DEF Table
    <3> QED
      BY <3>1, <3>4
  <2> QED
    BY <2>1, <2>2
<1> QED
  BY <1>1, <1>2, <1>3

LEMMA RemoveByPatternImplements ==
  ASSUME DispatchInv, NEW p \in Strings, RemoveRouteByPattern(p)
  PROVE  AbstractTable!RemoveByPattern(p)
<1> USE DEF Removed, AbstractTable!Removed, AbstractTable!RemoveByPattern, AbstractTable!Remove
<1> DEFINE dynamic == {d \in dynamicRoutes : d.pattern = p}
<1>1. /\ exactRoutes' = [q \in DOMAIN exactRoutes \ {p} |-> exactRoutes[q]]
      /\ dynamicRoutes' = dynamicRoutes \ dynamic
      /\ answer' = Removed(ExactAt(p) \cup dynamic)
      /\ nextId' = nextId
  BY RemoveRouteByPattern(p) DEF RemoveRouteByPattern
<1>2. {r \in Table : r.pattern = p} = ExactAt(p) \cup dynamic
  BY DEF DispatchInv, DispatchTypeOK, Dynamics, ExactAt, Table
<1>3. Table' = Table \ (ExactAt(p) \cup dynamic)
  <2>1. Table' = {r \in Table : r.pattern # p}
    BY <1>1 DEF Table, DispatchInv, DispatchTypeOK
  <2> QED
    BY <1>2, <2>1
<1> QED
  BY <1>1, <1>2, <1>3

\* match with its two lookups answers as the table does.
LEMMA HandleImplements ==
  ASSUME DispatchInv, NEW x \in Strings, NEW m \in RequestMethods, Handle(x, m)
  PROVE  AbstractTable!Handle(x, m)
<1>1. UNCHANGED <<Table, nextId>>
  BY Handle(x, m) DEF Handle, Table
<1>2. AbstractTable!Candidates(x) =
        IF x \in DOMAIN exactRoutes THEN exactRoutes[x]
        ELSE {d \in dynamicRoutes : MatchPath(d.pattern, x)}
  <2>1. {r \in Table : r.pattern \in Exacts /\ r.pattern = x} = ExactAt(x)
    BY TableFacts DEF DispatchInv
  <2>2. ExactAt(x) # {} <=> x \in DOMAIN exactRoutes
    BY DEF ExactAt, DispatchInv, NoEmptyVector
  <2>3. {r \in Table : r.pattern \in Dynamics /\ MatchPath(r.pattern, x)}
          = {d \in dynamicRoutes : MatchPath(d.pattern, x)}
    BY TableFacts DEF DispatchInv
  <2> QED
    BY <2>1, <2>2, <2>3 DEF AbstractTable!Candidates, ExactAt, AbstractTable!Exacts, Exacts,
                            AbstractTable!Dynamics, Dynamics
<1>3. \A S : AbstractTable!Choose(S, m) = Choose(S, m)
  BY DEF AbstractTable!Choose, Choose, AbstractTable!Allowing, Allowing, AbstractTable!First, First,
         AbstractTable!MethodsOf, MethodsOf, AbstractTable!Found, Found,
         AbstractTable!NotAllowed, NotAllowed, AbstractTable!NotFound, NotFound
<1>4. Match(x, m) = Choose(AbstractTable!Candidates(x), m)
  <2>1. CASE x \in DOMAIN exactRoutes
    BY <1>2, <2>1 DEF Match, Choose, DispatchInv, NoEmptyVector
  <2>2. CASE x \notin DOMAIN exactRoutes
    BY <1>2, <2>2 DEF Match
  <2> QED
    BY <2>1, <2>2
<1> QED
  BY <1>1, <1>3, <1>4, Handle(x, m) DEF Handle, AbstractTable!Handle

\* getRoute and listRoutes show the routes of the table.
LEMMA GetRouteImplements ==
  ASSUME DispatchInv, NEW i \in Nat, GetRoute(i)
  PROVE  AbstractTable!GetRoute(i)
<1> USE DEF Listed, AbstractTable!Listed
<1>1. UNCHANGED <<Table, nextId>>
  BY GetRoute(i) DEF GetRoute, Table
<1>2. ASSUME NEW p \in DOMAIN exactRoutes, NEW r \in exactRoutes[p], r.id = i,
             answer' = Listed({r})
      PROVE  answer' = AbstractTable!Listed({s \in Table : s.id = i})
  <2>1. r \in Table
    BY DEF Table
  <2>2. {s \in Table : s.id = i} = {r}
    BY <1>2, <2>1 DEF DispatchInv, IdsAreUnique
  <2> QED
    BY <1>2, <2>2
<1>3. ASSUME \A p \in DOMAIN exactRoutes : \A r \in exactRoutes[p] : r.id # i,
             answer' = Listed({d \in dynamicRoutes : d.id = i})
      PROVE  answer' = AbstractTable!Listed({s \in Table : s.id = i})
  <2>1. {s \in Table : s.id = i} = {d \in dynamicRoutes : d.id = i}
    BY <1>3 DEF Table
  <2> QED
    BY <1>3, <2>1
<1> QED
  BY <1>1, <1>2, <1>3, GetRoute(i) DEF GetRoute, AbstractTable!GetRoute, AbstractTable!List

LEMMA ListRoutesImplements ==
  ASSUME DispatchInv, ListRoutes
  PROVE  AbstractTable!ListRoutes
<1>1. UNCHANGED <<Table, nextId>>
  BY ListRoutes DEF ListRoutes, Table
<1>2. answer' = AbstractTable!Listed(Table)
  <2>1. (UNION {exactRoutes[p] : p \in DOMAIN exactRoutes}) \cup dynamicRoutes = Table
    BY DEF Table
  <2> QED
    BY <2>1, ListRoutes DEF ListRoutes, Listed, AbstractTable!Listed
<1> QED
  BY <1>1, <1>2 DEF AbstractTable!ListRoutes, AbstractTable!List

LEMMA ListRoutesOfImplements ==
  ASSUME DispatchInv, NEW p \in Strings, ListRoutesOf(p)
  PROVE  AbstractTable!ListRoutesOf(p)
<1>1. UNCHANGED <<Table, nextId>>
  BY ListRoutesOf(p) DEF ListRoutesOf, Table
<1>2. {r \in Table : r.pattern = p} = ExactAt(p) \cup {d \in dynamicRoutes : d.pattern = p}
  BY DEF DispatchInv, DispatchTypeOK, Dynamics, ExactAt, Table
<1>3. answer' = AbstractTable!Listed({r \in Table : r.pattern = p})
  BY <1>2, ListRoutesOf(p) DEF ListRoutesOf, Listed, AbstractTable!Listed
<1> QED
  BY <1>1, <1>3 DEF AbstractTable!ListRoutesOf, AbstractTable!List

\* Every step is a step of the table.
LEMMA StepImplements ==
  ASSUME DispatchInv, Next
  PROVE  AbstractTable!Next
<1>1. ASSUME NEW p \in Strings, NEW ms \in SUBSET Methods,
             AddRoute(p, ms) \/ RemoveRouteByMethods(p, ms)
      PROVE  AbstractTable!Next
  BY <1>1, AddImplements, RemoveByMethodsImplements DEF AbstractTable!Next, DispatchInv
<1>2. ASSUME NEW p \in Strings, RemoveRouteByPattern(p)
      PROVE  AbstractTable!Next
  BY <1>2, RemoveByPatternImplements DEF AbstractTable!Next
<1>3. ASSUME NEW i \in Nat, RemoveRouteById(i)
      PROVE  AbstractTable!Next
  BY <1>3, RemoveByIdImplements DEF AbstractTable!Next
<1>4. ASSUME NEW x \in Strings, NEW m \in RequestMethods, Handle(x, m)
      PROVE  AbstractTable!Next
  BY <1>4, HandleImplements DEF AbstractTable!Next
<1>5. ASSUME NEW i \in Nat, GetRoute(i)
      PROVE  AbstractTable!Next
  BY <1>5, GetRouteImplements DEF AbstractTable!Next
<1>6. ASSUME NEW p \in Strings, ListRoutesOf(p)
      PROVE  AbstractTable!Next
  BY <1>6, ListRoutesOfImplements DEF AbstractTable!Next
<1>7. ASSUME ListRoutes
      PROVE  AbstractTable!Next
  BY <1>7, ListRoutesImplements DEF AbstractTable!Next
<1> QED
  BY <1>1, <1>2, <1>3, <1>4, <1>5, <1>6, <1>7, Next DEF Next

\* A step of the table keeps ids unique and methods apart.
LEMMA TableStep ==
  ASSUME DispatchInv, DispatchTypeOK', AbstractTable!Next
  PROVE  IdsAreUnique' /\ NoMethodTwice'
<1> USE DEF DispatchInv, IdsAreUnique, NoMethodTwice
<1>1. ASSUME Table' \subseteq Table, nextId' = nextId
      PROVE  IdsAreUnique' /\ NoMethodTwice'
  BY <1>1
<1>2. ASSUME NEW p, NEW ms, ~AbstractTable!Clashes(p, ms), nextId' = nextId + 1,
             Table' = Table \cup {[id |-> nextId, pattern |-> p, methods |-> ms]}
      PROVE  IdsAreUnique' /\ NoMethodTwice'
  <2> DEFINE r == [id |-> nextId, pattern |-> p, methods |-> ms]
  <2>1. nextId \in Nat /\ \A s \in Table : s.id \in Nat
    BY DEF DispatchTypeOK, Table, Route
  <2>2. IdsAreUnique'
    BY <1>2, <2>1
  <2>3. \A s \in Table : s.pattern = p => s.methods \cap ms = {} /\ ms \cap s.methods = {}
    BY <1>2 DEF AbstractTable!Clashes
  <2>4. NoMethodTwice'
    BY <1>2, <2>3
  <2> QED
    BY <2>2, <2>4
<1> QED
  BY <1>1, <1>2 DEF AbstractTable!Next, AbstractTable!AddRoute, AbstractTable!RemoveById,
       AbstractTable!RemoveByMethods, AbstractTable!RemoveByPattern, AbstractTable!Remove,
       AbstractTable!Handle, AbstractTable!GetRoute, AbstractTable!ListRoutes,
       AbstractTable!ListRoutesOf, AbstractTable!List

\* The containers are well formed, no id and no method of a pattern occurs twice,
\* and no empty vector is left to turn a 404 into a 405 (addRoute, removeRoute).
THEOREM DispatchInvariant == Spec => []DispatchInv
<1>1. Init => DispatchInv
  BY DEF Init, DispatchInv, DispatchTypeOK, NoEmptyVector, IdsAreUnique, NoMethodTwice, Table
<1>2. DispatchInv /\ [Next]_vars => DispatchInv'
  <2>1. CASE Next
    BY <2>1, ContainersStep, StepImplements, TableStep DEF DispatchInv
  <2>2. CASE UNCHANGED vars
    BY <2>2 DEF vars, DispatchInv, DispatchTypeOK, NoEmptyVector, IdsAreUnique, NoMethodTwice, Table
  <2> QED
    BY <2>1, <2>2
<1> QED
  BY <1>1, <1>2, PTL DEF Spec

\* The two containers and their lookups implement one table of routes: what a
\* request finds depends on the routes alone, never on what was removed.
THEOREM DispatchImplementsRouteTable == Spec => ImplementsRouteTable
<1>1. Init => AbstractTable!Init
  BY DEF Init, AbstractTable!Init, Table, NotFound, AbstractTable!NotFound
<1>2. DispatchInv /\ [Next]_vars => [AbstractTable!Next]_(AbstractTable!vars)
  <2>1. CASE Next
    BY <2>1, StepImplements
  <2>2. CASE UNCHANGED vars
    BY <2>2 DEF vars, AbstractTable!vars, Table
  <2> QED
    BY <2>1, <2>2
<1> QED
  BY <1>1, <1>2, DispatchInvariant, PTL DEF Spec, ImplementsRouteTable, AbstractTable!Spec
=============================================================================
