------------------------ MODULE GatewayRoutesProofs ------------------------
(* Proofs about GatewayRoutes, for any number of callers, requests, hosts, *)
(* routes, forwarders, middlewares and NotFound handlers.                  *)
EXTENDS GatewayRoutes, TLAPS

USE PatternsAssumption, NoneAssumption, BoundAssumption

-----------------------------------------------------------------------------
(* What requests are owed                                                  *)

(* What InForce says of one of its members, by its kind.                   *)
LEMMA InForceShape ==
  ASSUME NEW m, NEW t, NEW x, NEW hs, NEW s \in InForce(m, t, x, hs)
  PROVE  /\ s[2] \in hs
         /\ s[1] = "mdw" => \E i \in DOMAIN m[s[2]] : s = <<"mdw", s[2], m[s[2]][i]>>
         /\ s[1] = "route" => s[3] \in Keys /\ t[s[2]][s[3]] # None /\ s[4] = t[s[2]][s[3]]
                              /\ s = <<"route", s[2], s[3], s[4]>>
         /\ s[1] = "notfound" => x[s[2]] # None /\ s = <<"notfound", s[2], x[s[2]]>>
         /\ s[1] \in {"mdw", "route", "notfound"}
  <1>1. CASE s \in MdwsIn(m, hs)
    <2>1. PICK h \in hs : s \in {<<"mdw", h, m[h][i]>> : i \in DOMAIN m[h]}
      BY <1>1 DEF MdwsIn
    <2>2. PICK i \in DOMAIN m[h] : s = <<"mdw", h, m[h][i]>>
      BY <2>1
    <2>3. QED  BY <2>2
  <1>2. CASE s \in UNION {{<<"route", h, k, t[h][k]>> : k \in {j \in Keys : t[h][j] # None}} : h \in hs}
    <2>1. PICK h \in hs : s \in {<<"route", h, k, t[h][k]>> : k \in {j \in Keys : t[h][j] # None}}
      BY <1>2
    <2>2. PICK k \in Keys : t[h][k] # None /\ s = <<"route", h, k, t[h][k]>>
      BY <2>1
    <2>3. QED  BY <2>2
  <1>3. CASE s \in {<<"notfound", h, x[h]>> : h \in {g \in hs : x[g] # None}}
    BY <1>3
  <1>4. QED  BY <1>1, <1>2, <1>3 DEF InForce

(* InForce grows with the hosts it is asked about.                         *)
LEMMA InForceMonotone ==
  ASSUME NEW m, NEW t, NEW x, NEW hs, NEW gs, gs \subseteq hs
  PROVE  InForce(m, t, x, gs) \subseteq InForce(m, t, x, hs)
  BY DEF InForce, MdwsIn

-----------------------------------------------------------------------------
(* Calls and requests                                                      *)

(* The records that the actions build are calls.                           *)
LEMMA CallTypes ==
  /\ Idle \in Calls
  /\ \A h \in Hosts, k \in Keys, f \in Forwarders :
       [op |-> "register", host |-> h, key |-> k, fwd |-> f] \in Calls
  /\ \A l \in SUBSET Forwarders : [op |-> "close", left |-> l] \in Calls
  /\ \A h \in Hosts : [op |-> "lookup", host |-> h] \in Calls
  /\ \A h \in Hosts, x \in Routers : [op |-> "set", host |-> h, router |-> x] \in Calls
  BY DEF Calls

(* What a call carries, by its operation.                                  *)
LEMMA CallShape ==
  ASSUME NEW k \in Calls
  PROVE  /\ k.op \in {"idle", "register", "close", "lookup", "set"}
         /\ k.op = "idle" => k = Idle
         /\ k.op = "register" => k.host \in Hosts /\ k.key \in Keys /\ k.fwd \in Forwarders
         /\ k.op = "close" =>
              /\ k.left \in SUBSET Forwarders
              /\ \A f : [k EXCEPT !.left = k.left \ {f}] = [op |-> "close", left |-> k.left \ {f}]
         /\ k.op = "lookup" => k.host \in Hosts
         /\ k.op = "set" => k.host \in Hosts /\ k.router \in Routers
  <1>1. CASE k = Idle
    BY <1>1 DEF Idle
  <1>2. CASE k \in [op : {"register"}, host : Hosts, key : Keys, fwd : Forwarders]
    BY <1>2
  <1>3. CASE k \in [op : {"close"}, left : SUBSET Forwarders]
    <2>1. k = [op |-> "close", left |-> k.left] /\ k.left \in SUBSET Forwarders
      BY <1>3
    <2>2. \A f : [k EXCEPT !.left = k.left \ {f}] = [op |-> "close", left |-> k.left \ {f}]
      BY <2>1
    <2>3. QED  BY <2>1, <2>2
  <1>4. CASE k \in [op : {"lookup"}, host : Hosts]
    BY <1>4
  <1>5. CASE k \in [op : {"set"}, host : Hosts, router : Routers]
    BY <1>5
  <1>6. QED  BY <1>1, <1>2, <1>3, <1>4, <1>5 DEF Calls

(* Everything but the requests.                                            *)
Gateway == <<gvars, svars, fwd, call>>

(* Serving a request changes nothing but requests (gateway.go 219-295).    *)
LEMMA ServeQuiet ==
  ASSUME NEW r \in Requests, Serve(r)
  PROVE  UNCHANGED Gateway
  BY DEF Serve, Arrive, Unlocked, Locked, ExecuteRoute, Wrap, Execute, NotFound, Finish, Gateway

-----------------------------------------------------------------------------
(* The inductive invariant                                                 *)

(* TypeOK without the requests.                                            *)
StateOK ==
  /\ lock \in Callers \cup {None}
  /\ hosts \subseteq Hosts
  /\ routes \in [Hosts -> [Keys -> Forwarders \cup {None}]]
  /\ hostmdws \in [Hosts -> Seq(Mdws)]
  /\ hashmdw \in BOOLEAN
  /\ notfounds \in [Hosts \cup {None} -> Handlers \cup {None}]
  /\ router \in [Hosts -> Routers \cup {None}]
  /\ table \in [Routers -> [Keys -> Forwarders \cup {None}]]
  /\ default \in Pairs
  /\ made \in 0..MaxRouters
  /\ fwd \in [Forwarders -> {"new", "taken", "closed"}]
  /\ call \in [Callers -> Calls]

Fields == {"pc", "name", "match", "key", "fwd", "ran", "by", "owed", "gone"}

(* What TypeOK says of a request, and that it is a record.                 *)
RequestOK(q) ==
  /\ ReqOK(q)
  /\ q # Waiting => DOMAIN q = Fields
  /\ q.pc \in {"matched", "wrapping", "routing", "forward"} => q.match.router # None
  /\ q.pc = "forward" => q.fwd # None

RequestsOK ==
  /\ req = [r \in Requests |-> req[r]]
  /\ \A r \in Requests : RequestOK(req[r])

(* The lock is held by the one caller that is inside a critical section.   *)
Exclusive == \A c \in Callers : lock = c <=> call[c].op \in {"register", "close"}

(* The gateway's table against those of ship, in every state: they differ  *)
(* only in the route that is being registered.                             *)
Tables ==
  /\ \A h \in Hosts : h \in hosts <=> router[h] # None
  /\ \A h \in Hosts : router[h] # None => router[h] <= made
  /\ \A g, h \in Hosts : router[g] # None /\ router[g] = router[h] => g = h
  /\ \A x \in Routers, k \in Keys : x > made => table[x][k] = None
  /\ \A h \in Hosts \ hosts, k \in Keys : routes[h][k] = None
  /\ \A h \in hosts, k \in Keys :
       \/ table[router[h]][k] = routes[h][k]
       \/ \E c \in Callers : call[c].op = "register" /\ call[c].host = h /\ call[c].key = k
  /\ \A c \in Callers : call[c].op = "register" =>
       /\ call[c].host \in hosts
       /\ routes[call[c].host][call[c].key] = None
       /\ table[router[call[c].host]][call[c].key] = call[c].fwd

Core == StateOK /\ RequestsOK /\ Exclusive /\ Tables

(* The types are a part of Core.                                           *)
LEMMA CoreTypes == Core => TypeOK
  BY DEF Core, StateOK, RequestsOK, RequestOK, TypeOK

-----------------------------------------------------------------------------
(* What callers do to requests                                             *)

(* q is p, of which something may not be owed any more.                    *)
Narrowed(p, q) ==
  /\ DOMAIN q = DOMAIN p
  /\ p = Waiting => q = Waiting
  /\ p # Waiting =>
       /\ q # Waiting
       /\ q.pc = p.pc /\ q.name = p.name /\ q.match = p.match /\ q.key = p.key /\ q.fwd = p.fwd
       /\ q.ran = p.ran /\ q.by = p.by /\ q.gone = p.gone
       /\ q.owed \subseteq p.owed

(* StillOwed leaves a request as it is, but owes it only what is in force. *)
LEMMA StillOwedNarrows ==
  ASSUME RequestsOK, NEW m, NEW t, NEW x, StillOwed(m, t, x)
  PROVE  /\ req' = [r \in Requests |-> req'[r]]
         /\ \A r \in Requests : Narrowed(req[r], req'[r])
         /\ \A r \in Requests :
              req[r] # Waiting => req'[r].owed \subseteq InForce(m, t, x, Hosts)
  <1>1. req' = [r \in Requests |-> req'[r]]
    BY DEF StillOwed
  <1>2. ASSUME NEW r \in Requests, req[r] = Waiting
        PROVE  Narrowed(req[r], req'[r])
    BY <1>2 DEF StillOwed, Narrowed
  <1>3. ASSUME NEW r \in Requests, req[r] # Waiting
        PROVE  /\ Narrowed(req[r], req'[r])
               /\ req'[r].owed \subseteq InForce(m, t, x, Hosts)
    <2>1. req'[r] = [req[r] EXCEPT !.owed = @ \cap InForce(m, t, x, Hosts)]
      BY <1>3 DEF StillOwed
    <2>2. DOMAIN req[r] = Fields /\ req[r].pc # "idle"
      BY <1>3 DEF RequestsOK, RequestOK, ReqOK
    <2>3. QED  BY <1>3, <2>1, <2>2 DEF Narrowed, Fields, Waiting
  <1>4. QED  BY <1>1, <1>2, <1>3

(* A call takes from a request only what is not in force any more.         *)
LEMMA ReconfigureNarrows ==
  ASSUME Core, NEW c \in Callers, Reconfigure(c)
  PROVE  /\ req' = [r \in Requests |-> req'[r]]
         /\ \A r \in Requests : Narrowed(req[r], req'[r])
         /\ \A r \in Requests : req[r] # Waiting => req'[r].owed \subseteq Settings'
  <1>1. CASE StillOwed(hostmdws', routes', notfounds')
    BY <1>1, StillOwedNarrows DEF Core, Settings
  <1>2. CASE req' = req /\ Settings \subseteq Settings'
    BY <1>2 DEF Core, RequestsOK, RequestOK, ReqOK, Narrowed, Settings, Fields
  <1>3. CASE UNCHANGED <<req, hostmdws, routes, notfounds>>
    BY <1>2, <1>3 DEF Settings
  <1>4. CASE RegisterStore(c)
    <2>1. routes[call[c].host][call[c].key] = None
      BY <1>4 DEF RegisterStore, Core, Tables
    <2>2. \A h \in Hosts, k \in Keys : routes[h][k] # None => routes'[h][k] = routes[h][k]
      BY <1>4, <2>1 DEF RegisterStore, Core, StateOK
    <2>3. Settings \subseteq Settings'
      BY <1>4, <2>2 DEF RegisterStore, Settings, InForce, MdwsIn
    <2>4. QED  BY <1>2, <1>4, <2>3 DEF RegisterStore
  <1>5. ASSUME NEW h \in Hosts, AddHost(c, h) \/ SetDefaultHost(c, h)
        PROVE  UNCHANGED <<req, hostmdws, routes, notfounds>>
    BY <1>5 DEF AddHost, SetDefaultHost, gvars
  <1>6. ASSUME NEW h \in Hosts, NEW k \in Keys, NEW f \in Forwarders, RegisterRoute(c, h, k, f)
        PROVE  UNCHANGED <<req, hostmdws, routes, notfounds>>
    BY <1>6 DEF RegisterRoute
  <1>7. ASSUME CloseForwarder(c) \/ CloseEnd(c) \/ SetDefaultLookup(c) \/ SetDefaultRouter(c)
        PROVE  UNCHANGED <<req, hostmdws, routes, notfounds>>
    BY <1>7 DEF CloseForwarder, CloseEnd, SetDefaultLookup, SetDefaultRouter, gvars
  <1>8. ASSUME NEW h \in Hosts, NEW k \in Keys, UnregisterRoute(c, h, k)
        PROVE  StillOwed(hostmdws', routes', notfounds')
    BY <1>8 DEF UnregisterRoute
  <1>9. ASSUME NEW h \in Hosts, DelHost(c, h)
        PROVE  StillOwed(hostmdws', routes', notfounds')
    BY <1>9 DEF DelHost
  <1>10. ASSUME NEW m, SetMiddlewares(c, m)
         PROVE  StillOwed(hostmdws', routes', notfounds')
    BY <1>10 DEF SetMiddlewares
  <1>11. ASSUME NEW h \in Hosts \cup {None}, NEW x, SetNotFound(c, h, x)
         PROVE  StillOwed(hostmdws', routes', notfounds')
    BY <1>11 DEF SetNotFound
  <1>12. QED
    BY <1>1, <1>3, <1>4, <1>5, <1>6, <1>7, <1>8, <1>9, <1>10, <1>11
       DEF Reconfigure, Continue, RegisterHostMiddlewares, ResetHostMiddlewares

-----------------------------------------------------------------------------
(* Types                                                                   *)

(* Core holds before the first call.                                       *)
LEMMA CoreInit == Init => Core
  <1> SUFFICES ASSUME Init PROVE Core
    OBVIOUS
  <1>1. StateOK
    <2>1. hostmdws \in [Hosts -> Seq(Mdws)] /\ << >> \in Seq(Mdws)
      BY DEF Init
    <2>2. default \in Pairs
      BY DEF Init, Pairs, NoDefault
    <2>3. call \in [Callers -> Calls]
      BY CallTypes DEF Init
    <2>4. /\ routes \in [Hosts -> [Keys -> Forwarders \cup {None}]]
          /\ table \in [Routers -> [Keys -> Forwarders \cup {None}]]
      BY DEF Init
    <2>5. /\ notfounds \in [Hosts \cup {None} -> Handlers \cup {None}]
          /\ router \in [Hosts -> Routers \cup {None}]
          /\ fwd \in [Forwarders -> {"new", "taken", "closed"}]
      BY DEF Init
    <2>6. made \in 0..MaxRouters
      BY DEF Init
    <2>7. lock \in Callers \cup {None} /\ hosts \subseteq Hosts /\ hashmdw \in BOOLEAN
      BY DEF Init
    <2>8. QED  BY <2>1, <2>2, <2>3, <2>4, <2>5, <2>6, <2>7 DEF StateOK
  <1>2. RequestsOK
    BY DEF Init, RequestsOK, RequestOK, ReqOK, Waiting
  <1>3. Exclusive /\ Tables
    BY DEF Init, Exclusive, Tables, Idle, Routers
  <1>4. QED  BY <1>1, <1>2, <1>3 DEF Core

(* The lists that ResetHostMiddlewares is given are lists of middlewares.  *)
LEMMA MdwListTypes == \A ms \in MdwLists : ms \in Seq(Mdws)
  <1> SUFFICES ASSUME NEW ms \in MdwLists
               PROVE  ms \in Seq(Mdws)
    OBVIOUS
  <1>1. PICK n \in 0..MaxMdws : ms \in [1..n -> Mdws]
    BY DEF MdwLists
  <1>2. QED  BY <1>1, n \in Nat

(* The middlewares of a host, with their host, are a sequence.             *)
LEMMA ListTypes ==
  ASSUME StateOK, NEW h
  PROVE  MdwsOf(h) \in Seq({"mdw"} \X Hosts \X Mdws)
  <1>1. CASE h \in Hosts
    <2>1. hostmdws[h] \in Seq(Mdws)
      BY <1>1 DEF StateOK
    <2>2. /\ DOMAIN hostmdws[h] = 1..Len(hostmdws[h]) /\ Len(hostmdws[h]) \in Nat
          /\ \A i \in DOMAIN hostmdws[h] : hostmdws[h][i] \in Mdws
      BY <2>1
    <2>3. QED  BY <1>1, <2>2 DEF MdwsOf
  <1>2. CASE h \notin Hosts
    BY <1>2 DEF MdwsOf
  <1>3. QED  BY <1>1, <1>2

(* Every step keeps the types of the gateway's and of ship's state.        *)
LEMMA StateStep == Core /\ [Next]_vars => StateOK'
  <1> SUFFICES ASSUME Core, [Next]_vars
               PROVE  StateOK'
    OBVIOUS
  <1> USE DEF Core, StateOK
  <1>1. ASSUME UNCHANGED Gateway
        PROVE  StateOK'
    BY <1>1 DEF Gateway, gvars, svars
  <1>2. ASSUME NEW r \in Requests, Serve(r)
        PROVE  StateOK'
    BY <1>1, <1>2, ServeQuiet
  <1>3. CASE UNCHANGED vars
    BY <1>1, <1>3 DEF vars, Gateway
  <1>4. ASSUME NEW c \in Callers, NEW h \in Hosts, AddHost(c, h)
        PROVE  StateOK'
    BY <1>4 DEF AddHost, Routers
  <1>5. ASSUME NEW c \in Callers, NEW h \in Hosts, NEW k \in Keys, NEW f \in Forwarders, RegisterRoute(c, h, k, f)
        PROVE  StateOK'
    BY <1>5, CallTypes DEF RegisterRoute, addRoute
  <1>6. ASSUME NEW c \in Callers, RegisterStore(c)
        PROVE  StateOK'
    BY <1>6, CallTypes, CallShape DEF RegisterStore, svars
  <1>7. ASSUME NEW c \in Callers, NEW h \in Hosts, NEW k \in Keys, UnregisterRoute(c, h, k)
        PROVE  StateOK'
    <2>1. {routes[h][k]} \in SUBSET Forwarders
      BY <1>7 DEF UnregisterRoute
    <2>2. call' \in [Callers -> Calls]
      BY <1>7, <2>1, CallTypes DEF UnregisterRoute
    <2>3. QED  BY <1>7, <2>2 DEF UnregisterRoute, delRoute
  <1>8. ASSUME NEW c \in Callers, NEW h \in Hosts, DelHost(c, h)
        PROVE  StateOK'
    <2>1. ForwardersOf(h) \in SUBSET Forwarders
      BY DEF ForwardersOf
    <2>2. call' \in [Callers -> Calls]
      BY <1>8, <2>1, CallTypes DEF DelHost
    <2>3. default' \in Pairs
      BY <1>8 DEF DelHost, DefaultWithout, Pairs, NoDefault
    <2>4. /\ routes' \in [Hosts -> [Keys -> Forwarders \cup {None}]]
          /\ hostmdws' \in [Hosts -> Seq(Mdws)]
          /\ notfounds' \in [Hosts \cup {None} -> Handlers \cup {None}]
          /\ router' \in [Hosts -> Routers \cup {None}]
      BY <1>8 DEF DelHost
    <2>5. QED  BY <1>8, <2>2, <2>3, <2>4 DEF DelHost
  <1>9. ASSUME NEW c \in Callers, CloseForwarder(c)
        PROVE  StateOK'
    <2>1. PICK f \in call[c].left : /\ fwd' = [fwd EXCEPT ![f] = "closed"]
                                    /\ call' = [call EXCEPT ![c].left = @ \ {f}]
      BY <1>9 DEF CloseForwarder
    <2>2. call[c] \in Calls /\ call[c].op = "close"
      BY <1>9 DEF CloseForwarder
    <2>3. call[c].left \ {f} \in SUBSET Forwarders
      BY <2>2, CallShape
    <2>4. call' = [call EXCEPT ![c] = [op |-> "close", left |-> call[c].left \ {f}]]
      BY <2>1, <2>2, CallShape
    <2>5. call' \in [Callers -> Calls]
      BY <2>3, <2>4, CallTypes
    <2>6. QED  BY <1>9, <2>1, <2>5 DEF CloseForwarder, gvars, svars
  <1>10. ASSUME NEW c \in Callers, CloseEnd(c)
         PROVE  StateOK'
    BY <1>10, CallTypes DEF CloseEnd, svars
  <1>11. ASSUME NEW c \in Callers, NEW h \in Hosts, SetDefaultHost(c, h)
         PROVE  StateOK'
    BY <1>11, CallTypes DEF SetDefaultHost, gvars, svars
  <1>12. ASSUME NEW c \in Callers, SetDefaultLookup(c)
         PROVE  StateOK'
    BY <1>12, CallTypes, CallShape DEF SetDefaultLookup, Known, gvars, svars
  <1>13. ASSUME NEW c \in Callers, SetDefaultRouter(c)
         PROVE  StateOK'
    BY <1>13, CallTypes, CallShape DEF SetDefaultRouter, Pairs, gvars
  <1>14. ASSUME NEW c \in Callers, NEW h \in Hosts, NEW m \in Mdws, RegisterHostMiddlewares(c, h, m)
         PROVE  StateOK'
    BY <1>14 DEF RegisterHostMiddlewares, SetMiddlewares, svars
  <1>15. ASSUME NEW c \in Callers, NEW h \in Hosts, NEW ms \in MdwLists, ResetHostMiddlewares(c, h, ms)
         PROVE  StateOK'
    BY <1>15, MdwListTypes DEF ResetHostMiddlewares, SetMiddlewares, FlagAfter, svars
  <1>16. ASSUME NEW c \in Callers, NEW h \in Hosts \cup {None}, NEW x \in Handlers \cup {None}, SetNotFound(c, h, x)
         PROVE  StateOK'
    BY <1>16 DEF SetNotFound, svars
  <1>17. QED
    BY <1>2, <1>3, <1>4, <1>5, <1>6, <1>7, <1>8, <1>9, <1>10, <1>11, <1>12, <1>13, <1>14, <1>15, <1>16
       DEF Next, Reconfigure, Continue

(* A request that is served leaves the others, and what is in force.       *)
LEMMA ServeLeaves ==
  ASSUME RequestsOK, NEW r \in Requests, Serve(r)
  PROVE  /\ req' = [s \in Requests |-> req'[s]]
         /\ \A s \in Requests : s # r => req'[s] = req[s]
         /\ Settings' = Settings
  BY ServeQuiet
     DEF RequestsOK, Serve, Arrive, Unlocked, Locked, ExecuteRoute, Wrap, Execute, NotFound, Finish,
         Gateway, gvars, Settings

(* What a step of a request that is served keeps.                          *)
Kept(p, q) ==
  /\ p # Waiting /\ q # Waiting
  /\ DOMAIN q = Fields
  /\ q.name = p.name /\ q.match = p.match /\ q.owed = p.owed /\ q.gone = p.gone

(* What the request is after each step of serving it, field by field.      *)
Arrived(q, n) ==
  \E m \in Matches(n) :
    q = [pc    |-> IF m.router = None THEN "notfound" ELSE "matched",
         name  |-> n,
         match |-> m,
         key   |-> None,
         fwd   |-> None,
         ran   |-> << >>,
         by    |-> None,
         owed  |-> InForce(hostmdws, routes, notfounds, {n, m.host} \cap Hosts),
         gone  |-> {f \in Forwarders : fwd[f] = "closed"}]

Flagged(p, q) ==
  /\ Kept(p, q)
  /\ q.key = p.key /\ q.fwd = p.fwd /\ q.ran = p.ran /\ q.by = p.by
  /\ q.pc = IF hashmdw THEN "wrapping" ELSE "routing"

Wrapped(p, q) ==
  /\ Kept(p, q)
  /\ q.key = p.key /\ q.fwd = p.fwd /\ q.by = p.by
  /\ q.pc = "routing" /\ q.ran = Chain(p.name, p.match.host)

LookedUp(p, q, k) ==
  /\ Kept(p, q)
  /\ q.ran = p.ran /\ q.by = p.by
  /\ q.key = k /\ q.fwd = table[p.match.router][k] /\ q.pc = AfterLookup(q.fwd)

Missed(p, q) ==
  /\ Kept(p, q)
  /\ q.key = p.key /\ q.fwd = p.fwd /\ q.ran = p.ran
  /\ q.pc = "missed" /\ q.by = WhoseNotFound(p.name, p.match.host)

(* What each step of serving makes of its request, and when it may be      *)
(* taken (gateway.go 219-295).                                             *)
LEMMA ServeShape ==
  ASSUME RequestsOK, NEW r \in Requests
  PROVE  /\ Finish(r) => req'[r] = Waiting
         /\ \A n \in Names : Arrive(r, n) => Arrived(req'[r], n)
         /\ ExecuteRoute(r) => req[r].pc = "matched" /\ Flagged(req[r], req'[r])
         /\ Wrap(r) => req[r].pc = "wrapping" /\ Wrapped(req[r], req'[r])
         /\ \A k \in Keys : Execute(r, k) => req[r].pc = "routing" /\ LookedUp(req[r], req'[r], k)
         /\ NotFound(r) => req[r].pc = "notfound" /\ Missed(req[r], req'[r])
  <1> DEFINE q == req[r]
  <1>1. req = [s \in Requests |-> req[s]] /\ (q.pc # "idle" => q # Waiting /\ DOMAIN q = Fields)
    BY DEF RequestsOK, RequestOK, Waiting
  <1>2. Finish(r) => req'[r] = Waiting
    BY <1>1 DEF Finish
  <1>3. ASSUME NEW n \in Names, Arrive(r, n)
        PROVE  Arrived(req'[r], n)
    BY <1>1, <1>3 DEF Arrive, Arrived
  <1>4. ASSUME ExecuteRoute(r)
        PROVE  q.pc = "matched" /\ Flagged(q, req'[r])
    <2> DEFINE next == IF hashmdw THEN "wrapping" ELSE "routing"
    <2>1. q.pc = "matched" /\ req'[r] = [q EXCEPT !.pc = next]
      BY <1>1, <1>4 DEF ExecuteRoute
    <2>2. next # "idle"
      OBVIOUS
    <2>3. q # Waiting /\ DOMAIN q = Fields
      BY <1>1, <2>1
    <2> HIDE DEF q, next
    <2>4. Kept(q, req'[r]) /\ req'[r].pc = next
      BY <2>1, <2>2, <2>3 DEF Kept, Fields, Waiting
    <2>5. req'[r].key = q.key /\ req'[r].fwd = q.fwd /\ req'[r].ran = q.ran /\ req'[r].by = q.by
      BY <2>1, <2>3 DEF Fields
    <2>6. QED  BY <2>1, <2>4, <2>5 DEF q, next, Flagged
  <1>5. ASSUME Wrap(r)
        PROVE  q.pc = "wrapping" /\ Wrapped(q, req'[r])
    <2> DEFINE ran == Chain(q.name, q.match.host)
    <2>1. q.pc = "wrapping" /\ req'[r] = [q EXCEPT !.pc = "routing", !.ran = ran]
      BY <1>1, <1>5 DEF Wrap
    <2>2. q # Waiting /\ DOMAIN q = Fields
      BY <1>1, <2>1
    <2> HIDE DEF q, ran
    <2>3. Kept(q, req'[r]) /\ req'[r].pc = "routing" /\ req'[r].ran = ran
      BY <2>1, <2>2 DEF Kept, Fields, Waiting
    <2>4. req'[r].key = q.key /\ req'[r].fwd = q.fwd /\ req'[r].by = q.by
      BY <2>1, <2>2 DEF Fields
    <2>5. QED  BY <2>1, <2>3, <2>4 DEF q, ran, Wrapped
  <1>6. ASSUME NEW k \in Keys, Execute(r, k)
        PROVE  q.pc = "routing" /\ LookedUp(q, req'[r], k)
    <2> DEFINE f == table[q.match.router][k]
    <2>1. q.pc = "routing" /\ req'[r] = [q EXCEPT !.pc = AfterLookup(f), !.key = k, !.fwd = f]
      BY <1>1, <1>6 DEF Execute
    <2>2. AfterLookup(f) \in {"notfound", "forward"}
      BY DEF AfterLookup
    <2>3. q # Waiting /\ DOMAIN q = Fields
      BY <1>1, <2>1
    <2> HIDE DEF q, f
    <2>4. Kept(q, req'[r]) /\ req'[r].pc = AfterLookup(f) /\ req'[r].key = k /\ req'[r].fwd = f
      BY <2>1, <2>2, <2>3 DEF Kept, Fields, Waiting
    <2>5. req'[r].ran = q.ran /\ req'[r].by = q.by
      BY <2>1, <2>3 DEF Fields
    <2>6. QED  BY <2>1, <2>4, <2>5 DEF q, f, LookedUp
  <1>7. ASSUME NotFound(r)
        PROVE  q.pc = "notfound" /\ Missed(q, req'[r])
    <2> DEFINE by == WhoseNotFound(q.name, q.match.host)
    <2>1. q.pc = "notfound" /\ req'[r] = [q EXCEPT !.pc = "missed", !.by = by]
      BY <1>1, <1>7 DEF NotFound
    <2>2. q # Waiting /\ DOMAIN q = Fields
      BY <1>1, <2>1
    <2> HIDE DEF q, by
    <2>3. Kept(q, req'[r]) /\ req'[r].pc = "missed" /\ req'[r].by = by
      BY <2>1, <2>2 DEF Kept, Fields, Waiting
    <2>4. req'[r].key = q.key /\ req'[r].fwd = q.fwd /\ req'[r].ran = q.ran
      BY <2>1, <2>2 DEF Fields
    <2>5. QED  BY <2>1, <2>3, <2>4 DEF q, by, Missed
  <1>8. QED  BY <1>2, <1>3, <1>4, <1>5, <1>6, <1>7

(* What a host match yields.                                               *)
LEMMA MatchTypes ==
  ASSUME StateOK, NEW n, NEW m \in Matches(n)
  PROVE  m \in Pairs
  <1>1. CASE m = default
    BY <1>1 DEF StateOK
  <1>2. CASE \E h \in Hosts : m = [host |-> h, router |-> router[h]]
    BY <1>2 DEF StateOK, Pairs
  <1>3. QED  BY <1>1, <1>2 DEF Matches

(* Every step keeps the types of the requests; one that is past the match  *)
(* has a router, and one that is forwarded has a forwarder.                *)
LEMMA RequestsStep == Core /\ [Next]_vars => RequestsOK'
  <1> SUFFICES ASSUME Core, [Next]_vars
               PROVE  RequestsOK'
    OBVIOUS
  <1> USE DEF Core
  <1>1. CASE UNCHANGED vars
    BY <1>1 DEF vars, gvars, RequestsOK, RequestOK, ReqOK, Settings
  <1>2. ASSUME NEW c \in Callers, Reconfigure(c)
        PROVE  RequestsOK'
    <2>1. req' = [r \in Requests |-> req'[r]]
      BY <1>2, ReconfigureNarrows
    <2>2. ASSUME NEW r \in Requests
          PROVE  RequestOK(req[r])'
      <3>1. Narrowed(req[r], req'[r]) /\ (req[r] # Waiting => req'[r].owed \subseteq Settings')
        BY <1>2, ReconfigureNarrows
      <3>2. RequestOK(req[r])
        BY DEF RequestsOK
      <3>3. CASE req[r] = Waiting
        BY <3>1, <3>3 DEF Narrowed, RequestOK, ReqOK, Waiting
      <3>4. CASE req[r] # Waiting
        BY <3>1, <3>2, <3>4 DEF Narrowed, RequestOK, ReqOK
      <3>5. QED  BY <3>3, <3>4
    <2>3. QED  BY <2>1, <2>2 DEF RequestsOK
  <1>3. ASSUME NEW r \in Requests, Serve(r)
        PROVE  RequestsOK'
    <2>1. SUFFICES RequestOK(req[r])'
      BY <1>3, ServeLeaves DEF RequestsOK, RequestOK, ReqOK
    <2>2. RequestOK(req[r]) /\ req = [s \in Requests |-> req[s]]
      BY DEF RequestsOK
    <2>3. Settings' = Settings
      BY <1>3, ServeLeaves
    <2>4. ASSUME NEW n \in Names, Arrive(r, n)
          PROVE  RequestOK(req[r])'
      <3>1. PICK m \in Matches(n) :
              req'[r] = [pc    |-> IF m.router = None THEN "notfound" ELSE "matched",
                         name  |-> n,
                         match |-> m,
                         key   |-> None,
                         fwd   |-> None,
                         ran   |-> << >>,
                         by    |-> None,
                         owed  |-> InForce(hostmdws, routes, notfounds, {n, m.host} \cap Hosts),
                         gone  |-> {f \in Forwarders : fwd[f] = "closed"}]
        BY <2>4, ServeShape DEF Arrived
      <3>2. m \in Pairs
        BY MatchTypes
      <3>3. InForce(hostmdws, routes, notfounds, {n, m.host} \cap Hosts) \subseteq Settings
        BY InForceMonotone DEF Settings
      <3>4. << >> \in Seq({"mdw"} \X Hosts \X Mdws)
        OBVIOUS
      <3>5. /\ req'[r].pc \in {"matched", "notfound"} /\ req'[r].name \in Names
            /\ req'[r].match \in Pairs
            /\ req'[r].key = None /\ req'[r].fwd = None /\ req'[r].by = None
            /\ req'[r].ran \in Seq({"mdw"} \X Hosts \X Mdws)
        BY <3>1, <3>2, <3>4
      <3>6. req'[r].owed \subseteq Settings' /\ req'[r].gone \subseteq Forwarders
        <4>1. /\ req'[r].owed = InForce(hostmdws, routes, notfounds, {n, m.host} \cap Hosts)
              /\ req'[r].gone = {f \in Forwarders : fwd[f] = "closed"}
          BY <3>1
        <4>2. QED  BY <2>3, <3>3, <4>1
      <3>7. ReqOK(req[r])'
        BY <3>5, <3>6 DEF ReqOK
      <3>8. QED  BY <3>1, <3>7 DEF RequestOK, Fields
    <2>5. CASE ExecuteRoute(r)
      BY <2>2, <2>3, <2>5, ServeShape DEF Flagged, RequestOK, ReqOK, Kept, Waiting
    <2>6. CASE Wrap(r)
      <3>1. Chain(req[r].name, req[r].match.host) \in Seq({"mdw"} \X Hosts \X Mdws)
        BY ListTypes DEF Chain
      <3>2. QED  BY <2>2, <2>3, <2>6, <3>1, ServeShape DEF Wrapped, RequestOK, ReqOK, Kept, Waiting
    <2>7. ASSUME NEW k \in Keys, Execute(r, k)
          PROVE  RequestOK(req[r])'
      <3>1. req[r].match.router \in Routers
        BY <2>2, <2>7 DEF Execute, RequestOK, ReqOK, Waiting, Pairs
      <3>2. table[req[r].match.router][k] \in Forwarders \cup {None}
        BY <3>1 DEF StateOK
      <3>3. QED  BY <2>2, <2>3, <2>7, <3>2, ServeShape DEF LookedUp, AfterLookup, RequestOK, ReqOK, Kept, Waiting
    <2>8. CASE NotFound(r)
      <3>1. WhoseNotFound(req[r].name, req[r].match.host) \in Hosts \cup {None}
        BY DEF WhoseNotFound, Set
      <3>2. QED  BY <2>2, <2>3, <2>8, <3>1, ServeShape DEF Missed, RequestOK, ReqOK, Kept, Waiting
    <2>9. CASE Finish(r)
      BY <2>9, ServeShape DEF RequestOK, ReqOK, Waiting
    <2>10. QED
      BY <1>3, <2>4, <2>5, <2>6, <2>7, <2>8, <2>9 DEF Serve, Unlocked, Locked
  <1>4. QED  BY <1>1, <1>2, <1>3 DEF Next

-----------------------------------------------------------------------------
(* The lock and the tables                                                 *)

(* With g.lock free nobody is inside a critical section.                   *)
LEMMA FreeMeansNobody ==
  ASSUME StateOK, Exclusive, Free
  PROVE  \A c \in Callers : call[c].op \notin {"register", "close"}
  BY DEF StateOK, Exclusive, Free

(* Two callers are never inside one at the same time.                      *)
LEMMA OneInside ==
  ASSUME StateOK, Exclusive, NEW c \in Callers, call[c].op \in {"register", "close"}
  PROVE  /\ lock = c
         /\ \A d \in Callers \ {c} : call[d].op \notin {"register", "close"}
  BY DEF StateOK, Exclusive

(* The lock passes from one critical section to the next (route.go         *)
(* 156-295).                                                               *)
LEMMA ExclusiveStep == Core /\ [Next]_vars => Exclusive'
  <1> SUFFICES ASSUME Core, [Next]_vars
               PROVE  Exclusive'
    OBVIOUS
  <1> USE DEF Core
  <1>1. ASSUME UNCHANGED <<lock, call>>
        PROVE  Exclusive'
    BY <1>1 DEF Exclusive
  <1>2. ASSUME NEW r \in Requests, Serve(r)
        PROVE  Exclusive'
    BY <1>1, <1>2, ServeQuiet DEF Gateway, gvars
  <1>3. CASE UNCHANGED vars
    BY <1>1, <1>3 DEF vars, gvars
  <1>4. ASSUME NEW c \in Callers, Free, lock' = c, call' = [call EXCEPT ![c] = call'[c]],
               call'[c].op \in {"register", "close"}
        PROVE  Exclusive'
    BY <1>4, FreeMeansNobody DEF Exclusive, StateOK
  <1>5. ASSUME NEW c \in Callers, call[c].op \in {"register", "close"}, lock' = None,
               call' = [call EXCEPT ![c] = Idle]
        PROVE  Exclusive'
    BY <1>5, OneInside DEF Exclusive, StateOK, Idle
  <1>6. ASSUME NEW c \in Callers, lock' = lock, call' = [call EXCEPT ![c] = call'[c]],
               call[c].op \in {"register", "close"} <=> call'[c].op \in {"register", "close"}
        PROVE  Exclusive'
    BY <1>6 DEF Exclusive, StateOK
  <1>7. ASSUME NEW c \in Callers, NEW h \in Hosts, NEW k \in Keys, NEW f \in Forwarders, RegisterRoute(c, h, k, f)
        PROVE  Exclusive'
    BY <1>4, <1>7 DEF RegisterRoute, StateOK
  <1>8. ASSUME NEW c \in Callers, NEW h \in Hosts, NEW k \in Keys, UnregisterRoute(c, h, k)
        PROVE  Exclusive'
    BY <1>4, <1>8 DEF UnregisterRoute, StateOK
  <1>9. ASSUME NEW c \in Callers, NEW h \in Hosts, DelHost(c, h)
        PROVE  Exclusive'
    BY <1>4, <1>9 DEF DelHost, StateOK
  <1>10. ASSUME NEW c \in Callers, RegisterStore(c) \/ CloseEnd(c)
         PROVE  Exclusive'
    BY <1>5, <1>10 DEF RegisterStore, CloseEnd
  <1>11. ASSUME NEW c \in Callers, CloseForwarder(c)
         PROVE  Exclusive'
    <2>1. PICK f \in call[c].left : call' = [call EXCEPT ![c].left = @ \ {f}]
      BY <1>11 DEF CloseForwarder
    <2>2. call[c] \in Calls /\ call[c].op = "close"
      BY <1>11 DEF CloseForwarder, StateOK
    <2>3. call' = [call EXCEPT ![c] = [op |-> "close", left |-> call[c].left \ {f}]]
      BY <2>1, <2>2, CallShape
    <2>4. call' = [call EXCEPT ![c] = call'[c]] /\ call'[c].op = "close"
      BY <2>3 DEF StateOK
    <2>5. QED  BY <1>6, <1>11, <2>2, <2>4 DEF CloseForwarder, gvars
  <1>12. ASSUME NEW c \in Callers, NEW h \in Hosts, SetDefaultHost(c, h)
         PROVE  Exclusive'
    <2>1. lock' = lock /\ call' = [call EXCEPT ![c] = call'[c]]
      BY <1>12 DEF SetDefaultHost, gvars, StateOK
    <2>2. call[c].op = "idle" /\ call'[c].op = "lookup"
      BY <1>12 DEF SetDefaultHost, StateOK, Idle
    <2>3. QED  BY <1>6, <2>1, <2>2
  <1>13. ASSUME NEW c \in Callers, SetDefaultLookup(c) \/ SetDefaultRouter(c)
         PROVE  Exclusive'
    <2>1. lock' = lock /\ call' = [call EXCEPT ![c] = call'[c]]
      BY <1>13 DEF SetDefaultLookup, SetDefaultRouter, gvars, StateOK
    <2>2. call[c].op \in {"lookup", "set"} /\ call'[c].op \in {"set", "idle"}
      BY <1>13 DEF SetDefaultLookup, SetDefaultRouter, StateOK, Idle
    <2>3. QED  BY <1>6, <2>1, <2>2
  <1>14. ASSUME NEW c \in Callers, NEW h \in Hosts, AddHost(c, h)
         PROVE  Exclusive'
    BY <1>1, <1>14 DEF AddHost
  <1>15. ASSUME NEW c \in Callers, NEW m, SetMiddlewares(c, m)
         PROVE  Exclusive'
    BY <1>1, <1>15 DEF SetMiddlewares
  <1>16. ASSUME NEW c \in Callers, NEW h \in Hosts \cup {None}, NEW x, SetNotFound(c, h, x)
         PROVE  Exclusive'
    BY <1>1, <1>16 DEF SetNotFound
  <1>17. QED
    BY <1>2, <1>3, <1>7, <1>8, <1>9, <1>10, <1>11, <1>12, <1>13, <1>14, <1>15, <1>16
       DEF Next, Reconfigure, Continue, RegisterHostMiddlewares, ResetHostMiddlewares

(* The gateway's table and those of ship change together, but for the      *)
(* route that is being registered (route.go 137-173, 245-295).             *)
LEMMA TablesStep == Core /\ [Next]_vars => Tables'
  <1> SUFFICES ASSUME Core, [Next]_vars
               PROVE  Tables'
    OBVIOUS
  <1> USE DEF Core
  <1>1. ASSUME UNCHANGED <<hosts, routes, router, table, made>>,
               \A c \in Callers : IF call[c].op = "register" THEN call'[c] = call[c]
                                                           ELSE call'[c].op # "register"
        PROVE  Tables'
    BY <1>1 DEF Tables
  <1>2. ASSUME NEW r \in Requests, Serve(r)
        PROVE  Tables'
    BY <1>1, <1>2, ServeQuiet DEF Gateway, gvars, svars
  <1>3. CASE UNCHANGED vars
    BY <1>1, <1>3 DEF vars, gvars, svars
  <1>4. ASSUME NEW c \in Callers, NEW h \in Hosts, AddHost(c, h)
        PROVE  Tables'
    <2>1. /\ hosts' = hosts \cup {h} /\ made' = made + 1 /\ made' \in Routers /\ made \in Nat
          /\ router' = [router EXCEPT ![h] = made + 1]
          /\ UNCHANGED <<routes, table, call>>
          /\ h \notin hosts
      BY <1>4 DEF AddHost, Unknown, StateOK, Routers
    <2>2. /\ \A g \in Hosts : g \in hosts' <=> router'[g] # None
          /\ \A g \in Hosts : router'[g] # None => router'[g] <= made'
          /\ \A g, e \in Hosts : router'[g] # None /\ router'[g] = router'[e] => g = e
      BY <2>1 DEF Tables, StateOK, Routers
    <2>3. \A x \in Routers, k \in Keys : x > made' => table'[x][k] = None
      BY <2>1 DEF Tables, Routers
    <2>4. \A k \in Keys : table'[router'[h]][k] = None /\ routes'[h][k] = None
      BY <2>1 DEF Tables, StateOK, Routers
    <2>5. \A g \in hosts : g # h /\ router'[g] = router[g]
      BY <2>1 DEF Tables, StateOK
    <2>6. /\ \A g \in Hosts \ hosts', k \in Keys : routes'[g][k] = None
          /\ \A g \in hosts', k \in Keys :
               \/ table'[router'[g]][k] = routes'[g][k]
               \/ \E d \in Callers : call'[d].op = "register" /\ call'[d].host = g /\ call'[d].key = k
          /\ \A d \in Callers : call'[d].op = "register" =>
               /\ call'[d].host \in hosts'
               /\ routes'[call'[d].host][call'[d].key] = None
               /\ table'[router'[call'[d].host]][call'[d].key] = call'[d].fwd
      BY <2>1, <2>4, <2>5 DEF Tables
    <2>7. QED  BY <2>2, <2>3, <2>6 DEF Tables
  <1>5. ASSUME NEW c \in Callers, NEW h \in Hosts, NEW k \in Keys, NEW f \in Forwarders, RegisterRoute(c, h, k, f)
        PROVE  Tables'
    <2>1. /\ h \in hosts /\ routes[h][k] = None
          /\ table' = [table EXCEPT ![router[h]][k] = f]
          /\ call' = [call EXCEPT ![c] = [op |-> "register", host |-> h, key |-> k, fwd |-> f]]
          /\ UNCHANGED <<hosts, routes, router, made>>
      BY <1>5 DEF RegisterRoute, addRoute
    <2>2. \A d \in Callers : call[d].op # "register"
      BY <1>5, FreeMeansNobody DEF RegisterRoute
    <2>3. router[h] \in Routers /\ router[h] <= made /\ made \in Nat
      BY <2>1 DEF Tables, StateOK, Routers
    <2>4. \A g \in hosts, j \in Keys : <<g, j>> # <<h, k>> => table'[router[g]][j] = table[router[g]][j]
      BY <2>1, <2>3 DEF Tables, StateOK
    <2>5. table'[router[h]][k] = f
      BY <2>1, <2>3 DEF StateOK
    <2>6. \A x \in Routers, j \in Keys : x > made => table'[x][j] = None
      BY <2>1, <2>3 DEF Tables, StateOK, Routers
    <2>7. \A d \in Callers : call'[d].op = "register" => d = c
      BY <2>1, <2>2 DEF StateOK
    <2>8. call'[c] = [op |-> "register", host |-> h, key |-> k, fwd |-> f]
      BY <2>1 DEF StateOK
    <2>9. \A g \in hosts, j \in Keys :
            \/ table'[router[g]][j] = routes[g][j]
            \/ call'[c].op = "register" /\ call'[c].host = g /\ call'[c].key = j
      BY <2>2, <2>4, <2>8 DEF Tables
    <2>10. QED  BY <2>1, <2>5, <2>6, <2>7, <2>8, <2>9 DEF Tables
  <1>6. ASSUME NEW c \in Callers, RegisterStore(c)
        PROVE  Tables'
    <2> DEFINE h == call[c].host
               k == call[c].key
    <2>1. /\ call[c].op = "register" /\ h \in Hosts /\ k \in Keys
          /\ routes' = [routes EXCEPT ![h][k] = call[c].fwd]
          /\ call' = [call EXCEPT ![c] = Idle]
          /\ UNCHANGED <<hosts, router, table, made>>
      BY <1>6, CallShape DEF RegisterStore, svars, StateOK
    <2>2. h \in hosts /\ table[router[h]][k] = call[c].fwd
      BY <2>1 DEF Tables
    <2>3. \A d \in Callers : call'[d].op # "register"
      BY <2>1, OneInside DEF StateOK, Idle
    <2>4. \A d \in Callers : call[d].op = "register" => d = c
      BY <2>1, OneInside
    <2>5. /\ routes'[h][k] = call[c].fwd
          /\ \A g \in Hosts, j \in Keys : <<g, j>> # <<h, k>> => routes'[g][j] = routes[g][j]
      BY <2>1 DEF StateOK
    <2>6. \A g \in hosts, j \in Keys : table[router[g]][j] = routes'[g][j]
      BY <2>2, <2>4, <2>5 DEF Tables, StateOK
    <2>7. \A g \in Hosts \ hosts, j \in Keys : routes'[g][j] = None
      BY <2>2, <2>5 DEF Tables
    <2>8. QED  BY <2>1, <2>3, <2>6, <2>7 DEF Tables
  <1>7. ASSUME NEW c \in Callers, NEW h \in Hosts, NEW k \in Keys, UnregisterRoute(c, h, k)
        PROVE  Tables'
    <2>1. /\ h \in hosts
          /\ table' = [table EXCEPT ![router[h]][k] = None]
          /\ routes' = [routes EXCEPT ![h][k] = None]
          /\ call' = [call EXCEPT ![c] = [op |-> "close", left |-> {routes[h][k]}]]
          /\ UNCHANGED <<hosts, router, made>>
      BY <1>7 DEF UnregisterRoute, delRoute, Tables
    <2>2. \A d \in Callers : call[d].op # "register" /\ call'[d].op # "register"
      BY <1>7, <2>1, FreeMeansNobody DEF UnregisterRoute, StateOK
    <2>3. router[h] \in Routers
      BY <2>1 DEF Tables, StateOK
    <2>4. \A g \in hosts, j \in Keys : table'[router[g]][j] = routes'[g][j]
      <3>1. ASSUME NEW g \in hosts, NEW j \in Keys
            PROVE  /\ table[router[g]][j] = routes[g][j]
                   /\ router[g] \in Routers /\ g \in Hosts
                   /\ router[g] = router[h] <=> g = h
        <4>1. g \in Hosts /\ h \in Hosts /\ router[g] # None
          BY <3>1 DEF Tables, StateOK
        <4>2. router[g] \in Routers
          BY <4>1 DEF StateOK
        <4>3. table[router[g]][j] = routes[g][j]
          BY <2>2, <3>1 DEF Tables
        <4>4. router[g] = router[h] <=> g = h
          BY <4>1 DEF Tables
        <4>5. QED  BY <4>1, <4>2, <4>3, <4>4
      <3>2. ASSUME NEW g \in hosts, NEW j \in Keys
            PROVE  /\ table'[router[g]][j] = IF g = h /\ j = k THEN None ELSE table[router[g]][j]
                   /\ routes'[g][j] = IF g = h /\ j = k THEN None ELSE routes[g][j]
        BY <2>1, <2>3, <3>1, <3>2 DEF StateOK
      <3>3. QED  BY <3>1, <3>2
    <2>5. \A g \in Hosts \ hosts, j \in Keys : routes'[g][j] = None
      BY <2>1 DEF Tables, StateOK
    <2>6. \A x \in Routers, j \in Keys : x > made => table'[x][j] = None
      BY <2>1, <2>3 DEF Tables, StateOK
    <2>7. QED  BY <2>1, <2>2, <2>4, <2>5, <2>6 DEF Tables
  <1>8. ASSUME NEW c \in Callers, NEW h \in Hosts, DelHost(c, h)
        PROVE  Tables'
    <2>1. /\ hosts' = hosts \ {h}
          /\ routes' = [routes EXCEPT ![h] = [j \in Keys |-> None]]
          /\ router' = [router EXCEPT ![h] = None]
          /\ call' = [call EXCEPT ![c] = [op |-> "close", left |-> ForwardersOf(h)]]
          /\ UNCHANGED <<table, made>>
      BY <1>8 DEF DelHost
    <2>2. \A d \in Callers : call[d].op # "register" /\ call'[d].op # "register"
      BY <1>8, <2>1, FreeMeansNobody DEF DelHost, StateOK
    <2>3. \A g \in Hosts : IF g = h THEN router'[g] = None ELSE router'[g] = router[g] /\ routes'[g] = routes[g]
      BY <2>1 DEF StateOK
    <2>4. \A j \in Keys : routes'[h][j] = None
      BY <2>1 DEF StateOK
    <2>5. /\ \A g \in Hosts : g \in hosts' <=> router'[g] # None
          /\ \A g \in Hosts : router'[g] # None => router'[g] <= made
          /\ \A g, e \in Hosts : router'[g] # None /\ router'[g] = router'[e] => g = e
      BY <2>1, <2>3 DEF Tables
    <2>6. /\ \A g \in Hosts \ hosts', j \in Keys : routes'[g][j] = None
          /\ \A g \in hosts', j \in Keys : table[router'[g]][j] = routes'[g][j]
      <3>1. \A g \in Hosts \ hosts', j \in Keys : routes'[g][j] = None
        BY <2>1, <2>3, <2>4 DEF Tables
      <3>2. \A g \in hosts' : g \in hosts /\ router'[g] = router[g] /\ routes'[g] = routes[g]
        BY <2>1, <2>3 DEF StateOK
      <3>3. \A g \in hosts, j \in Keys : table[router[g]][j] = routes[g][j]
        BY <2>2 DEF Tables
      <3>4. QED  BY <3>1, <3>2, <3>3
    <2>7. QED  BY <2>1, <2>2, <2>5, <2>6 DEF Tables
  <1>9. ASSUME NEW c \in Callers, NEW h \in Hosts, SetDefaultHost(c, h)
        PROVE  Tables'
    BY <1>1, <1>9 DEF SetDefaultHost, gvars, svars, StateOK, Idle
  <1>10. ASSUME NEW c \in Callers, SetDefaultLookup(c)
         PROVE  Tables'
    BY <1>1, <1>10 DEF SetDefaultLookup, gvars, svars, StateOK, Idle
  <1>11. ASSUME NEW c \in Callers, SetDefaultRouter(c)
         PROVE  Tables'
    BY <1>1, <1>11 DEF SetDefaultRouter, gvars, StateOK, Idle
  <1>12. ASSUME NEW c \in Callers, CloseEnd(c)
         PROVE  Tables'
    BY <1>1, <1>12 DEF CloseEnd, svars, StateOK, Idle
  <1>13. ASSUME NEW c \in Callers, CloseForwarder(c)
         PROVE  Tables'
    <2>1. PICK f \in call[c].left : call' = [call EXCEPT ![c].left = @ \ {f}]
      BY <1>13 DEF CloseForwarder
    <2>2. call[c] \in Calls /\ call[c].op = "close"
      BY <1>13 DEF CloseForwarder, StateOK
    <2>3. call' = [call EXCEPT ![c] = [op |-> "close", left |-> call[c].left \ {f}]]
      BY <2>1, <2>2, CallShape
    <2>4. QED  BY <1>1, <1>13, <2>2, <2>3 DEF CloseForwarder, gvars, svars, StateOK
  <1>14. ASSUME NEW c \in Callers, NEW m, SetMiddlewares(c, m)
         PROVE  Tables'
    BY <1>1, <1>14 DEF SetMiddlewares, svars
  <1>15. ASSUME NEW c \in Callers, NEW h \in Hosts \cup {None}, NEW x, SetNotFound(c, h, x)
         PROVE  Tables'
    BY <1>1, <1>15 DEF SetNotFound, svars
  <1>16. QED
    BY <1>2, <1>3, <1>4, <1>5, <1>6, <1>7, <1>8, <1>9, <1>10, <1>11, <1>12, <1>13, <1>14, <1>15
       DEF Next, Reconfigure, Continue, RegisterHostMiddlewares, ResetHostMiddlewares

(* Core holds in every state.                                              *)
THEOREM CoreHolds == Spec => []Core
  <1>1. Core /\ [Next]_vars => Core'
    BY StateStep, RequestsStep, ExclusiveStep, TablesStep DEF Core
  <1>2. QED  BY CoreInit, <1>1, PTL DEF Spec

(* A request that is past the host match has a router, and one that is     *)
(* forwarded has a forwarder; and the types (gateway.go, route.go).        *)
THEOREM TypeCorrect == Spec => []TypeOK
  BY CoreHolds, CoreTypes, PTL

(* The router framework and the gateway's table agree whenever g.lock is   *)
(* free (route.go 137-173, 245-295).                                       *)
THEOREM RoutersMirror == Spec => []RouterMirrors
  <1>1. Core => RouterMirrors
    <2> SUFFICES ASSUME Core, Free, NEW h \in Hosts
                 PROVE  /\ h \in hosts <=> router[h] # None
                        /\ IF h \in hosts THEN table[router[h]] = routes[h]
                                          ELSE \A k \in Keys : routes[h][k] = None
      BY DEF RouterMirrors
    <2>1. CASE h \in hosts
      <3>1. table[router[h]] \in [Keys -> Forwarders \cup {None}] /\ routes[h] \in [Keys -> Forwarders \cup {None}]
        BY <2>1 DEF Core, StateOK, Tables
      <3>2. \A k \in Keys : table[router[h]][k] = routes[h][k]
        BY <2>1, FreeMeansNobody DEF Core, Tables
      <3>3. table[router[h]] = routes[h]
        BY <3>1, <3>2
      <3>4. QED  BY <2>1, <3>3 DEF Core, Tables
    <2>2. CASE h \notin hosts
      BY <2>2 DEF Core, Tables
    <2>3. QED  BY <2>1, <2>2
  <1>2. QED  BY CoreHolds, <1>1, PTL

-----------------------------------------------------------------------------
(* Who owns a forwarder                                                    *)

InRoute(f) == \E h \in Hosts, k \in Keys : routes[h][k] = f

InCall(c, f) ==
  \/ call[c].op = "register" /\ call[c].fwd = f
  \/ call[c].op = "close" /\ f \in call[c].left

(* The forwarders that were taken and not closed are those in a route and  *)
(* those in a call; none is in two routes, or in a route and in a call.    *)
Owned ==
  /\ \A f \in Forwarders : fwd[f] = "taken" <=> InRoute(f) \/ (\E c \in Callers : InCall(c, f))
  /\ \A f \in Forwarders, c \in Callers : InCall(c, f) => ~InRoute(f)
  /\ \A g, h \in Hosts, j, k \in Keys :
       routes[g][j] # None /\ routes[g][j] = routes[h][k] => g = h /\ j = k

(* All forwarders are new before the first call.                           *)
LEMMA OwnedInit == Init => Owned
  BY DEF Init, Owned, InRoute, InCall, Idle

(* A forwarder passes from the call that registers it to its route and     *)
(* from there to the call that closes it (route.go 160-170, 256-292).      *)
LEMMA OwnedStep == Core /\ Owned /\ [Next]_vars => Owned'
  <1> SUFFICES ASSUME Core, Owned, [Next]_vars
               PROVE  Owned'
    OBVIOUS
  <1> USE DEF Core
  <1>1. ASSUME UNCHANGED <<routes, fwd>>,
               \A c \in Callers : IF call[c].op \in {"register", "close"}
                                 THEN call'[c] = call[c]
                                 ELSE call'[c].op \notin {"register", "close"}
        PROVE  Owned'
    BY <1>1 DEF Owned, InRoute, InCall
  <1>2. ASSUME NEW r \in Requests, Serve(r)
        PROVE  Owned'
    BY <1>1, <1>2, ServeQuiet DEF Gateway, gvars, svars
  <1>3. CASE UNCHANGED vars
    BY <1>1, <1>3 DEF vars, gvars, svars
  <1>4. ASSUME NEW c \in Callers, NEW h \in Hosts, NEW k \in Keys, NEW f \in Forwarders, RegisterRoute(c, h, k, f)
        PROVE  Owned'
    <2>1. /\ fwd[f] = "new" /\ fwd' = [fwd EXCEPT ![f] = "taken"]
          /\ call' = [call EXCEPT ![c] = [op |-> "register", host |-> h, key |-> k, fwd |-> f]]
          /\ routes' = routes
      BY <1>4 DEF RegisterRoute
    <2>2. \A d \in Callers : \A g : ~InCall(d, g)
      BY <1>4, FreeMeansNobody DEF RegisterRoute, InCall
    <2>3. \A d \in Callers : \A g : InCall(d, g)' <=> d = c /\ g = f
      BY <2>1, <2>2 DEF InCall, StateOK
    <2>4. \A g : InRoute(g)' <=> InRoute(g)
      BY <2>1 DEF InRoute
    <2>5. ~InRoute(f)
      BY <2>1 DEF Owned
    <2>6. QED  BY <2>1, <2>2, <2>3, <2>4, <2>5 DEF Owned, StateOK
  <1>5. ASSUME NEW c \in Callers, RegisterStore(c)
        PROVE  Owned'
    <2> DEFINE h == call[c].host
               k == call[c].key
               f == call[c].fwd
    <2>1. /\ call[c].op = "register" /\ h \in Hosts /\ k \in Keys /\ f \in Forwarders
          /\ routes' = [routes EXCEPT ![h][k] = f]
          /\ call' = [call EXCEPT ![c] = Idle]
          /\ fwd' = fwd
      BY <1>5, CallShape DEF RegisterStore, StateOK
    <2>2. routes[h][k] = None
      BY <2>1 DEF Tables
    <2>3. /\ routes'[h][k] = f
          /\ \A g \in Hosts, j \in Keys : <<g, j>> # <<h, k>> => routes'[g][j] = routes[g][j]
      BY <2>1 DEF StateOK
    <2>4. InCall(c, f) /\ \A d \in Callers : \A g : InCall(d, g) <=> d = c /\ g = f
      BY <2>1, OneInside DEF InCall
    <2>5. \A d \in Callers : \A g : ~InCall(d, g)'
      BY <2>1, OneInside DEF InCall, StateOK, Idle
    <2>6. \A g \in Forwarders : InRoute(g)' <=> InRoute(g) \/ g = f
      BY <2>1, <2>2, <2>3 DEF InRoute
    <2>7. \A g \in Hosts, j \in Keys : routes[g][j] # f
      BY <2>1, <2>4 DEF Owned, InRoute
    <2>8. \A g, e \in Hosts, i, j \in Keys :
            routes'[g][i] # None /\ routes'[g][i] = routes'[e][j] => g = e /\ i = j
      BY <2>3, <2>7 DEF Owned
    <2>9. QED  BY <2>1, <2>4, <2>5, <2>6, <2>8 DEF Owned
  <1>6. ASSUME NEW c \in Callers, NEW h \in Hosts, NEW k \in Keys, UnregisterRoute(c, h, k)
        PROVE  Owned'
    <2> DEFINE f == routes[h][k]
    <2>1. /\ f \in Forwarders /\ f # None
          /\ routes' = [routes EXCEPT ![h][k] = None]
          /\ call' = [call EXCEPT ![c] = [op |-> "close", left |-> {f}]]
          /\ fwd' = fwd
      BY <1>6 DEF UnregisterRoute, StateOK
    <2>2. \A d \in Callers : \A g : ~InCall(d, g)
      BY <1>6, FreeMeansNobody DEF UnregisterRoute, InCall
    <2>3. \A d \in Callers : \A g : InCall(d, g)' <=> d = c /\ g = f
      BY <2>1, <2>2 DEF InCall, StateOK
    <2>4. /\ routes'[h][k] = None
          /\ \A g \in Hosts, j \in Keys : <<g, j>> # <<h, k>> => routes'[g][j] = routes[g][j]
      BY <2>1 DEF StateOK
    <2>5. \A g \in Forwarders : InRoute(g)' <=> InRoute(g) /\ g # f
      BY <2>1, <2>4 DEF InRoute, Owned
    <2>6. InRoute(f)
      BY DEF InRoute
    <2>7. \A g, e \in Hosts, i, j \in Keys :
            routes'[g][i] # None /\ routes'[g][i] = routes'[e][j] => g = e /\ i = j
      BY <2>4 DEF Owned
    <2>8. QED  BY <2>1, <2>2, <2>3, <2>5, <2>6, <2>7 DEF Owned
  <1>7. ASSUME NEW c \in Callers, NEW h \in Hosts, DelHost(c, h)
        PROVE  Owned'
    <2>1. /\ routes' = [routes EXCEPT ![h] = [j \in Keys |-> None]]
          /\ call' = [call EXCEPT ![c] = [op |-> "close", left |-> ForwardersOf(h)]]
          /\ fwd' = fwd
      BY <1>7 DEF DelHost
    <2>2. \A d \in Callers : \A g : ~InCall(d, g)
      BY <1>7, FreeMeansNobody DEF DelHost, InCall
    <2>3. \A d \in Callers : \A g : InCall(d, g)' <=> d = c /\ g \in ForwardersOf(h)
      BY <2>1, <2>2 DEF InCall, StateOK
    <2>4. \A g \in Hosts, j \in Keys : routes'[g][j] = IF g = h THEN None ELSE routes[g][j]
      BY <2>1 DEF StateOK
    <2>5. \A g \in Forwarders : g \in ForwardersOf(h) <=> \E j \in Keys : routes[h][j] = g
      BY DEF ForwardersOf
    <2>6. \A g \in Forwarders : InRoute(g)' <=> InRoute(g) /\ g \notin ForwardersOf(h)
      BY <2>4, <2>5 DEF InRoute, Owned
    <2>7. \A g \in Forwarders : g \in ForwardersOf(h) => InRoute(g)
      BY <2>5 DEF InRoute
    <2>8. \A g, e \in Hosts, i, j \in Keys :
            routes'[g][i] # None /\ routes'[g][i] = routes'[e][j] => g = e /\ i = j
      BY <2>4 DEF Owned
    <2>9. QED  BY <2>1, <2>2, <2>3, <2>6, <2>7, <2>8 DEF Owned
  <1>8. ASSUME NEW c \in Callers, CloseForwarder(c)
        PROVE  Owned'
    <2>1. PICK f \in call[c].left : /\ fwd' = [fwd EXCEPT ![f] = "closed"]
                                    /\ call' = [call EXCEPT ![c].left = @ \ {f}]
      BY <1>8 DEF CloseForwarder
    <2>2. call[c] \in Calls /\ call[c].op = "close" /\ routes' = routes
      BY <1>8 DEF CloseForwarder, StateOK, gvars
    <2>3. call' = [call EXCEPT ![c] = [op |-> "close", left |-> call[c].left \ {f}]]
      BY <2>1, <2>2, CallShape
    <2>4. \A d \in Callers : \A g : InCall(d, g) <=> d = c /\ g \in call[c].left
      BY <2>2, OneInside DEF InCall
    <2>5. \A d \in Callers : \A g : InCall(d, g)' <=> d = c /\ g \in call[c].left \ {f}
      BY <2>2, <2>3, OneInside DEF InCall, StateOK
    <2>6. \A g : InRoute(g)' <=> InRoute(g)
      BY <2>2 DEF InRoute
    <2>7. f \in Forwarders /\ ~InRoute(f)
      BY <2>2, <2>4, CallShape DEF Owned
    <2>8. \A g \in Forwarders : fwd'[g] = IF g = f THEN "closed" ELSE fwd[g]
      BY <2>1, <2>7 DEF StateOK
    <2>9. QED  BY <2>2, <2>4, <2>5, <2>6, <2>7, <2>8 DEF Owned
  <1>9. ASSUME NEW c \in Callers, CloseEnd(c)
        PROVE  Owned'
    <2>1. /\ call[c].op = "close" /\ call[c].left = {}
          /\ call' = [call EXCEPT ![c] = Idle] /\ UNCHANGED <<routes, fwd>>
      BY <1>9 DEF CloseEnd
    <2>2. \A d \in Callers : \A g : ~InCall(d, g) /\ ~InCall(d, g)'
      BY <2>1, OneInside DEF InCall, StateOK, Idle
    <2>3. \A g : InRoute(g)' <=> InRoute(g)
      BY <2>1 DEF InRoute
    <2>4. QED  BY <2>1, <2>2, <2>3 DEF Owned
  <1>10. ASSUME NEW c \in Callers, NEW h \in Hosts, AddHost(c, h)
         PROVE  Owned'
    BY <1>10 DEF AddHost, Owned, InRoute, InCall
  <1>11. ASSUME NEW c \in Callers, NEW h \in Hosts, SetDefaultHost(c, h)
         PROVE  Owned'
    BY <1>1, <1>11 DEF SetDefaultHost, gvars, StateOK, Idle
  <1>12. ASSUME NEW c \in Callers, SetDefaultLookup(c)
         PROVE  Owned'
    BY <1>1, <1>12 DEF SetDefaultLookup, gvars, StateOK, Idle
  <1>13. ASSUME NEW c \in Callers, SetDefaultRouter(c)
         PROVE  Owned'
    BY <1>1, <1>13 DEF SetDefaultRouter, gvars, StateOK, Idle
  <1>14. ASSUME NEW c \in Callers, NEW m, SetMiddlewares(c, m)
         PROVE  Owned'
    BY <1>14 DEF SetMiddlewares, Owned, InRoute, InCall
  <1>15. ASSUME NEW c \in Callers, NEW h \in Hosts \cup {None}, NEW x, SetNotFound(c, h, x)
         PROVE  Owned'
    BY <1>15 DEF SetNotFound, Owned, InRoute, InCall
  <1>16. QED
    BY <1>2, <1>3, <1>4, <1>5, <1>6, <1>7, <1>8, <1>9, <1>10, <1>11, <1>12, <1>13, <1>14, <1>15
       DEF Next, Reconfigure, Continue, RegisterHostMiddlewares, ResetHostMiddlewares

(* Each forwarder is in the hands of one route or one call in every state. *)
THEOREM OwnedHolds == Spec => []Owned
  BY CoreHolds, OwnedInit, OwnedStep, PTL DEF Spec

(* A forwarder that a route took is in one route or in one call, so that   *)
(* it is closed once and never leaked (route.go 160-170, 256, 289-292).    *)
THEOREM ForwarderHasOneOwner == Spec => []OwnedOnce
  <1>1. Core /\ Owned => OwnedOnce
    <2> SUFFICES ASSUME Core, Owned, NEW f \in Forwarders
                 PROVE  IF fwd[f] = "taken" THEN \E p \in Places(f) : Places(f) = {p}
                                            ELSE Places(f) = {}
      BY DEF OwnedOnce
    <2>1. \A p : p \in Places(f) <=>
            \/ p \in Hosts \X Keys /\ routes[p[1]][p[2]] = f
            \/ p \in Callers /\ InCall(p, f)
      BY DEF Places, InCall
    <2>2. CASE fwd[f] # "taken"
      BY <2>1, <2>2 DEF Owned, InRoute
    <2>3. CASE fwd[f] = "taken" /\ InRoute(f)
      <3>1. PICK h \in Hosts, k \in Keys : routes[h][k] = f
        BY <2>3 DEF InRoute
      <3>2. \A p : p \in Places(f) <=> p = <<h, k>>
        BY <2>1, <2>3, <3>1 DEF Owned
      <3>3. Places(f) = {<<h, k>>}
        BY <3>2
      <3>4. QED  BY <2>3, <3>3
    <2>4. CASE fwd[f] = "taken" /\ ~InRoute(f)
      <3>1. PICK c \in Callers : InCall(c, f)
        BY <2>4 DEF Owned
      <3>2. \A d \in Callers : InCall(d, f) => d = c
        BY <3>1, OneInside DEF InCall, Core
      <3>3. \A p : p \in Places(f) <=> p = c
        BY <2>1, <2>4, <3>1, <3>2 DEF InRoute
      <3>4. Places(f) = {c}
        BY <3>3
      <3>5. QED  BY <2>4, <3>4
    <2>5. QED  BY <2>2, <2>3, <2>4
  <1>2. QED  BY CoreHolds, OwnedHolds, <1>1, PTL

-----------------------------------------------------------------------------
(* The lists of middlewares                                                *)

(* The flag is off only when all the lists are empty.                      *)
ListsOK == ~hashmdw => \A h \in Hosts : hostmdws[h] = << >>

(* Only the empty list has no members.                                     *)
LEMMA EmptyList ==
  ASSUME NEW S, NEW s \in Seq(S), DOMAIN s = {}
  PROVE  s = << >>
  <1>1. DOMAIN s = 1..Len(s) /\ Len(s) \in Nat
    BY s \in Seq(S)
  <1>2. 1 \notin 1..Len(s)
    BY <1>1
  <1>3. Len(s) = 0
    BY <1>1, <1>2
  <1>4. QED  BY <1>3

(* Nothing is registered only when every list is empty.                    *)
LEMMA NoMdws ==
  ASSUME NEW m \in [Hosts -> Seq(Mdws)], MdwsIn(m, Hosts) = {}, NEW h \in Hosts
  PROVE  m[h] = << >>
  <1>1. \A i \in DOMAIN m[h] : <<"mdw", h, m[h][i]>> \in MdwsIn(m, Hosts)
    BY DEF MdwsIn
  <1>2. m[h] \in Seq(Mdws)
    OBVIOUS
  <1>3. DOMAIN m[h] = {}
    BY <1>1
  <1>4. QED  BY <1>2, <1>3, EmptyList

(* The flag is right whenever a list was changed (gateway.go 377-404).     *)
LEMMA ListsStep == Core /\ ListsOK /\ [Next]_vars => ListsOK'
  <1> SUFFICES ASSUME Core, ListsOK, [Next]_vars
               PROVE  ListsOK'
    OBVIOUS
  <1> USE DEF Core
  <1>1. ASSUME UNCHANGED <<hostmdws, hashmdw>>
        PROVE  ListsOK'
    BY <1>1 DEF ListsOK
  <1>2. ASSUME NEW r \in Requests, Serve(r)
        PROVE  ListsOK'
    BY <1>1, <1>2, ServeQuiet DEF Gateway, gvars
  <1>3. ASSUME NEW c \in Callers, NEW h \in Hosts, DelHost(c, h)
        PROVE  ListsOK'
    BY <1>3 DEF DelHost, ListsOK, StateOK
  <1>4. ASSUME NEW c \in Callers, NEW h \in Hosts, NEW m \in Mdws, RegisterHostMiddlewares(c, h, m)
        PROVE  ListsOK'
    BY <1>4 DEF RegisterHostMiddlewares, ListsOK
  <1>5. ASSUME NEW c \in Callers, NEW h \in Hosts, NEW ms \in MdwLists, ResetHostMiddlewares(c, h, ms)
        PROVE  ListsOK'
    <2>1. hostmdws' = [hostmdws EXCEPT ![h] = ms] /\ hashmdw' = FlagAfter(ms, hostmdws')
      BY <1>5 DEF ResetHostMiddlewares, SetMiddlewares
    <2>2. hostmdws' \in [Hosts -> Seq(Mdws)]
      BY <2>1, MdwListTypes DEF StateOK
    <2>3. CASE hashmdw'
      BY <2>2, <2>3 DEF ListsOK
    <2>4. CASE ~hashmdw' /\ ~hashmdw
      BY <2>1, <2>2, <2>4 DEF ListsOK, StateOK, FlagAfter
    <2>5. CASE ~hashmdw' /\ hashmdw
      <3>1. MdwsIn(hostmdws', Hosts) = {}
        BY <2>1, <2>5 DEF FlagAfter
      <3>2. QED  BY <2>2, <3>1, NoMdws DEF ListsOK
    <2>6. QED  BY <2>3, <2>4, <2>5
  <1>6. ASSUME NEW c \in Callers, NEW h \in Hosts, AddHost(c, h) \/ SetDefaultHost(c, h)
        PROVE  ListsOK'
    BY <1>1, <1>6 DEF AddHost, SetDefaultHost, gvars
  <1>7. ASSUME NEW c \in Callers, NEW h \in Hosts, NEW k \in Keys, NEW f \in Forwarders,
               RegisterRoute(c, h, k, f) \/ UnregisterRoute(c, h, k)
        PROVE  ListsOK'
    BY <1>1, <1>7 DEF RegisterRoute, UnregisterRoute
  <1>8. ASSUME NEW c \in Callers, NEW h \in Hosts, NEW k \in Keys, UnregisterRoute(c, h, k)
        PROVE  ListsOK'
    BY <1>1, <1>8 DEF UnregisterRoute
  <1>9. ASSUME NEW c \in Callers, Continue(c)
        PROVE  ListsOK'
    BY <1>1, <1>9
       DEF Continue, RegisterStore, CloseForwarder, CloseEnd, SetDefaultLookup, SetDefaultRouter, gvars
  <1>10. ASSUME NEW c \in Callers, NEW h \in Hosts \cup {None}, NEW x, SetNotFound(c, h, x)
         PROVE  ListsOK'
    BY <1>1, <1>10 DEF SetNotFound
  <1>11. CASE UNCHANGED vars
    BY <1>1, <1>11 DEF vars, gvars
  <1>12. QED
    BY <1>2, <1>3, <1>4, <1>5, <1>6, <1>7, <1>8, <1>9, <1>10, <1>11 DEF Next, Reconfigure

(* The lists and the flag agree in every state (gateway.go 377-404).       *)
THEOREM ListsHold == Spec => []ListsOK
  <1>1. Init => ListsOK
    BY DEF Init, ListsOK
  <1>2. QED  BY CoreHolds, <1>1, ListsStep, PTL DEF Spec

(* What a request runs: the middlewares of a host, in their order.         *)
LEMMA MdwsOfShape ==
  ASSUME NEW h \in Hosts
  PROVE  \A i \in DOMAIN hostmdws[h] : <<"mdw", h, hostmdws[h][i]>> \in ToSet(MdwsOf(h))
  <1>1. MdwsOf(h) = [i \in DOMAIN hostmdws[h] |-> <<"mdw", h, hostmdws[h][i]>>]
    BY DEF MdwsOf
  <1>2. QED  BY <1>1 DEF ToSet

(* The members of a concatenation are those of its parts.                  *)
LEMMA ConcatMembers ==
  ASSUME NEW S, NEW s \in Seq(S), NEW t \in Seq(S)
  PROVE  ToSet(s) \subseteq ToSet(s \o t) /\ ToSet(t) \subseteq ToSet(s \o t)
  <1>1. \A i \in DOMAIN s : i \in DOMAIN (s \o t) /\ (s \o t)[i] = s[i]
    OBVIOUS
  <1>2. \A i \in DOMAIN t : i + Len(s) \in DOMAIN (s \o t) /\ (s \o t)[i + Len(s)] = t[i]
    OBVIOUS
  <1>3. QED  BY <1>1, <1>2 DEF ToSet

-----------------------------------------------------------------------------
(* What a request ran, and who answers it                                  *)

Covered(q) == \A s \in q.owed : s[1] = "mdw" => s \in ToSet(q.ran)

OwnAnswer(q) ==
  \A s \in q.owed : s[1] = "notfound" => q.by # None /\ (s[2] = q.name => q.by = q.name)

(* What a request is owed is of its name or of the host it matched; its    *)
(* list is empty until it wraps the middlewares.                           *)
Answers(q) ==
  /\ \A s \in q.owed : s[2] \in {q.name, q.match.host}
  /\ q.pc \in {"matched", "wrapping"} => q.ran = << >>
  /\ q.pc \in {"routing", "forward"} => Covered(q)
  /\ q.pc = "missed" => OwnAnswer(q)

Answered == \A r \in Requests : req[r] # Waiting => Answers(req[r])

(* A request that is owed less is still served as it should.               *)
LEMMA NarrowedAnswers ==
  ASSUME NEW p, NEW q, Narrowed(p, q), p # Waiting, Answers(p)
  PROVE  Answers(q)
  <1>1. /\ q.pc = p.pc /\ q.name = p.name /\ q.match = p.match /\ q.ran = p.ran /\ q.by = p.by
        /\ q.owed \subseteq p.owed
    BY DEF Narrowed
  <1>2. (Covered(p) => Covered(q)) /\ (OwnAnswer(p) => OwnAnswer(q))
    BY <1>1 DEF Covered, OwnAnswer
  <1>3. QED  BY <1>1, <1>2 DEF Answers

(* The middlewares that are wrapped cover what is owed.                    *)
LEMMA ChainCovers ==
  ASSUME Core, NEW n, NEW h, NEW s \in Settings, s[1] = "mdw", s[2] \in {n, h}
  PROVE  s \in ToSet(Chain(n, h))
  <1>1. /\ MdwsOf(n) \in Seq({"mdw"} \X Hosts \X Mdws)
        /\ MdwsOf(h) \in Seq({"mdw"} \X Hosts \X Mdws)
    BY ListTypes DEF Core
  <1>2. ToSet(MdwsOf(n)) \subseteq ToSet(Chain(n, h)) /\ ToSet(MdwsOf(h)) \subseteq ToSet(Chain(n, h))
    BY <1>1, ConcatMembers DEF Chain
  <1>3. s[2] \in Hosts /\ \E i \in DOMAIN hostmdws[s[2]] : s = <<"mdw", s[2], hostmdws[s[2]][i]>>
    BY InForceShape DEF Settings
  <1>4. s \in ToSet(MdwsOf(s[2]))
    BY <1>3, MdwsOfShape
  <1>5. QED  BY <1>2, <1>4

(* The handler that is chosen is owed to the request.                      *)
LEMMA NotFoundOwn ==
  ASSUME Core, NEW n, NEW h, NEW s \in Settings, s[1] = "notfound", s[2] \in {n, h}
  PROVE  WhoseNotFound(n, h) # None /\ (s[2] = n => WhoseNotFound(n, h) = n)
  <1>1. s[2] \in Hosts /\ notfounds[s[2]] # None
    BY InForceShape DEF Settings
  <1>2. QED  BY <1>1 DEF WhoseNotFound, Set

(* Every step of a request, and every call meanwhile, leaves it run and    *)
(* answered as it is owed (gateway.go 219-295).                            *)
LEMMA AnsweredStep == Core /\ ListsOK /\ Answered /\ [Next]_vars => Answered'
  <1> SUFFICES ASSUME Core, ListsOK, Answered, [Next]_vars
               PROVE  Answered'
    OBVIOUS
  <1>1. CASE UNCHANGED vars
    BY <1>1 DEF vars, Answered
  <1>2. ASSUME NEW c \in Callers, Reconfigure(c)
        PROVE  Answered'
    <2> SUFFICES ASSUME NEW r \in Requests, req'[r] # Waiting
                 PROVE  Answers(req'[r])
      BY DEF Answered, Answers, Covered, OwnAnswer
    <2>1. Narrowed(req[r], req'[r])
      BY <1>2, ReconfigureNarrows
    <2>2. req[r] # Waiting
      BY <2>1 DEF Narrowed
    <2>3. QED  BY <2>1, <2>2, NarrowedAnswers DEF Answered
  <1>3. ASSUME NEW r \in Requests, Serve(r)
        PROVE  Answered'
    <2> DEFINE p == req[r]
               q == req'[r]
    <2>1. SUFFICES ASSUME q # Waiting
                   PROVE  Answers(q)
      BY <1>3, ServeLeaves DEF Answered, Core, Answers, Covered, OwnAnswer
    <2>2. RequestsOK /\ (p # Waiting => Answers(p) /\ p.owed \subseteq Settings)
      BY DEF Core, RequestsOK, RequestOK, ReqOK, Answered
    <2>3. ASSUME NEW n \in Names, Arrived(q, n)
          PROVE  Answers(q)
      <3>1. PICK m \in Matches(n) :
              q = [pc    |-> IF m.router = None THEN "notfound" ELSE "matched",
                   name  |-> n,
                   match |-> m,
                   key   |-> None,
                   fwd   |-> None,
                   ran   |-> << >>,
                   by    |-> None,
                   owed  |-> InForce(hostmdws, routes, notfounds, {n, m.host} \cap Hosts),
                   gone  |-> {f \in Forwarders : fwd[f] = "closed"}]
        BY <2>3 DEF Arrived
      <3>2. /\ q.pc \in {"notfound", "matched"} /\ q.ran = << >> /\ q.name = n /\ q.match = m
            /\ q.owed = InForce(hostmdws, routes, notfounds, {n, m.host} \cap Hosts)
        BY <3>1
      <3>3. \A s \in q.owed : s[2] \in {n, m.host}
        BY <3>2, InForceShape
      <3>4. QED  BY <3>2, <3>3 DEF Answers
    <2>4. ASSUME p.pc = "matched", Flagged(p, q)
          PROVE  Answers(q)
      <3>1. Answers(p) /\ p.owed \subseteq Settings
        BY <2>2, <2>4 DEF Flagged, Kept
      <3>2. /\ q.name = p.name /\ q.match = p.match /\ q.owed = p.owed /\ q.ran = << >>
            /\ q.pc = IF hashmdw THEN "wrapping" ELSE "routing"
        BY <2>4, <3>1 DEF Flagged, Kept, Answers
      <3>3. CASE hashmdw
        BY <3>1, <3>2, <3>3 DEF Answers
      <3>4. CASE ~hashmdw
        <4>1. \A h \in Hosts : hostmdws[h] = << >>
          BY <3>4 DEF ListsOK
        <4>2. \A s \in Settings : s[1] # "mdw"
          BY <4>1, InForceShape DEF Settings
        <4>3. Covered(q)
          BY <3>1, <3>2, <4>2 DEF Covered
        <4>4. QED  BY <3>1, <3>2, <3>4, <4>3 DEF Answers
      <3>5. QED  BY <3>3, <3>4
    <2>5. ASSUME p.pc = "wrapping", Wrapped(p, q)
          PROVE  Answers(q)
      <3>1. Answers(p) /\ p.owed \subseteq Settings
        BY <2>2, <2>5 DEF Wrapped, Kept
      <3>2. /\ q.name = p.name /\ q.match = p.match /\ q.owed = p.owed
            /\ q.pc = "routing" /\ q.ran = Chain(q.name, q.match.host)
        BY <2>5 DEF Wrapped, Kept
      <3>3. Covered(q)
        BY <3>1, <3>2, ChainCovers DEF Covered, Answers
      <3>4. QED  BY <3>1, <3>2, <3>3 DEF Answers
    <2>6. ASSUME NEW k \in Keys, p.pc = "routing", LookedUp(p, q, k)
          PROVE  Answers(q)
      <3>1. Answers(p)
        BY <2>2, <2>6 DEF LookedUp, Kept
      <3>2. /\ q.name = p.name /\ q.match = p.match /\ q.owed = p.owed /\ q.ran = p.ran
            /\ q.pc \in {"notfound", "forward"}
        BY <2>6 DEF LookedUp, Kept, AfterLookup
      <3>3. QED  BY <2>6, <3>1, <3>2 DEF Answers, Covered
    <2>7. ASSUME p.pc = "notfound", Missed(p, q)
          PROVE  Answers(q)
      <3>1. Answers(p) /\ p.owed \subseteq Settings
        BY <2>2, <2>7 DEF Missed, Kept
      <3>2. /\ q.name = p.name /\ q.match = p.match /\ q.owed = p.owed
            /\ q.pc = "missed" /\ q.by = WhoseNotFound(q.name, q.match.host)
        BY <2>7 DEF Missed, Kept
      <3>3. OwnAnswer(q)
        BY <3>1, <3>2, NotFoundOwn DEF OwnAnswer, Answers
      <3>4. QED  BY <3>1, <3>2, <3>3 DEF Answers
    <2>8. QED
      BY <1>3, <2>1, <2>2, <2>3, <2>4, <2>5, <2>6, <2>7, ServeShape DEF Serve, Unlocked, Locked
  <1>4. QED  BY <1>1, <1>2, <1>3 DEF Next

(* What a request ran and who answers it is right in every state.          *)
THEOREM AnsweredHolds == Spec => []Answered
  <1>1. Init => Answered
    BY DEF Init, Answered
  <1>2. QED  BY CoreHolds, ListsHold, <1>1, AnsweredStep, PTL DEF Spec

(* A request runs the middlewares that were there all the time, whatever   *)
(* the flag was meanwhile (gateway.go 224-249, 377-404).                   *)
THEOREM MiddlewaresRun == Spec => []MiddlewaresNotSkipped
  <1>1. Core /\ Answered => MiddlewaresNotSkipped
    BY DEF MiddlewaresNotSkipped, Owed, Answered, Answers, Covered, Waiting
  <1>2. QED  BY CoreHolds, AnsweredHolds, <1>1, PTL

(* A request that finds no route is answered by its own host's NotFound    *)
(* handler, if that was there all the time (gateway.go 283-293).           *)
THEOREM MissedByOwn == Spec => []OwnNotFound
  <1>1. Core /\ Answered => OwnNotFound
    BY DEF OwnNotFound, Owed, Answered, Answers, OwnAnswer, Waiting
  <1>2. QED  BY CoreHolds, AnsweredHolds, <1>1, PTL

-----------------------------------------------------------------------------
(* The default host, when SetDefaultHost and DelHost do not overlap        *)

(* The default has a router if it has a host, and it is the host's; so is  *)
(* the router that SetDefaultHost looked up.                               *)
Defaults ==
  /\ default.host = None <=> default.router = None
  /\ default.host # None => router[default.host] = default.router
  /\ \A c \in Callers : call[c].op = "set" => router[call[c].host] = call[c].router

(* The default host and its router change together if no host is deleted   *)
(* between the lookup and the setting (gateway.go 194-206).                *)
LEMMA DefaultsStep ==
  ASSUME ~Overlap
  PROVE  Core /\ Defaults /\ [Next]_vars => Defaults'
  <1> SUFFICES ASSUME Core, Defaults, [Next]_vars
               PROVE  Defaults'
    OBVIOUS
  <1> USE DEF Core
  <1>1. ASSUME UNCHANGED <<router, default>>,
               \A c \in Callers : call'[c].op = "set" => call'[c] = call[c]
        PROVE  Defaults'
    BY <1>1 DEF Defaults
  <1>2. ASSUME NEW r \in Requests, Serve(r)
        PROVE  Defaults'
    BY <1>1, <1>2, ServeQuiet DEF Gateway, svars
  <1>3. CASE UNCHANGED vars
    BY <1>1, <1>3 DEF vars, svars
  <1>4. ASSUME NEW c \in Callers, NEW h \in Hosts, AddHost(c, h)
        PROVE  Defaults'
    <2>1. router[h] = None /\ router' = [router EXCEPT ![h] = made + 1] /\ UNCHANGED <<default, call>>
      BY <1>4 DEF AddHost, Unknown, Tables
    <2>2. \A g \in Hosts : router[g] # None => router'[g] = router[g]
      BY <2>1 DEF StateOK
    <2>3. \A d \in Callers : call[d].op = "set" => call[d].host \in Hosts /\ call[d].router \in Routers
      BY CallShape DEF StateOK
    <2>4. default.host \in Hosts \cup {None} /\ None \notin Routers
      BY DEF StateOK, Pairs, Routers
    <2>5. QED  BY <2>1, <2>2, <2>3, <2>4 DEF Defaults
  <1>5. ASSUME NEW c \in Callers, NEW h \in Hosts, DelHost(c, h)
        PROVE  Defaults'
    <2>1. /\ router' = [router EXCEPT ![h] = None] /\ default' = DefaultWithout(h)
          /\ call' = [call EXCEPT ![c] = [op |-> "close", left |-> ForwardersOf(h)]]
          /\ \A d \in Callers : call[d].op # "set"
      BY <1>5 DEF DelHost, SettingDefault
    <2>2. \A d \in Callers : call'[d].op # "set"
      BY <2>1 DEF StateOK
    <2>3. \A g \in Hosts : g # h => router'[g] = router[g]
      BY <2>1 DEF StateOK
    <2>4. default.host \in Hosts \cup {None}
      BY DEF StateOK, Pairs
    <2>5. CASE default.host = h
      BY <2>1, <2>2, <2>5 DEF Defaults, DefaultWithout, NoDefault
    <2>6. CASE default.host # h
      BY <2>1, <2>2, <2>3, <2>4, <2>6 DEF Defaults, DefaultWithout
    <2>7. QED  BY <2>5, <2>6
  <1>6. ASSUME NEW c \in Callers, SetDefaultLookup(c)
        PROVE  Defaults'
    <2>1. /\ UNCHANGED <<router, default>>
          /\ call' = [call EXCEPT ![c] = call'[c]]
          /\ call'[c].op = "set" => call'[c].router = router[call'[c].host]
      BY <1>6 DEF SetDefaultLookup, svars, StateOK, Idle
    <2>2. QED  BY <2>1 DEF Defaults, StateOK
  <1>7. ASSUME NEW c \in Callers, SetDefaultRouter(c)
        PROVE  Defaults'
    <2>1. /\ call[c].op = "set" /\ router' = router
          /\ default' = [host |-> call[c].host, router |-> call[c].router]
          /\ call' = [call EXCEPT ![c] = Idle]
      BY <1>7 DEF SetDefaultRouter
    <2>2. call[c].host \in Hosts /\ call[c].router \in Routers /\ None \notin Routers
      BY <2>1, CallShape DEF StateOK, Routers
    <2>3. \A d \in Callers : call'[d].op = "set" => call'[d] = call[d]
      BY <2>1 DEF StateOK, Idle
    <2>4. QED  BY <2>1, <2>2, <2>3 DEF Defaults
  <1>8. ASSUME NEW c \in Callers, NEW h \in Hosts, SetDefaultHost(c, h)
        PROVE  Defaults'
    BY <1>1, <1>8 DEF SetDefaultHost, svars, StateOK
  <1>9. ASSUME NEW c \in Callers, NEW h \in Hosts, NEW k \in Keys, NEW f \in Forwarders, RegisterRoute(c, h, k, f)
        PROVE  Defaults'
    BY <1>1, <1>9 DEF RegisterRoute, StateOK
  <1>10. ASSUME NEW c \in Callers, NEW h \in Hosts, NEW k \in Keys, UnregisterRoute(c, h, k)
         PROVE  Defaults'
    BY <1>1, <1>10 DEF UnregisterRoute, StateOK
  <1>11. ASSUME NEW c \in Callers, RegisterStore(c) \/ CloseEnd(c)
         PROVE  Defaults'
    BY <1>1, <1>11 DEF RegisterStore, CloseEnd, svars, StateOK, Idle
  <1>12. ASSUME NEW c \in Callers, CloseForwarder(c)
         PROVE  Defaults'
    <2>1. PICK f \in call[c].left : call' = [call EXCEPT ![c].left = @ \ {f}]
      BY <1>12 DEF CloseForwarder
    <2>2. call[c] \in Calls /\ call[c].op = "close"
      BY <1>12 DEF CloseForwarder, StateOK
    <2>3. call' = [call EXCEPT ![c] = [op |-> "close", left |-> call[c].left \ {f}]]
      BY <2>1, <2>2, CallShape
    <2>4. QED  BY <1>1, <1>12, <2>3 DEF CloseForwarder, svars, StateOK
  <1>13. ASSUME NEW c \in Callers, NEW m, SetMiddlewares(c, m)
         PROVE  Defaults'
    BY <1>1, <1>13 DEF SetMiddlewares, svars
  <1>14. ASSUME NEW c \in Callers, NEW h \in Hosts \cup {None}, NEW x, SetNotFound(c, h, x)
         PROVE  Defaults'
    BY <1>1, <1>14 DEF SetNotFound, svars
  <1>15. QED
    BY <1>2, <1>3, <1>4, <1>5, <1>6, <1>7, <1>8, <1>9, <1>10, <1>11, <1>12, <1>13, <1>14
       DEF Next, Reconfigure, Continue, RegisterHostMiddlewares, ResetHostMiddlewares

(* The default host has its own router in every state, if SetDefaultHost   *)
(* and DelHost do not overlap.                                             *)
THEOREM DefaultsHold ==
  ASSUME ~Overlap
  PROVE  Spec => []Defaults
  <1>1. Init => Defaults
    BY DEF Init, Defaults, NoDefault, Idle
  <1>2. Core /\ Defaults /\ [Next]_vars => Defaults'
    BY DefaultsStep
  <1>3. QED  BY CoreHolds, <1>1, <1>2, PTL DEF Spec

-----------------------------------------------------------------------------
(* What a request finds, when SetDefaultHost and DelHost do not overlap    *)

HasRoute(h) == \E k \in Keys : routes[h][k] # None

(* What happens to the routers while callers reconfigure: a forwarder that *)
(* is added was never closed, one that was closed stays so, and a host     *)
(* that keeps routes keeps its router.                                     *)
LEMMA ReconfigureRouters ==
  ASSUME Core, Owned, NEW c \in Callers, Reconfigure(c)
  PROVE  /\ \A x \in Routers, k \in Keys :
              \/ table'[x][k] \in {table[x][k], None}
              \/ table'[x][k] \in Forwarders /\ fwd[table'[x][k]] # "closed"
         /\ \A f \in Forwarders : fwd[f] = "closed" => fwd'[f] = "closed"
         /\ \A h \in Hosts : HasRoute(h) /\ HasRoute(h)' => router'[h] = router[h]
  <1> USE DEF Core
  <1> DEFINE Goal ==
        /\ \A x \in Routers, k \in Keys :
             \/ table'[x][k] \in {table[x][k], None}
             \/ table'[x][k] \in Forwarders /\ fwd[table'[x][k]] # "closed"
        /\ \A f \in Forwarders : fwd[f] = "closed" => fwd'[f] = "closed"
        /\ \A h \in Hosts : HasRoute(h) /\ HasRoute(h)' => router'[h] = router[h]
  <1>1. CASE UNCHANGED <<table, fwd, router>>
    BY <1>1
  <1>2. ASSUME NEW h \in Hosts, AddHost(c, h)
        PROVE  Goal
    BY <1>2 DEF AddHost, Unknown, Tables, StateOK, HasRoute
  <1>3. ASSUME NEW h \in Hosts, DelHost(c, h)
        PROVE  Goal
    BY <1>3 DEF DelHost, StateOK, HasRoute
  <1>4. ASSUME NEW h \in Hosts, NEW k \in Keys, NEW f \in Forwarders, RegisterRoute(c, h, k, f)
        PROVE  Goal
    <2>1. /\ table' = [table EXCEPT ![router[h]][k] = f] /\ fwd[f] = "new"
          /\ fwd' = [fwd EXCEPT ![f] = "taken"] /\ router' = router
      BY <1>4 DEF RegisterRoute, addRoute
    <2>2. \A x \in Routers, j \in Keys : table'[x][j] \in {table[x][j], f}
      BY <2>1 DEF StateOK
    <2>3. \A g \in Forwarders : fwd[g] = "closed" => fwd'[g] = "closed"
      BY <2>1 DEF StateOK
    <2>4. QED  BY <2>1, <2>2, <2>3
  <1>5. ASSUME NEW h \in Hosts, NEW k \in Keys, UnregisterRoute(c, h, k)
        PROVE  Goal
    <2>1. table' = [table EXCEPT ![router[h]][k] = None] /\ UNCHANGED <<router, fwd>>
      BY <1>5 DEF UnregisterRoute, delRoute
    <2>2. \A x \in Routers, j \in Keys : table'[x][j] \in {table[x][j], None}
      BY <2>1 DEF StateOK
    <2>3. QED  BY <2>1, <2>2
  <1>6. ASSUME CloseForwarder(c)
        PROVE  Goal
    <2>1. PICK f \in call[c].left : fwd' = [fwd EXCEPT ![f] = "closed"]
      BY <1>6 DEF CloseForwarder
    <2>2. UNCHANGED <<table, router>>
      BY <1>6 DEF CloseForwarder, svars
    <2>3. \A g \in Forwarders : fwd[g] = "closed" => fwd'[g] = "closed"
      BY <2>1 DEF StateOK
    <2>4. QED  BY <2>2, <2>3
  <1>7. ASSUME RegisterStore(c) \/ CloseEnd(c) \/ SetDefaultLookup(c) \/ SetDefaultRouter(c)
        PROVE  UNCHANGED <<table, fwd, router>>
    BY <1>7 DEF RegisterStore, CloseEnd, SetDefaultLookup, SetDefaultRouter, svars
  <1>8. ASSUME NEW h \in Hosts, SetDefaultHost(c, h)
        PROVE  UNCHANGED <<table, fwd, router>>
    BY <1>8 DEF SetDefaultHost, svars
  <1>9. ASSUME NEW m, SetMiddlewares(c, m)
        PROVE  UNCHANGED <<table, fwd, router>>
    BY <1>9 DEF SetMiddlewares, svars
  <1>10. ASSUME NEW h \in Hosts \cup {None}, NEW x, SetNotFound(c, h, x)
         PROVE  UNCHANGED <<table, fwd, router>>
    BY <1>10 DEF SetNotFound, svars
  <1>11. QED
    BY <1>1, <1>2, <1>3, <1>4, <1>5, <1>6, <1>7, <1>8, <1>9, <1>10
       DEF Reconfigure, Continue, RegisterHostMiddlewares, ResetHostMiddlewares

(* What a request that arrives finds is alive: the router of a host.       *)
LEMMA MatchLive ==
  ASSUME Core, Defaults, NEW n, NEW m \in Matches(n)
  PROVE  /\ m.router # None => m.host \in hosts
         /\ m.host \in Hosts => router[m.host] = m.router
  <1>1. CASE m = default
    BY <1>1 DEF Defaults, Core, Tables, StateOK, Pairs
  <1>2. CASE \E h \in Hosts : m = [host |-> h, router |-> router[h]]
    BY <1>2 DEF Core, Tables
  <1>3. QED  BY <1>1, <1>2 DEF Matches

(* The router of a host has no forwarder that was closed.                  *)
LEMMA LiveRouter ==
  ASSUME Core, Owned, NEW h \in hosts, NEW k \in Keys, table[router[h]][k] # None
  PROVE  fwd[table[router[h]][k]] = "taken"
  <1>1. CASE table[router[h]][k] = routes[h][k]
    BY <1>1 DEF Core, StateOK, Owned, InRoute
  <1>2. CASE \E c \in Callers : call[c].op = "register" /\ call[c].host = h /\ call[c].key = k
    <2>1. PICK c \in Callers : call[c].op = "register" /\ call[c].host = h /\ call[c].key = k
      BY <1>2
    <2>2. table[router[h]][k] = call[c].fwd /\ call[c].fwd \in Forwarders
      BY <2>1, CallShape DEF Core, Tables, StateOK
    <2>3. QED  BY <2>1, <2>2 DEF Owned, InCall
  <1>3. QED  BY <1>1, <1>2 DEF Core, Tables

(* A forwarder that was closed before the request came is not in the       *)
(* router that it found, and was not found there.                          *)
Fresh(q) ==
  /\ \A f \in q.gone : fwd[f] = "closed"
  /\ q.pc \in {"matched", "wrapping", "routing"} => \A k \in Keys : table[q.match.router][k] \notin q.gone
  /\ q.pc = "forward" => q.fwd \notin q.gone

IsRouteOf(s, q) == s[1] = "route" /\ s[2] = q.match.host

(* A host that has kept a route has kept the router that the request       *)
(* found, and when the request has looked for the route, it found it.      *)
Kin(q) ==
  /\ \A s \in q.owed : IsRouteOf(s, q) => router[s[2]] = q.match.router
  /\ q.pc \in {"forward", "notfound", "missed"} =>
       \A s \in q.owed : IsRouteOf(s, q) /\ s[3] = q.key => q.fwd = s[4]

Finds == \A r \in Requests : req[r] # Waiting => Fresh(req[r]) /\ Kin(req[r])

(* No call makes a request forward to what was closed before it came, or   *)
(* miss a route that it is still owed (route.go 137-173, 245-295).         *)
LEMMA FindsReconfigure ==
  ASSUME Core, Owned, Finds, NEW c \in Callers, Reconfigure(c)
  PROVE  Finds'
  <1> SUFFICES ASSUME NEW r \in Requests, req'[r] # Waiting
               PROVE  (Fresh(req[r]) /\ Kin(req[r]))'
    BY DEF Finds
  <1> DEFINE p == req[r]
             q == req'[r]
  <1>1. Narrowed(p, q) /\ (p # Waiting => q.owed \subseteq Settings')
    BY ReconfigureNarrows
  <1>2. p # Waiting /\ Fresh(p) /\ Kin(p) /\ RequestOK(p)
    BY <1>1 DEF Narrowed, Finds, Core, RequestsOK
  <1>3. /\ q.pc = p.pc /\ q.match = p.match /\ q.key = p.key /\ q.fwd = p.fwd /\ q.gone = p.gone
        /\ q.owed \subseteq p.owed /\ q.owed \subseteq Settings'
    BY <1>1, <1>2 DEF Narrowed
  <1>4. p.gone \subseteq Forwarders /\ p.owed \subseteq Settings
    BY <1>2 DEF RequestOK, ReqOK
  <1>5. Fresh(req[r])'
    <2>1. \A f \in p.gone : fwd[f] = "closed" /\ fwd'[f] = "closed"
      BY <1>2, <1>4, ReconfigureRouters DEF Fresh
    <2>2. CASE q.pc \in {"matched", "wrapping", "routing"}
      <3>1. q.match.router \in Routers
        BY <1>2, <1>3, <2>2 DEF RequestOK, ReqOK, Waiting, Pairs
      <3>2. ASSUME NEW k \in Keys
            PROVE  table'[q.match.router][k] \notin q.gone
        <4>1. table[q.match.router][k] \notin p.gone /\ None \notin p.gone
          BY <1>2, <1>3, <1>4, <2>2 DEF Fresh
        <4>2. \/ table'[q.match.router][k] \in {table[q.match.router][k], None}
              \/ fwd[table'[q.match.router][k]] # "closed"
          BY <3>1, ReconfigureRouters
        <4>3. QED  BY <1>3, <2>1, <4>1, <4>2
      <3>3. QED  BY <1>3, <2>1, <2>2, <3>2 DEF Fresh
    <2>3. CASE q.pc \notin {"matched", "wrapping", "routing"}
      BY <1>2, <1>3, <2>1, <2>3 DEF Fresh
    <2>4. QED  BY <2>2, <2>3
  <1>6. Kin(req[r])'
    <2>1. ASSUME NEW s \in q.owed, IsRouteOf(s, q)
          PROVE  router'[s[2]] = q.match.router
      <3>1. s \in Settings /\ s \in Settings' /\ s[1] = "route" /\ IsRouteOf(s, p) /\ s \in p.owed
        BY <1>3, <1>4, <2>1 DEF IsRouteOf
      <3>2. s[2] \in Hosts /\ HasRoute(s[2]) /\ HasRoute(s[2])'
        BY <3>1, InForceShape DEF Settings, HasRoute
      <3>3. router[s[2]] = p.match.router
        BY <1>2, <3>1 DEF Kin
      <3>4. QED  BY <1>3, <3>2, <3>3, ReconfigureRouters
    <2>2. \A s \in q.owed : IsRouteOf(s, q) => s \in p.owed /\ IsRouteOf(s, p)
      BY <1>3 DEF IsRouteOf
    <2>3. q.pc \in {"forward", "notfound", "missed"} =>
            \A s \in q.owed : IsRouteOf(s, q) /\ s[3] = q.key => q.fwd = s[4]
      BY <1>2, <1>3, <2>2 DEF Kin
    <2>4. QED  BY <2>1, <2>3 DEF Kin, IsRouteOf
  <1>7. QED  BY <1>5, <1>6

(* No step of a request does, either: it looks into the router of its host *)
(* (gateway.go 263-266).                                                   *)
LEMMA FindsServe ==
  ASSUME Core, Owned, Defaults, Finds, NEW r \in Requests, Serve(r)
  PROVE  Finds'
  <1> USE DEF Core
  <1> DEFINE p == req[r]
             q == req'[r]
  <1>1. UNCHANGED <<table, fwd, router>>
    BY ServeQuiet DEF Gateway, svars
  <1>2. SUFFICES ASSUME q # Waiting
                 PROVE  Fresh(q) /\ Kin(q)
    BY <1>1, ServeLeaves DEF Finds, Fresh, Kin, IsRouteOf
  <1>3. RequestOK(p) /\ (p # Waiting => Fresh(p) /\ Kin(p) /\ p.owed \subseteq Settings)
    BY DEF RequestsOK, RequestOK, ReqOK, Finds
  <1>4. ASSUME NEW n \in Names, Arrived(q, n)
        PROVE  Fresh(q) /\ Kin(q)
    <2>1. PICK m \in Matches(n) :
            q = [pc    |-> IF m.router = None THEN "notfound" ELSE "matched",
                 name  |-> n,
                 match |-> m,
                 key   |-> None,
                 fwd   |-> None,
                 ran   |-> << >>,
                 by    |-> None,
                 owed  |-> InForce(hostmdws, routes, notfounds, {n, m.host} \cap Hosts),
                 gone  |-> {f \in Forwarders : fwd[f] = "closed"}]
      BY <1>4 DEF Arrived
    <2>2. /\ q.pc = (IF m.router = None THEN "notfound" ELSE "matched") /\ q.match = m
          /\ q.owed = InForce(hostmdws, routes, notfounds, {n, m.host} \cap Hosts)
          /\ q.gone = {f \in Forwarders : fwd[f] = "closed"}
      BY <2>1
    <2>3. /\ m.router # None => m.host \in hosts
          /\ m.host \in Hosts => router[m.host] = m.router
      BY MatchLive
    <2>4. \A f : f \in q.gone <=> f \in Forwarders /\ fwd[f] = "closed"
      BY <2>2
    <2>5. ASSUME q.pc = "matched", NEW k \in Keys
          PROVE  table[q.match.router][k] \notin q.gone
      <3>1. m.host \in hosts /\ q.match.router = router[m.host]
        BY <2>2, <2>3, <2>5 DEF StateOK
      <3>2. CASE table[router[m.host]][k] = None
        BY <2>4, <3>1, <3>2
      <3>3. CASE table[router[m.host]][k] # None
        BY <2>4, <3>1, <3>3, LiveRouter
      <3>4. QED  BY <3>2, <3>3
    <2>6. Fresh(q)
      BY <2>2, <2>4, <2>5 DEF Fresh
    <2>7. ASSUME NEW s \in q.owed, IsRouteOf(s, q)
          PROVE  router[s[2]] = q.match.router /\ router[s[2]] # None
      <3>1. s[2] \in Hosts /\ s[2] = m.host /\ s[3] \in Keys /\ routes[s[2]][s[3]] # None
        BY <2>2, <2>7, InForceShape DEF IsRouteOf
      <3>2. router[s[2]] # None
        BY <3>1 DEF Tables
      <3>3. QED  BY <2>2, <2>3, <3>1, <3>2
    <2>8. Kin(q)
      BY <2>2, <2>7 DEF Kin
    <2>9. QED  BY <2>6, <2>8
  <1>5. ASSUME \/ p.pc = "matched" /\ Flagged(p, q)
               \/ p.pc = "wrapping" /\ Wrapped(p, q)
        PROVE  Fresh(q) /\ Kin(q)
    <2>1. /\ p # Waiting
          /\ q.match = p.match /\ q.owed = p.owed /\ q.gone = p.gone
          /\ p.pc \in {"matched", "wrapping"} /\ q.pc \in {"wrapping", "routing"}
      BY <1>5 DEF Flagged, Wrapped, Kept
    <2>2. QED  BY <1>3, <2>1 DEF Fresh, Kin, IsRouteOf
  <1>6. ASSUME NEW k \in Keys, p.pc = "routing", LookedUp(p, q, k)
        PROVE  Fresh(q) /\ Kin(q)
    <2>1. /\ p # Waiting
          /\ q.match = p.match /\ q.owed = p.owed /\ q.gone = p.gone
          /\ q.key = k /\ q.fwd = table[p.match.router][k] /\ q.pc \in {"notfound", "forward"}
      BY <1>6 DEF LookedUp, Kept, AfterLookup
    <2>2. Fresh(q)
      BY <1>3, <1>6, <2>1 DEF Fresh
    <2>3. ASSUME NEW s \in q.owed, IsRouteOf(s, q), s[3] = k
          PROVE  q.fwd = s[4]
      <3>1. s \in Settings /\ s[1] = "route" /\ router[s[2]] = p.match.router
        BY <1>3, <2>1, <2>3 DEF Kin, IsRouteOf
      <3>2. s[2] \in Hosts /\ routes[s[2]][k] # None /\ s[4] = routes[s[2]][k]
        BY <2>3, <3>1, InForceShape DEF Settings
      <3>3. s[2] \in hosts /\ table[router[s[2]]][k] = routes[s[2]][k]
        BY <3>2 DEF Tables
      <3>4. QED  BY <2>1, <3>1, <3>2, <3>3
    <2>4. Kin(q)
      BY <1>3, <2>1, <2>3 DEF Kin, IsRouteOf
    <2>5. QED  BY <2>2, <2>4
  <1>7. ASSUME p.pc = "notfound", Missed(p, q)
        PROVE  Fresh(q) /\ Kin(q)
    <2>1. /\ p # Waiting
          /\ q.match = p.match /\ q.owed = p.owed /\ q.gone = p.gone
          /\ q.key = p.key /\ q.fwd = p.fwd /\ q.pc = "missed"
      BY <1>7 DEF Missed, Kept
    <2>2. QED  BY <1>3, <1>7, <2>1 DEF Fresh, Kin, IsRouteOf
  <1>8. QED
    BY <1>2, <1>4, <1>5, <1>6, <1>7, ServeShape DEF Serve, Unlocked, Locked

(* What requests found and will find is right in every state.              *)
THEOREM FindsHold ==
  ASSUME ~Overlap
  PROVE  Spec => []Finds
  <1>1. Init => Finds
    BY DEF Init, Finds
  <1>2. Core /\ Owned /\ Defaults /\ Finds /\ [Next]_vars => Finds'
    <2>1. CASE UNCHANGED vars
      BY <2>1 DEF vars, svars, Finds, Fresh, Kin, IsRouteOf
    <2>2. QED  BY <2>1, FindsReconfigure, FindsServe DEF Next
  <1>3. Spec => []Defaults
    BY DefaultsHold
  <1>4. QED  BY CoreHolds, OwnedHolds, <1>1, <1>2, <1>3, PTL DEF Spec

(* A request is never forwarded to a forwarder that was closed before it   *)
(* came (gateway.go 263-266, route.go 165-169, 285-290).                   *)
THEOREM NeverStale ==
  ASSUME ~Overlap
  PROVE  Spec => []NoStaleForward
  <1>1. Finds => NoStaleForward
    BY DEF Finds, Fresh, NoStaleForward, Waiting
  <1>2. Spec => []Finds
    BY FindsHold
  <1>3. QED  BY <1>1, <1>2, PTL

(* A route that was there all the time is found, whatever is added and     *)
(* deleted meanwhile (route.go 137-172, 253-294).                          *)
THEOREM KeptRouteFound ==
  ASSUME ~Overlap
  PROVE  Spec => []KeptRouteIsFound
  <1>1. Finds => KeptRouteIsFound
    BY DEF Finds, Kin, IsRouteOf, KeptRouteIsFound, Owed, Waiting
  <1>2. Spec => []Finds
    BY FindsHold
  <1>3. QED  BY <1>1, <1>2, PTL
=============================================================================
