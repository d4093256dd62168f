---------------------------- MODULE GatewayRoutes ----------------------------
(***************************************************************************)
(* The gateway (gateway.go, route.go): its table of routes, which it keeps *)
(* under g.lock, the routers of the router framework (ship), which have    *)
(* locks of their own and which requests look into without g.lock, and the *)
(* forwarders that the routes own.                                         *)
(*                                                                         *)
(* A router is an object: a request that found one keeps it, whatever      *)
(* becomes of its host in the meantime.                                    *)
(***************************************************************************)
EXTENDS Integers, Sequences, SequencesExt

CONSTANTS
  Callers,     \* the goroutines that reconfigure the gateway
  Requests,    \* the goroutines that serve a request
  Hosts,       \* the hosts that are added and deleted
  Patterns,    \* those of Hosts that are regular expressions
  Names,       \* the host names that requests ask for
  Keys,        \* the route keys, method and path
  Forwarders,  \* one for each route that is ever registered
  Mdws,        \* the host middlewares
  Handlers,    \* the NotFound handlers that are ever set
  None,
  MaxRouters,  \* bound: the routers that are ever made
  MaxMdws,     \* bound: the middlewares of a host
  Overlap      \* whether SetDefaultHost and DelHost may run at the same time

ASSUME PatternsAssumption == Patterns \subseteq Hosts
ASSUME NoneAssumption == None \notin Hosts \cup Callers \cup Forwarders \cup Handlers \cup Nat
ASSUME BoundAssumption == MaxRouters \in Nat /\ MaxMdws \in Nat

VARIABLES
  lock,      \* who holds g.lock for writing
  hosts,     \* the keys of g.routes
  routes,    \* g.routes[h][k]: the forwarder of the route
  hostmdws,  \* g.hostmdws, << >> where the map has no entry
  hashmdw,   \* g.hashmdw
  notfounds, \* g.notfounds, and g.notfound at None (None: as it was made)
  router,    \* ship: the router of a host
  table,     \* ship: the routes of a router
  default,   \* ship: the default host and its router
  made,      \* how many routers were made
  fwd,       \* the life of a forwarder
  call,      \* call[c]: the call that c is in
  req        \* req[r]: the request that r serves

gvars == <<lock, hosts, routes, hostmdws, hashmdw, notfounds>>
svars == <<router, table, default, made>>
vars == <<gvars, svars, fwd, call, req>>

Routers == 1..MaxRouters
Pairs == [host : Hosts \cup {None}, router : Routers \cup {None}]
NoDefault == [host |-> None, router |-> None]

Idle == [op |-> "idle"]
Waiting == [pc |-> "idle"]

Init ==
  /\ lock = None
  /\ hosts = {}
  /\ routes = [h \in Hosts |-> [k \in Keys |-> None]]
  /\ hostmdws = [h \in Hosts |-> << >>]
  /\ hashmdw = FALSE
  /\ notfounds = [h \in Hosts \cup {None} |-> None]
  /\ router = [h \in Hosts |-> None]
  /\ table = [x \in Routers |-> [k \in Keys |-> None]]
  /\ default = NoDefault
  /\ made = 0
  /\ fwd = [f \in Forwarders |-> "new"]
  /\ call = [c \in Callers |-> Idle]
  /\ req = [r \in Requests |-> Waiting]

-----------------------------------------------------------------------------
(* What requests are owed                                                  *)

(* The middlewares, routes and NotFound handlers that maps m, t and x hold *)
(* for the hosts hs.                                                       *)
MdwsIn(m, hs) == UNION {{<<"mdw", h, m[h][i]>> : i \in DOMAIN m[h]} : h \in hs}
InForce(m, t, x, hs) ==
  MdwsIn(m, hs)
    \cup (UNION {{<<"route", h, k, t[h][k]>> : k \in {j \in Keys : t[h][j] # None}} : h \in hs})
    \cup {<<"notfound", h, x[h]>> : h \in {g \in hs : x[g] # None}}

(* History: a request is owed what is in force from its arrival on.        *)
StillOwed(m, t, x) ==
  req' = [r \in Requests |->
    IF req[r] = Waiting THEN Waiting
                        ELSE [req[r] EXCEPT !.owed = @ \cap InForce(m, t, x, Hosts)]]

-----------------------------------------------------------------------------
(* Reconfiguration.  What a caller does while it holds g.lock is cut where *)
(* a request can see the difference: in the routers and in the forwarders. *)

Free == lock = None

(* Variant: the host is added again.                                       *)
UnknownAlways(h) == TRUE

Unknown(h) == h \notin hosts

(* AddHost.  It does nothing if the host is known, or if ship refuses it.  *)
AddHost(c, h) ==
  /\ call[c] = Idle /\ Free
  /\ Unknown(h)
  /\ made < MaxRouters
  /\ hosts' = hosts \cup {h}
  /\ made' = made + 1
  /\ router' = [router EXCEPT ![h] = made + 1]
  /\ UNCHANGED <<lock, routes, hostmdws, hashmdw, notfounds, table, default, fwd, call, req>>

(* ship keys the routes of a host's router by method and path.             *)
addRoute(h, k, f) == table' = [table EXCEPT ![router[h]][k] = f]

(* Variant: ship keeps the route.                                          *)
delRouteNot(h, k) == UNCHANGED table

delRoute(h, k) == table' = [table EXCEPT ![router[h]][k] = None]

(* RegisterRoute, up to addRoute.  Without the host, with the route known  *)
(* already or with a path that ship refuses it returns an error, and the   *)
(* forwarder is not taken.                                                 *)
RegisterRoute(c, h, k, f) ==
  /\ call[c] = Idle /\ Free
  /\ h \in hosts /\ routes[h][k] = None
  /\ fwd[f] = "new"
  /\ lock' = c
  /\ addRoute(h, k, f)
  /\ fwd' = [fwd EXCEPT ![f] = "taken"]
  /\ call' = [call EXCEPT ![c] = [op |-> "register", host |-> h, key |-> k, fwd |-> f]]
  /\ UNCHANGED <<hosts, routes, hostmdws, hashmdw, notfounds, router, default, made, req>>

(* routes[key] = route, and the lock is released.                          *)
RegisterStore(c) ==
  /\ call[c].op = "register"
  /\ routes' = [routes EXCEPT ![call[c].host][call[c].key] = call[c].fwd]
  /\ lock' = None
  /\ call' = [call EXCEPT ![c] = Idle]
  /\ UNCHANGED <<hosts, hostmdws, hashmdw, notfounds, svars, fwd, req>>

(* UnregisterRoute, up to the deletion of the route.  If ship refuses to   *)
(* delete it, it returns the error and the route stays.                    *)
UnregisterRoute(c, h, k) ==
  /\ call[c] = Idle /\ Free
  /\ routes[h][k] # None
  /\ lock' = c
  /\ delRoute(h, k)
  /\ routes' = [routes EXCEPT ![h][k] = None]
  /\ StillOwed(hostmdws, routes', notfounds)
  /\ call' = [call EXCEPT ![c] = [op |-> "close", left |-> {routes[h][k]}]]
  /\ UNCHANGED <<hosts, hostmdws, hashmdw, notfounds, router, default, made, fwd>>

SettingDefault(c) == call[c].op \in {"lookup", "set"}
Deleting(c) == call[c].op = "close"

(* ship forgets the default host with the host.                            *)
DefaultWithout(h) == IF default.host = h THEN NoDefault ELSE default

(* Variant: the routes are forgotten, their forwarders are not closed.     *)
ForwardersOfNone(h) == {}

ForwardersOf(h) == {routes[h][k] : k \in Keys} \ {None}

(* DelHost, up to router.DelHost.  The flag hashmdw is left as it is.      *)
DelHost(c, h) ==
  /\ call[c] = Idle /\ Free /\ h \in hosts
  /\ Overlap \/ \A d \in Callers : ~SettingDefault(d)
  /\ lock' = c
  /\ hosts' = hosts \ {h}
  /\ routes' = [routes EXCEPT ![h] = [k \in Keys |-> None]]
  /\ hostmdws' = [hostmdws EXCEPT ![h] = << >>]
  /\ notfounds' = [notfounds EXCEPT ![h] = None]
  /\ StillOwed(hostmdws', routes', notfounds')
  /\ router' = [router EXCEPT ![h] = None]
  /\ default' = DefaultWithout(h)
  /\ call' = [call EXCEPT ![c] = [op |-> "close", left |-> ForwardersOf(h)]]
  /\ UNCHANGED <<hashmdw, table, made, fwd>>

(* Variant: waits until no request is being served.                        *)
CloseForwarderDrained(c) ==
  /\ call[c].op = "close"
  /\ \A r \in Requests : req[r] = Waiting
  /\ \E f \in call[c].left :
       /\ fwd' = [fwd EXCEPT ![f] = "closed"]
       /\ call' = [call EXCEPT ![c].left = @ \ {f}]
  /\ UNCHANGED <<gvars, svars, req>>

(* r.Forwarder.Close(), with g.lock held.                                  *)
CloseForwarder(c) ==
  /\ call[c].op = "close"
  /\ \E f \in call[c].left :
       /\ fwd' = [fwd EXCEPT ![f] = "closed"]
       /\ call' = [call EXCEPT ![c].left = @ \ {f}]
  /\ UNCHANGED <<gvars, svars, req>>

CloseEnd(c) ==
  /\ call[c].op = "close" /\ call[c].left = {}
  /\ lock' = None
  /\ call' = [call EXCEPT ![c] = Idle]
  /\ UNCHANGED <<hosts, routes, hostmdws, hashmdw, notfounds, svars, fwd, req>>

(* SetDefaultHost: three calls of ship, without g.lock.                    *)
SetDefaultHost(c, h) ==
  /\ call[c] = Idle
  /\ default.host # h
  /\ Overlap \/ \A d \in Callers : ~Deleting(d)
  /\ call' = [call EXCEPT ![c] = [op |-> "lookup", host |-> h]]
  /\ UNCHANGED <<gvars, svars, fwd, req>>

Known(x) == x # None

SetDefaultLookup(c) ==
  /\ call[c].op = "lookup"
  /\ LET x == router[call[c].host] IN
       call' = [call EXCEPT ![c] =
         IF Known(x) THEN [op |-> "set", host |-> call[c].host, router |-> x] ELSE Idle]
  /\ UNCHANGED <<gvars, svars, fwd, req>>

SetDefaultRouter(c) ==
  /\ call[c].op = "set"
  /\ default' = [host |-> call[c].host, router |-> call[c].router]
  /\ call' = [call EXCEPT ![c] = Idle]
  /\ UNCHANGED <<gvars, router, table, made, fwd, req>>

(* The lists of host middlewares change under the lock.                    *)
SetMiddlewares(c, m) ==
  /\ call[c] = Idle /\ Free
  /\ hostmdws' = m
  /\ StillOwed(m, routes, notfounds)
  /\ UNCHANGED <<lock, hosts, routes, notfounds, svars, fwd, call>>

(* RegisterHostMiddlewares; the host need not be known.  A middleware that *)
(* is registered twice is meant to run twice, and is left out.             *)
RegisterHostMiddlewares(c, h, m) ==
  /\ Len(hostmdws[h]) < MaxMdws /\ m \notin ToSet(hostmdws[h])
  /\ SetMiddlewares(c, [hostmdws EXCEPT ![h] = Append(@, m)])
  /\ hashmdw' = TRUE

(* Variant: the flag follows this host, whatever the others have.          *)
FlagOfHost(ms, m) == ms # << >>

FlagAfter(ms, m) == IF ms = << >> THEN hashmdw /\ MdwsIn(m, Hosts) # {} ELSE TRUE

ResetHostMiddlewares(c, h, ms) ==
  LET m == [hostmdws EXCEPT ![h] = ms] IN
    /\ SetMiddlewares(c, m)
    /\ hashmdw' = FlagAfter(ms, m)

(* SetHostNotFound, where None stands for nil, and SetDefaultNotFound.     *)
SetNotFound(c, h, x) ==
  /\ call[c] = Idle /\ Free
  /\ notfounds[h] # x
  /\ notfounds' = [notfounds EXCEPT ![h] = x]
  /\ StillOwed(hostmdws, routes, notfounds')
  /\ UNCHANGED <<lock, hosts, routes, hostmdws, hashmdw, svars, fwd, call>>

-----------------------------------------------------------------------------
(* Requests                                                                *)

(* The host and the router that ship finds for a name: the host itself,    *)
(* a pattern that is known, or the default.                                *)
Matches(n) ==
  IF n \in Hosts /\ router[n] # None THEN {[host |-> n, router |-> router[n]]}
  ELSE IF \E p \in Patterns : router[p] # None
         THEN {[host |-> p, router |-> router[p]] : p \in {q \in Patterns : router[q] # None}}
         ELSE {default}

Arrive(r, n) ==
  /\ req[r].pc = "idle"
  /\ \E m \in Matches(n) :
       req' = [req EXCEPT ![r] =
         [pc    |-> IF m.router = None THEN "notfound" ELSE "matched",
          name  |-> n,
          match |-> m,
          key   |-> None,
          fwd   |-> None,
          ran   |-> << >>,
          by    |-> None,
          owed  |-> InForce(hostmdws, routes, notfounds, {n, m.host} \cap Hosts),
          gone  |-> {f \in Forwarders : fwd[f] = "closed"}]]
  /\ UNCHANGED <<gvars, svars, fwd, call>>

(* ExecuteRoute reads the flag, without the lock.                          *)
ExecuteRoute(r) ==
  /\ req[r].pc = "matched"
  /\ req' = [req EXCEPT ![r].pc = IF hashmdw THEN "wrapping" ELSE "routing"]
  /\ UNCHANGED <<gvars, svars, fwd, call>>

MdwsOf(h) ==
  IF h \in Hosts THEN [i \in DOMAIN hostmdws[h] |-> <<"mdw", h, hostmdws[h][i]>>] ELSE << >>

Chain(name, host) == MdwsOf(name) \o MdwsOf(host)

(* executeRouteWithMiddleware, with g.lock held for reading.               *)
Wrap(r) ==
  /\ req[r].pc = "wrapping" /\ Free
  /\ req' = [req EXCEPT ![r].pc = "routing", ![r].ran = Chain(req[r].name, req[r].match.host)]
  /\ UNCHANGED <<gvars, svars, fwd, call>>

(* Variant: the route is not looked for.                                   *)
AfterLookupUnchecked(f) == "forward"

AfterLookup(f) == IF f = None THEN "notfound" ELSE "forward"

(* findAndExecuteRoute; a middleware may have changed the path.            *)
Execute(r, k) ==
  /\ req[r].pc = "routing"
  /\ LET f == table[req[r].match.router][k] IN
       req' = [req EXCEPT ![r].pc = AfterLookup(f), ![r].key = k, ![r].fwd = f]
  /\ UNCHANGED <<gvars, svars, fwd, call>>

Set(h) == h \in Hosts /\ notfounds[h] # None

(* Variant: the matched host comes first.                                  *)
WhoseNotFoundSwapped(name, host) == IF Set(host) THEN host ELSE IF Set(name) THEN name ELSE None

(* Whose handler it is: the name's, else the matched host's, else the      *)
(* gateway's.                                                              *)
WhoseNotFound(name, host) == IF Set(name) THEN name ELSE IF Set(host) THEN host ELSE None

(* NotFoundHandler chooses with g.lock held for reading, and calls without. *)
NotFound(r) ==
  /\ req[r].pc = "notfound" /\ Free
  /\ req' = [req EXCEPT ![r].pc = "missed",
                        ![r].by = WhoseNotFound(req[r].name, req[r].match.host)]
  /\ UNCHANGED <<gvars, svars, fwd, call>>

(* handleRequest: the forwarder's Forward is called and returns; or the    *)
(* NotFound handler is.                                                    *)
Finish(r) ==
  /\ req[r].pc \in {"forward", "missed"}
  /\ req' = [req EXCEPT ![r] = Waiting]
  /\ UNCHANGED <<gvars, svars, fwd, call>>

-----------------------------------------------------------------------------
MdwLists == {ms \in UNION {[1..n -> Mdws] : n \in 0..MaxMdws} : IsInjective(ms)}

(* The rest of a call that was begun.                                      *)
Continue(c) ==
  RegisterStore(c) \/ CloseForwarder(c) \/ CloseEnd(c) \/ SetDefaultLookup(c) \/ SetDefaultRouter(c)

Reconfigure(c) ==
  \/ \E h \in Hosts : AddHost(c, h) \/ DelHost(c, h) \/ SetDefaultHost(c, h)
  \/ \E h \in Hosts, k \in Keys : UnregisterRoute(c, h, k)
  \/ \E h \in Hosts, k \in Keys, f \in Forwarders : RegisterRoute(c, h, k, f)
  \/ \E h \in Hosts, m \in Mdws : RegisterHostMiddlewares(c, h, m)
  \/ \E h \in Hosts, ms \in MdwLists : ResetHostMiddlewares(c, h, ms)
  \/ \E h \in Hosts, x \in Handlers \cup {None} : SetNotFound(c, h, x)
  \/ \E x \in Handlers : SetNotFound(c, None, x)
  \/ Continue(c)

Locked(r) == Wrap(r) \/ NotFound(r)
Unlocked(r) == ExecuteRoute(r) \/ (\E k \in Keys : Execute(r, k)) \/ Finish(r)
Serve(r) == (\E n \in Names : Arrive(r, n)) \/ Unlocked(r) \/ Locked(r)

Next ==
  \/ \E c \in Callers : Reconfigure(c)
  \/ \E r \in Requests : Serve(r)

Spec == Init /\ [][Next]_vars

(* Every goroutine keeps running, and Go's RWMutex passes over no reader   *)
(* for ever: a reader that waits gets in when the writer it waits for has  *)
(* left.  Nobody is bound to start a call or to send a request.            *)
FairSpec ==
  /\ Spec
  /\ \A c \in Callers : WF_vars(Continue(c))
  /\ \A r \in Requests : WF_vars(Unlocked(r)) /\ SF_vars(Locked(r))

-----------------------------------------------------------------------------
Calls ==
  {Idle}
    \cup [op : {"register"}, host : Hosts, key : Keys, fwd : Forwarders]
    \cup [op : {"close"}, left : SUBSET Forwarders]
    \cup [op : {"lookup"}, host : Hosts]
    \cup [op : {"set"}, host : Hosts, router : Routers]

Settings == InForce(hostmdws, routes, notfounds, Hosts)

ReqOK(q) ==
  \/ q = Waiting
  \/ /\ q.pc \in {"matched", "wrapping", "routing", "forward", "notfound", "missed"}
     /\ q.name \in Names
     /\ q.match \in Pairs
     /\ q.key \in Keys \cup {None}
     /\ q.fwd \in Forwarders \cup {None}
     /\ q.ran \in Seq({"mdw"} \X Hosts \X Mdws)
     /\ q.by \in Hosts \cup {None}
     /\ q.owed \subseteq Settings
     /\ q.gone \subseteq Forwarders

(* The types, and: a request that is past the host match has a router, and *)
(* one that forwards has a forwarder.                                      *)
TypeOK ==
  /\ lock \in Callers \cup {None}
  /\ hosts \subseteq Hosts
  /\ routes \in [Hosts -> [Keys -> Forwarders \cup {None}]]
  /\ hostmdws \in [Hosts -> Seq(Mdws)]
  /\ hashmdw \in BOOLEAN
  /\ notfounds \in [Hosts \cup {None} -> Handlers \cup {None}]
  /\ router \in [Hosts -> Routers \cup {None}]
  /\ table \in [Routers -> [Keys -> Forwarders \cup {None}]]
  /\ default \in Pairs
  /\ made \in 0..MaxRouters
  /\ fwd \in [Forwarders -> {"new", "taken", "closed"}]
  /\ call \in [Callers -> Calls]
  /\ \A r \in Requests :
       /\ ReqOK(req[r])
       /\ req[r].pc \in {"matched", "wrapping", "routing", "forward"} => req[r].match.router # None
       /\ req[r].pc = "forward" => req[r].fwd # None

(* Whenever g.lock is free, the router of each host has exactly the routes *)
(* that the gateway's table has for it, and no other host has a router,    *)
(* so that the two structures that every call changes one after the other  *)
(* never drift apart (route.go 137-173, 245-295).                          *)
RouterMirrors ==
  Free =>
    \A h \in Hosts :
      /\ h \in hosts <=> router[h] # None
      /\ IF h \in hosts THEN table[router[h]] = routes[h]
                        ELSE \A k \in Keys : routes[h][k] = None

(* Where a forwarder is: in a route, in a registration, or among those     *)
(* that a call is about to close.                                          *)
Places(f) ==
  {p \in Hosts \X Keys : routes[p[1]][p[2]] = f}
    \cup {c \in Callers : call[c].op = "register" /\ call[c].fwd = f}
    \cup {c \in Callers : call[c].op = "close" /\ f \in call[c].left}

(* A forwarder that was taken is in one place, so that it will be closed   *)
(* once and is not leaked, and one that is closed is in none (route.go     *)
(* 160-170, 256, 289-292).                                                 *)
OwnedOnce ==
  \A f \in Forwarders :
    IF fwd[f] = "taken" THEN \E p \in Places(f) : Places(f) = {p}
                        ELSE Places(f) = {}

(* A request is never forwarded to a forwarder that was closed before the  *)
(* request came: only one that was under way may meet it (gateway.go       *)
(* 263-266, route.go 165-169, 285-290).                                    *)
NoStaleForward ==
  \A r \in Requests : req[r].pc = "forward" => req[r].fwd \notin req[r].gone

Owed(r, kind) == {s \in req[r].owed : s[1] = kind}

(* A request that asks for a route which its matched host has had since    *)
(* the request came is forwarded there, not to another forwarder and not   *)
(* to a NotFound handler, though it looks into the router it was given     *)
(* then and holds no lock (route.go 137-172, 253-294).                     *)
KeptRouteIsFound ==
  \A r \in Requests :
    req[r].pc \in {"forward", "notfound", "missed"} =>
      \A s \in Owed(r, "route") :
        s[2] = req[r].match.host /\ s[3] = req[r].key => req[r].fwd = s[4]

(* A request that finds no route is answered by the NotFound handler that  *)
(* its own host name has had since it came; if the name has had none, not  *)
(* by the default one while its matched host has had one (gateway.go       *)
(* 283-293).                                                               *)
OwnNotFound ==
  \A r \in Requests : req[r].pc = "missed" =>
    LET own == Owed(r, "notfound") IN
      /\ \A s \in own : s[2] = req[r].name => req[r].by = req[r].name
      /\ own # {} => req[r].by # None

(* A request runs the middlewares of its host that were registered before  *)
(* it came and not removed since, although it looks at the flag without    *)
(* the lock and may look while other hosts are reset or deleted (gateway.go *)
(* 224-249, 377-404).                                                      *)
MiddlewaresNotSkipped ==
  \A r \in Requests :
    req[r].pc \in {"routing", "forward"} => Owed(r, "mdw") \subseteq ToSet(req[r].ran)

(* The default host is a host of the gateway, with its router (gateway.go  *)
(* 193: "SetDefaultHost sets the default host to the existed host.").      *)
DefaultIsRegistered ==
  default.host # None => router[default.host] = default.router

(* Every call returns: the lock is not held for ever (route.go 138-139,    *)
(* 157-158, 245-246, 275-276).                                             *)
CallsReturn == \A c \in Callers : call[c] # Idle ~> call[c] = Idle

(* Every request is answered, though it may need g.lock twice while        *)
(* callers keep taking it (gateway.go 232-259, 283-293).                   *)
RequestsEnd == \A r \in Requests : req[r].pc # "idle" ~> req[r].pc = "idle"
=============================================================================
