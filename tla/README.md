# A TLA+ model of apigw

[apigw](https://github.com/xgfone/apigw) is an API gateway: hosts with routes,
middlewares before the routing and plugins after it, and a load balancer with
health-checked backends and groups of backends behind each route.  Nearly all of
its state is shared by the goroutines that serve requests, the goroutines that
reconfigure the gateway and the goroutines of the health checkers.  Most
operations hold a lock for a part of what they do only, and the tests run one
call after the other.  This directory models what those operations do to each
other.

## Inventory

| Component | State | Operations | Interacts with |
|---|---|---|---|
| Forwarder, `forward/lb/forward.go` | `backends` under `f.lock`; a load balancer's endpoints; a health checker | add and delete a backend, join and leave a group, `Close`, `Forward` | calls groups after it releases `f.lock`; groups and its checker call its load balancer |
| Backend group, `forward/lb/backend.go` | `backends`, `updaters` under `b.lock`; a health checker | add and delete a backend, add and delete an updater, `Close`, the reports of the checker | calls its updaters, the forwarders, with `b.lock` held |
| Limited backend, `forward/lb/backend/qps.go` | an atomic counter | `RoundTrip` | wraps another backend |
| HTTP backend, `forward/lb/backend/http.go` | none of its own; the answer of the request | `handleHTTP` | called by the load balancer, writes to the client |
| Gateway, `gateway.go`, `route.go` | `routes`, `plugins`, `notfounds`, `hostmdws` under `g.lock`; flags and the limit of the body read without it; the routers of the framework (ship) with locks of their own | hosts, routes, default host, host middlewares, NotFound handlers, body limit, serving, errors | owns the forwarders of its routes and closes them |
| Plugins of a route, `plugin.go`, `route.go` | `g.plugins` under `g.lock` | register, unregister; lookup, sort and wrap in `RegisterRoute` | user code |
| Gateway of the load balancer, `forward/lb/gateway.go` | `bgms` under a lock of its own | `AddHost`, `DelHost`, `GetBackendGroupManager` | wraps the gateway; closes managers with its lock held |
| Group manager, `backend_group_manager.go` | `groups` under `m.lock`, nil once closed | add, delete, get, `DelUpdaterByName`, `Close` | owns groups and closes them |
| Gateway manager, `gateway_manager.go` | a map under a lock | register, unregister, get | asks a gateway for its name, which `SetName` changes |
| No-op backend, builder, request adapters | none, or a map filled at start-up | | |
| Loader registries, `loader/*.go` | global maps without a lock, filled at start-up | | |
| `plugins/`, `sd/` | none | | |

What is hard, and what makes each component correct:

* *Forwarder and group*: calls of one forwarder overlap; a call has released one
  lock when it takes the next; a health report waits for a lock while the
  endpoint it is about is deregistered.  No usable backend may be lost, no
  endpoint may outlive its configuration, and the two lists, of the groups of a
  forwarder and of the updaters of a group, must agree.
* *Limited backend*: the counter must not drift, no more than the limit may pass,
  and a refusal must be due.
* *Serving a request*: a backend may refuse it, be down, hang, or break off in the
  middle of an answer; the load balancer tries again; limits and timeouts change
  meanwhile.  A client must get one answer or one error, a place in a limited
  backend must come back, and with a timeout every request must end.
* *Gateway*: requests look into the framework's routers while calls change them.
  The two tables must agree, a forwarder must be closed once and never be met by
  a request that comes later, a request must find the routes that stay, run the
  middlewares of its host, be told by the right handler that there is no route,
  and be answered at all.
* *Plugins*: the order of the calls is that of the priorities, every plugin of the
  route runs with its own configuration.
* *Gateway manager*: a gateway is found under its name, though names change.
* *Managers*: a host has a manager, a group is in one place and is closed with it.

`PROJECT.json` lists the hazards one by one, each at its line and with the
properties that watch it.

## Modules

| Module | What it is |
|---|---|
| `BackendRouting` | forwarders, groups and health checkers (`forward.go`, `backend.go`) |
| `BackendRoutingProofs` | theorems about it |
| `AdmissionLimit` | abstract: what a limited backend promises |
| `QPSBackend` | the limited backend, which implements it (`backend/qps.go`) |
| `QPSBackendProofs` | theorems about it, with the refinement |
| `OneAnswer` | abstract: what a client is promised of each request |
| `Serving` | a request from its arrival to its answer: gateway, `Forward`, `QPSBackend`, HTTP backend (`gateway.go`, `forward.go`, `backend/http.go`); implements `OneAnswer` |
| `ServingProofs` | theorems about it, with both refinements |
| `GatewayRoutes` | hosts, routes, default host, host middlewares, NotFound handlers, requests (`gateway.go`, `route.go`) |
| `GatewayRoutesProofs` | theorems about it |
| `PluginChain` | registration and wrapping of plugins (`plugin.go`, `route.go`) |
| `PluginChainProofs` | theorems about it |
| `HostManagers` | `forward/lb/gateway.go` over the gateway, and `backend_group_manager.go` |
| `HostManagersProofs` | theorems about it |
| `GatewayNames` | the gateway manager and the names of gateways (`gateway_manager.go`) |
| `GatewayNamesProofs` | theorems about it |
| `MC*` | the instances that TLC checks; one `.cfg` for each run |

A definition that begins with the comment "Variant" is a version of the code with
a plausible mistake.  No specification uses it; it is what the definition after it
is compared with, to see that the properties depend on it.

### How state and actions correspond to the code

*Granularity.*  A critical section is one step.  A call that releases a lock and
goes on is several, and `call[c]` holds what is left of it.  Where others can see
into a critical section - the framework's routers have locks of their own, the
closing of a forwarder shows to a request - the section is cut there.  In
`GatewayRoutes` the variable `lock` says who is inside; a step of a reader needs it
to be free.

*BackendRouting.*  `reg[o]` is the map `backends` of a forwarder or of a group
(entries with a checker and without), `joined[f]` the groups in the same map of a
forwarder, `updaters[g]` the map of that name, `endpoints[f]` what the load
balancer of `f` would choose from.  `probe[o][b]` is what the checker of `o` thinks
of `b`, and `notice[o][b]` the report that it is delivering and that waits for
`b.lock`.  Four histories mark what the properties except.  `torn`: ids that were
registered while a call was still undoing an earlier registration, or a report on
it was under way.  `stale`: ids that the checker kept through a deletion and had
found well, until it finds a change.  `late`: ids whose healthy report came after
they were deregistered.  `crossed`: joins and leaves of one name and one group that
overlapped, or a second forwarder of the name in the group; the next call on them
that crosses none ends it.  `Name[f]` is the forwarder's name, by which groups tell
updaters apart.  A map that `Close` has set to nil reads as empty, and a store into
it panics: the state is what is left at the panic.  `GroupCloseUpdater` takes all
backends out of one updater at once, though the loop over them holds no lock
(`backend.go` 167-172): the order in it is not visible to any property.

*QPSBackend.*  One step for the addition, one for the comparison with what it
returned, one for the deferred subtraction.  `busy[r]` is a history.

*Serving* extends `QPSBackend`: the steps `Call`, `TooMany`, `Send` and `Back` are
its `Enter`, `Refuse`, `Serve` and `Leave` together with what they mean for the
request.  `job[r]` is how far the request has come, with the length that it
declared, the deadline of the context of `Forward` (`none` without a timeout,
`over` when it has passed) and the tries so far.  `answer[r]` is what has been
written to the client: `begun`, `whole` or `cut` for an answer of a backend,
`error` for the text of `handleError`.  `large` is a history: whether every limit
in force since the request came was below its length.  Where the request is routed
is `GatewayRoutes`; here `ExecuteRoute` leads to the forwarder at once.

*GatewayRoutes.*  `routes` is `g.routes`, `router` and `table` are the framework's
routers by host and their routes.  Routers are objects: a request keeps the one it
found.  `default` is the framework's default host and router.  `notfounds` is the
map of that name, with `g.notfound` at `None`.  `fwd[f]` is the life of a
forwarder; each registration brings its own, as the README's example does.
`req[r]` is a request between the framework's match of its host, the reading of
the flag, the wrapping under `g.lock`, the lookup of the route, the choice of the
NotFound handler under `g.lock`, and the call of the forwarder or of the handler.
`owed` and `gone` are histories: the middlewares, routes and NotFound handlers of
its hosts that have been in force ever since it came, and the forwarders that were
closed when it came.  A call that returns an error without a change is not a step.
`RegisterHostMiddlewares` stores the list and the flag, which is read without the
lock, in one step (`gateway.go` 383-384): in between the list is there and the flag
may be false, and a request that reads it was under way before the call returned.

*HostManagers.*  `hosts` are those of the wrapped gateway, whose `AddHost` and
`DelHost` are one step each.  Managers are objects, and callers keep the one they
got, close it while it is still its host's, and use it when it is closed.  `stuck`
are the managers whose lock a panic has left locked.  `raced` is a history: hosts
whose last call began while another was under way on them.  The getters and
`DelUpdaterByName` change nothing here and are the call `look`, which needs the
lock; what `DelUpdaterByName` does to each group is `RemoveUpdater` in
`BackendRouting`.

*GatewayNames.*  `RegisterGateway` is two steps, since it reads the name before it
takes the lock.  `registered` and `renamed` are histories.

*PluginChain.*  `RegisterRoute` up to the lock: `found` is its slice, `chain` the
middlewares in the order in which they will be called.  The stable sort is defined
by ranks; `Wrap` pairs the plugin at an index after the sort with the configuration
at that index in the route, as the code does.

### What is assumed of code outside the repository

* *go-loadbalancer*: endpoints of a load balancer are a set keyed by the id.  The
  health checker's `AddEndpoint`, `GetEndpoints` and `IsHealthy` do not call back,
  and its `DelEndpointByID` calls nothing but the updater's `DelEndpointByID`, before
  it returns (`GroupForget` is one step for that reason); it leaves an endpoint that
  it already has as it is; it reports from its own goroutines, one report for an
  endpoint at a time.
  Whether it waits for the report of an endpoint that it drops is the constant
  `Drains`; the proofs hold for both.  For a request it has an endpoint or none,
  and after a failure it tries the same endpoint once more or returns the error
  (`FailTry(1, 10ms)`, `forward.go` 61); the request it builds for the backend
  carries the context of `Forward`.
* *ship*: a request's host is matched exactly, then by pattern, then by default,
  and `RouteInfo.Host` is the host that was matched.  `DelHost` forgets the default
  host with its host.  `IsResponded` is true once `Stream` has written the status,
  and a second `Stream` appends to the first.  That `DelHost` forgets the default
  is the assumption that favours the code: without it `DefaultIsRegistered` would
  fail already when calls do not overlap.  A router tells routes apart exactly as
  `g.routes` does, by path and method as they were given, although the gateway has
  ship remove trailing slashes (`gateway.go` 40), so that `/a` and `/a/` may be two
  routes to the gateway and one to ship; a route key of the model is one to both.
* *Go*: a goroutine keeps running, and a lock passes nobody over for ever
  (`sync.RWMutex` lets waiting readers in when the writer they wait for leaves).
  That is the fairness of the specifications `FairSpec`: weak fairness for steps
  that wait for nothing or for a lock that is held for one step only, strong
  fairness for steps that wait for a lock that others may take again and again.
  Nobody is bound to begin a call, to send a request or to fall ill or well.
  In `Serving` timers expire, and what waits in `net/http` ends when the deadline
  of its context is over; a backend is never bound to answer.  A client that
  neither reads its answer nor goes away is left out: writes to it have no deadline.
* The name of a gateway is not read at the very moment at which it is stored: the
  field has no lock, and what a torn read gives is not modelled.
* A panic in a management call is recovered by its goroutine, as the handlers of
  `net/http` do.

## Runs

Passing runs:

| Run | Instance | Shows |
|---|---|---|
| `two_forwarders` | 2 forwarders, 1 group, 1 backend, 2 callers, fairness | types; the lists of groups and of updaters agree, but for joins and leaves that crossed; a backend that stays healthy is served in the end |
| `overlap` | 1 forwarder, 1 group, 2 backends (one configured on each), 2 callers, late reports | no usable backend is lost, no endpoint is left over, every checked backend is checked |
| `serving` | 2 requests, a limit of 1, 2 tries, lengths unknown, 1 and 2, body limits 0 and 1, fairness | the counter counts, refusals are due, refinement of `AdmissionLimit`; declared large bodies stay outside; refinement of `OneAnswer`; with a timeout every request ends |
| `routes` | an exact host and a pattern for the same name, 1 route key, 2 forwarders, 1 middleware, 3 routers, 2 callers, 1 request | the tables agree, forwarders are closed once, no later request meets a closed one, a route that stays is found, no middleware is skipped |
| `requests_end` | an exact host and a pattern, 1 middleware, 1 NotFound handler, 1 caller, 1 request, fairness | calls return, requests are answered, without a route by the NotFound handler of their own host name |
| `managers` | 2 hosts, 2 groups of one name, 2 managers, 2 callers, fairness | types; a host has a manager, but for hosts that are raced for, until the next call alone on them; a group is in one place; no open manager is forgotten; calls return, unless one waits for the lock of a closed manager that a panic left locked |
| `names` | 2 gateways, 2 names, 2 callers | a gateway that was registered is found under its name until it is unregistered or renamed |
| `chain` | 4 plugins with 3 names, routes of up to 3 plugins, 2 configurations | calls in the order of priorities, each plugin as often as listed, configurations right for sorted routes |

Runs that end in a counterexample, each for one statement of the repository:

| Run | Violated | What happens |
|---|---|---|
| `sick` | `SickIsNotServed` | `AddUpdater` (`backend.go` 272-276) adds the backend of the outer loop once for each healthy endpoint of the group, so backends that are not healthy are handed over |
| `deleted` | `DeletedIsNotServed` | the checker of a forwarder is not told of a deletion and adds the backend again |
| `default_host` | `DefaultIsRegistered` | `SetDefaultHost` against `DelHost` |
| `config` | `OwnConfig` | plugins get each other's configurations when the route does not list them by ascending priority |

*Exceptions.*  Some properties hold but for a case that the code does not handle.
The case is named in the property, as narrowly as it can be; taking an exception
away gives the counterexample at once.

* `crossed`, in `ListedIsFed` and `FedIsListed`: a `DelBackendByID` and an
  `AddBackendGroup` of one forwarder and one group overlap and reach the group in the
  other order, so that the forwarder lists a group that does not feed it; or `Close`
  comes between the two steps of `AddBackendGroup`, and the group goes on feeding a
  closed forwarder (`forward.go` 74-84, 168-205); or a second forwarder of the same
  name joins the group, is not taken (`backend.go` 266), and takes the first one out
  when it leaves.  A later call that crosses none ends the exception.
* `torn`, in `UsableIsServed` and `CheckedIsWatched`: a backend that is registered
  again while `DelBackendByID` is between its two steps, or a report on it is under
  way, is listed but not served, or not checked any more (`backend.go` 207-212,
  `forward.go` 198-203).
* `stale`, in `UsableIsServed`: since `DelBackendByID` of a forwarder never tells the
  checker, a backend that was well when it was deleted is still well to the checker
  when it is added again, and no report brings it into service until it has fallen
  sick and recovered (`forward.go` 202).  No calls need to overlap for this: it is
  the other half of what the run `deleted` shows.
* `late`, in `NoStrayEndpoint`: a report that waits for `b.lock` while its endpoint is
  deregistered adds the endpoint again (`backend.go` 294-300), if the checker does not
  wait for it.  Closed forwarders are left out: a store into their map panics after
  the endpoint has gone to the load balancer (`forward.go` 231).
* `Exclusive`: an id that comes from two owners is taken out for both when one lets
  it go.
* `raced`, in `HostHasManager`: when calls overlap on a host, it may be left without a
  manager, or a manager without the host - `DelHost` between the two steps of
  `AddHost` is enough -, until a call begins alone on it (`forward/lb/gateway.go`
  66-91).
* A stuck manager, in `HostCallsReturn` and `GroupCallsReturn`: adding a group to a
  manager that was closed panics between `Lock` and an `Unlock` that is not deferred,
  and whoever calls that manager afterwards waits for ever
  (`backend_group_manager.go` 44-67).  Since `BackendGroupManager.Close` is exported,
  that may be `DelHost`, with `g.lock` held, and then every other call on the hosts.
* The middlewares of a host that is matched exactly run twice, as the list of the
  matched host and as that of the request's host (`gateway.go` 239-247); the model has
  the chain as the code builds it, and `MiddlewaresNotSkipped` says that each
  middleware runs, not how often.
* In `OneAnswer`, `cut`: a try that breaks off in the middle of its answer returns
  an error, and the load balancer may try again; the second answer is then
  appended to what the client already has (`forward.go` 61, `http.go` 75).
* In `AnsweredInTime`, the timeout: it is off by default, the context of `Forward`
  is not the client's, and a backend that hangs keeps the request and its place in
  the limited backend for ever (`forward.go` 93-94).
* In `LargeBodiesStay`, the declared length: a body of unknown length (-1) is never
  above the limit (`gateway.go` 220).
* In `RegisteredIsFound`, `renamed`: `SetName` leaves a gateway under its old name,
  and it may then be registered a second time (`gateway_manager.go` 37-45).

*Bounds.*  Two of each kind are enough for the races here, which are between two
calls, or a call and a report or a request, about one pair of objects; a second
pair shows that they leave others alone.  The bounds that count objects made over
time (`MaxRouters`, `MaxManagers`, the set of forwarders) allow a host to be
deleted and made again, which is what a stale reference needs.  In `managers` one
caller holds a manager while the other deletes its host and adds it again.  The
forwarders of `two_forwarders` have names of their own; that the properties hold for
forwarders of one name, too, is proved.  Its backend has a checker, which is what
the liveness is about; `overlap` has backends with and without.
`MaxMdws` is one, since only whether a list is empty decides what is skipped; a
route of three plugins has a pair in the wrong order and one in the right order.
Symmetry is used for safety only.  Deadlock is checked in every run but those of
`HostManagers`, where everybody may come to wait for the lock of a stuck manager or
for the `g.lock` of the `DelHost` that waits for it; `HostCallsReturn` and
`GroupCallsReturn` say that nothing else can happen to a call.
With `Overlap = FALSE` nobody can call `SetDefaultHost` between the steps of a
`DelHost`, nor while `UnregisterRoute` closes a forwarder, and the other way round;
this is so in `routes` (for `NoStaleForward` and `KeptRouteIsFound`), and not in
`default_host` and `requests_end`.  The bounds of `requests_end` let callers take
`g.lock` only finitely often, so that what it shows of requests that wait does not
depend on the strong fairness.  One caller is enough in `requests_end`: callers
exclude each other by `g.lock`, and what a request can wait for is that one of them
has it; two are in `routes`.  In `serving` one request fills the backend and the
other is refused; two tries are what `FailTry(1, ...)` does.

## Proofs

TLAPS checks these for every value of the constants.  Every safety invariant that a
passing run checks is a theorem.

| Property | Theorem | Under |
|---|---|---|
| `TypeOK`, `UsableIsServed`, `CheckedIsWatched`, `NoStrayEndpoint` of `BackendRouting` | `TypeCorrect`, `UsableServed`, `CheckedWatched`, `NothingStray` | |
| `ListedIsFed`, `FedIsListed` | `ListedFed`, `FedListed` | |
| `TypeOK`, `Counted`, `RefusedMeansBusy`, `IsLimiter` of `QPSBackend` | `TypeCorrect`, `CounterCounts`, `RefusalsAreDue`, `Refinement` | |
| `ServingTypeOK`, `LargeBodiesStay`, `IsOneAnswer`; the three of `QPSBackend` inside `Serving` | `ServingTypeCorrect`, `LargeBodiesKept`, `AnswersOnce`; `ServingLimited` | |
| `TypeOK`, `RouterMirrors`, `OwnedOnce` of `GatewayRoutes` | `TypeCorrect`, `RoutersMirror`, `ForwarderHasOneOwner` | |
| `MiddlewaresNotSkipped`, `OwnNotFound` | `MiddlewaresRun`, `MissedByOwn` | |
| `NoStaleForward`, `KeptRouteIsFound` | `NeverStale`, `KeptRouteFound` | `~Overlap` |
| `TypeOK`, `HostHasManager`, `OpenIsReachable`, `GroupInOnePlace` of `HostManagers` | `TypeCorrect`, `HostsHaveManagers`, `NoneForgotten`, `GroupHasOnePlace` | |
| `RegisteredIsFound` | `FoundByName` | |
| `TypeOK`, `HighestFirst`, `ListedOnce`, `OwnConfigWhenSorted` of `PluginChain` | `TypeCorrect`, `HighestIsFirst`, `EachListedOnce`, `SortedIsOwn` | |

The hypothesis `~Overlap` is an instance, not a fact about the code, and both theorems
fail without it: the default host may then be one that `DelHost` has deleted, with its
old router (the run `default_host`); requests that fall to the default find the closed
forwarders in it (`NoStaleForward`), or miss the routes of a host that was added again
under that name (`KeptRouteIsFound`; TLC needs two exact hosts for that).

The other assumptions, named in the modules, are about the shape of the constants:
the sets are disjoint where the code has different types, patterns are hosts,
`None` is none of the values, bounds are natural numbers, priorities are integers.

*BackendRoutingProofs*, from the assumptions that forwarders and groups are
disjoint and `Ids` gives each owner a set of backends:

* `TypeCorrect`: `TypeOK`, with the fact that nothing is stored in the maps of a
  closed owner.  It is inductive as it stands.
* `UsableServed`: `UsableIsServed`.  It is not inductive: the steps that take
  endpoints out (`GroupForget`, `ForwarderDropEndpoint`, `GroupCloseUpdater`, a
  report) must be known not to be about a backend that is usable.  The
  strengthening has two more parts.  `Home`: whatever an owner keeps, is told of or
  is going to take out is one of its ids, which keeps the calls of one owner away
  from the exclusive backends of another.  `Settled`: for a registered backend that
  is not torn no call is going to take it out, the checker has it if it was
  registered with one, has not if it was registered without one and is not stale,
  and a report that is due says what the checker thinks.
* `CheckedWatched`: `CheckedIsWatched`, a part of `Settled`.
* `NothingStray`: `NoStrayEndpoint`, from `TypeOK` and from itself.  `Kept` is what
  must be true of a stray endpoint and `QuietStep` shows that a step that adds no
  endpoint keeps it.
* `ListedFed`, `FedListed`: of each pair of a forwarder and a group whose calls did
  not cross, `Orderly` says how the two maps differ, and it depends on the one call
  that may be under way on the pair: who is to join still has the group in its map,
  who is to leave has not, and what one map has more than the other is the work that
  this call has left.  No namesake of the forwarder is in the group, so that taking
  an updater out by its name takes out the right one (`InOrderDetaches`).  A call
  that crosses none puts the pair in order, whatever earlier crossings have left
  (`InOrderBegins`).

*GatewayRoutesProofs*.  Every step of a caller does one of two things to requests: it
leaves them alone, or takes from `owed` what is not in force any more
(`ReconfigureNarrows`); every step of a request leaves the gateway alone
(`ServeQuiet`) and changes that request only.  The invariant grows in layers, each
proved over those before it:

* `Core`: the types; the lock is held by the caller that is inside a critical
  section (`Exclusive`); and `Tables`, which says in every state, and not only when
  the lock is free, how the gateway's table differs from the framework's: in the one
  route that the holder is registering.  Routers of different hosts are different,
  and routers that are not made yet have no routes.  `RouterMirrors` is `Tables` with
  nobody inside.
* `Owned`: a forwarder is taken exactly if it is in a route or in a call, never in
  both and never in two routes.
* `ListsOK`: `hashmdw` is false only when all lists of middlewares are empty.  With it,
  `Answered` says of each request that it ran all that it is owed when it got past the
  wrapping.
* `Defaults`, under `~Overlap`: the default router is the default host's, and so is
  the one that `SetDefaultHost` has looked up and not yet set.
* `Finds`, under `~Overlap`: the router that a request holds has no forwarder that
  was closed before the request came (`Fresh`), and while it is owed a route of its
  host, it holds that host's router (`Kin`).  That a deleted host's router keeps the
  forwarders that `DelHost` has closed is why `Fresh` speaks of the router the request
  found and not of the host; `ReconfigureRouters` shows that no closed forwarder is
  ever added to a router and no router is used for a second host.

*HostManagersProofs*.

* `TypeCorrect` needs `Room`, that the calls which are adding a host will not exceed
  the bound on managers, and goes by their cardinality.  `Apart`: no two hosts have the
  same manager, and none has one that `DelHost` is about to close.
* `NoneForgotten`: `OpenIsReachable` is inductive over the types; a manager that is
  closed by somebody else only makes fewer of them open.
* `HostsHaveManagers`: on a host that is not raced for at most one call is under way,
  and what it has done tells what the host has (`Followed`).  A call that begins alone
  establishes this whatever state earlier races have left.
* `GroupHasOnePlace`: a group is managed exactly if it is in a manager or in the hands
  of one call that closes it, though several may be closing (`Placed`); a group that
  a call brings along is in nobody else's hands (`Held`); and a manager keeps groups
  under their own names (`Named`), without which taking one out by its name might
  take out another.

*GatewayNamesProofs*: the map has each gateway under its own name unless it was
renamed, a registration that is on its way has its gateway's name unless it was
renamed, and a registered gateway is in the map.

*PluginChainProofs*: the sort is defined by ranks, and most of the work is that ranks
are a bijection.  The relation in `Rank` is a total order (`BeforeOrders`), so that a
greater plugin has a greater rank (`RankOrders`), different positions have different
ranks, and an injection of a finite set into itself is onto (`PosIsInverse`).  Hence
`Sort` is a permutation in ascending order (`SortResult`, `SortOrders`) that leaves a
sorted slice alone (`SortIdle`), and the chain is its reverse.  `ListedOnce` is a
bijection between the calls and the entries of the route; `OwnConfigWhenSorted` is
`SortIdle`.

*QPSBackendProofs*, from a finite set of requests and an integer limit: the
inductive invariant `IInv` adds to the three invariants that the value a request
holds is the number of requests inside when it was counted.  `TypeCorrect`,
`CounterCounts` and `RefusalsAreDue` follow.  `Refinement` shows that each step is
a step of `AdmissionLimit` or changes nothing there; that a request that is let in
finds room is `Counted`: those who are served and the one who comes are all
granted, and there are at most as many of those as the limit.

*ServingProofs*, from those assumptions, integer lengths and limits and a positive
number of tries.  `BackendInside` shows that every step of a request is a step of
`QPSBackend` or changes nothing there, so that its theorems hold across retries and
timeouts (`ServingLimited`).  The invariant `SInv` adds to `IInv` and the types
`Written`, which ties what the client has got to how far the request has come, and
`LargeSeen`: a request that is still marked large is above the limit that
`ExecuteRoute` will read.  Since a step of one request leaves the others' parts
alone (`OneRequest`), each action is looked at for its own request only.
`ServingTypeCorrect` and `LargeBodiesKept` are parts of `SInv`, and `AnswersOnce`
maps each action to a step of `OneAnswer`: that `handleError` writes only where
nothing was written, or leaves what was begun, and that a new answer begins only
after none or a cut one, is `Written`.

Only checked by TLC, since fairness and `ENABLED` are beyond the prover: the liveness
properties `CallsReturn` of `GatewayRoutes`, `WellIsServedEventually`, `RequestsEnd`,
`HostCallsReturn`, `GroupCallsReturn` and `AnsweredInTime`.  The counterexamples are
TLC's, too.

## Not modelled

* The choice of an endpoint and the sessions, in go-loadbalancer.
* The request adapters and the no-op backend: adapters without shared state.
* The loader's registries and the backend builder: maps without a lock, filled at
  start-up, so that nothing in them can interleave.
* The metadata of a gateway, a map under a lock of its own; the global middlewares,
  which must be set before the start; getters that copy a map.
* The convenience functions of `forward/lb/gateway.go` 94-213: each looks a route's
  forwarder up and calls one of its methods, so that it may reach a forwarder that
  was closed in the meantime, which `BackendRouting` allows for every call.
* Groups that are made anew under the name of a closed one, one group in two
  managers, and ids that come from two owners of one forwarder.

## Plan

1. Done: `BackendRouting`, `QPSBackend` with its refinement and, on top of it,
   `Serving`; `GatewayRoutes`, `PluginChain`, `HostManagers`, `GatewayNames`; proofs of
   all their safety properties.
2. State and prove what a request sees of the gateway as a specification of its own:
   a table from hosts and routes to live forwarders that changes at once, which
   `GatewayRoutes` implements as long as `SetDefaultHost` and `DelHost` do not overlap.
3. Prove cores of liveness as invariants: who waits for whom in `HostManagers` and
   `GatewayRoutes`.
4. Extend: groups with the same name and ids of two owners in `BackendRouting`.
