--------------------------- MODULE BackendRouting ---------------------------
(***************************************************************************)
(* How backends reach the load balancer of a route (forward/lb/forward.go  *)
(* and forward/lb/backend.go).  A Forwarder owns a load balancer with a    *)
(* set of endpoints, a map of the backends configured on it, and a health  *)
(* checker.  A GroupBackend owns a map of backends, a health checker, and  *)
(* a map of "updaters": the forwarders it feeds, keyed by their names.     *)
(*                                                                         *)
(* Every call is made of the critical sections the code has: a call that   *)
(* releases one lock before it takes the next is several steps, and the    *)
(* steps of other calls and of the health checkers interleave with them.   *)
(*                                                                         *)
(* LoadBalancer and HealthCheck are in github.com/xgfone/go-loadbalancer,  *)
(* which is not part of the repository.  What is assumed of them is what   *)
(* the locking in backend.go needs: HealthCheck.AddEndpoint, GetEndpoints  *)
(* and IsHealthy never call back (they are called under b.lock), reports   *)
(* come from goroutines of their own, one at a time for an endpoint, and   *)
(* hold no lock of the checker while they wait for b.lock.                 *)
(***************************************************************************)
EXTENDS Integers, FiniteSets

CONSTANTS
  Forwarders,   \* the *Forwarder objects
  Groups,       \* the *GroupBackend objects, with distinct names
  Backends,     \* the ids of the plain backends
  Callers,      \* goroutines that call the management methods
  Name,         \* Name[f] is Forwarder.Name()
  Ids,          \* Ids[o]: the backend ids ever added to the owner o
  Modes,        \* how they are added: "plain" (nil checker) or "checked"
  Drains        \* TRUE: the checker cancels the report of an endpoint it drops

Owners == Forwarders \cup Groups

ASSUME OwnersAssumption == Forwarders \cap Groups = {}
ASSUME IdsAssumption == Ids \in [Owners -> SUBSET Backends]
ASSUME ModesAssumption == Modes \subseteq {"plain", "checked"}
ASSUME DrainsAssumption == Drains \in BOOLEAN

VARIABLES
  reg,        \* reg[o][b]: the entry of b in f.backends or b.backends
  joined,     \* joined[f]: the groups in f.backends
  updaters,   \* updaters[g]: the values of the map b.updaters
  closed,     \* the owners whose maps Close has set to nil
  endpoints,  \* endpoints[f]: the endpoints of the load balancer of f
  probe,      \* probe[o][b]: what the checker of o knows of b
  notice,     \* notice[o][b]: the report the checker of o is delivering
  call,       \* call[c]: what is left to do of the call that c makes
  torn,       \* history: ids registered while a deletion or a report of an
              \* earlier registration was still under way
  stale,      \* history: ids registered that the checker still had as they were
  late,       \* history: ids reported healthy after they were deregistered
  crossed     \* history: names and groups whose joins and leaves crossed

histories == <<torn, stale, late, crossed>>
vars == <<reg, joined, updaters, closed, endpoints, probe, notice, call, histories>>

-----------------------------------------------------------------------------
(* The state *)

Idle == [op |-> "idle"]
PendingCalls ==
  {Idle}
  \cup [op : {"attach", "detach"}, f : Forwarders, g : Groups]
  \cup [op : {"drop"}, f : Forwarders, b : Backends]
  \cup [op : {"forget"}, g : Groups, b : Backends]
  \cup [op : {"fclose"}, f : Forwarders, left : SUBSET Groups]
  \cup [op : {"gstop", "gclose"}, g : Groups, left : SUBSET Forwarders,
        ids : SUBSET Backends]

Names == {Name[f] : f \in Forwarders}
Entries == {"absent", "plain", "checked"}

Nowhere == [b \in Backends |-> "absent"]

(* The types of the variables; and once Close has set the maps of an owner *)
(* to nil nothing is ever stored in them again.                            *)
TypeOK ==
  /\ reg \in [Owners -> [Backends -> Entries]]
  /\ joined \in [Forwarders -> SUBSET Groups]
  /\ updaters \in [Groups -> SUBSET Forwarders]
  /\ closed \subseteq Owners
  /\ endpoints \in [Forwarders -> SUBSET Backends]
  /\ probe \in [Owners -> [Backends -> {"off", "sick", "well"}]]
  /\ notice \in [Owners -> [Backends -> {"none", "up", "down"}]]
  /\ call \in [Callers -> PendingCalls]
  /\ torn \in [Owners -> SUBSET Backends]
  /\ stale \in [Owners -> SUBSET Backends]
  /\ late \in [Owners -> SUBSET Backends]
  /\ crossed \subseteq Names \X Groups
  /\ \A o \in closed : reg[o] = Nowhere
  /\ \A f \in Forwarders \cap closed : joined[f] = {}
  /\ \A g \in Groups \cap closed : updaters[g] = {}

Init ==
  /\ reg = [o \in Owners |-> Nowhere]
  /\ joined = [f \in Forwarders |-> {}]
  /\ updaters = [g \in Groups |-> {}]
  /\ closed = {}
  /\ endpoints = [f \in Forwarders |-> {}]
  /\ probe = [o \in Owners |-> [b \in Backends |-> "off"]]
  /\ notice = [o \in Owners |-> [b \in Backends |-> "none"]]
  /\ call = [c \in Callers |-> Idle]
  /\ torn = [o \in Owners |-> {}]
  /\ stale = [o \in Owners |-> {}]
  /\ late = [o \in Owners |-> {}]
  /\ crossed = {}

Registered(o) == {b \in Backends : reg[o][b] # "absent"}

(* The forwarders the checker of o reports to: the load balancer itself    *)
(* for a forwarder, the updaters for a group.                              *)
Targets(o) == IF o \in Groups THEN updaters[o] ELSE {o}

(* Provider endpoints: AddEndpoint and DelEndpointByID, keyed by the id.   *)
Added(fs, bs) ==
  [f \in Forwarders |-> IF f \in fs THEN endpoints[f] \cup bs ELSE endpoints[f]]
Dropped(fs, bs) ==
  [f \in Forwarders |-> IF f \in fs THEN endpoints[f] \ bs ELSE endpoints[f]]

(* HealthCheck.AddEndpoint: an id it already has is left as it is.         *)
Watched(o, b) == [probe EXCEPT ![o][b] = IF @ = "off" THEN "sick" ELSE @]

(* A pending call that will still take b out on behalf of the owner o.     *)
Removes(k, o, b) ==
  \/ k.op = "drop" /\ k.f = o /\ k.b = b
  \/ k.op = "forget" /\ k.g = o /\ k.b = b

(* An earlier registration of b with o is still being undone by a call, or *)
(* reported on.                                                            *)
Reusing(o, b) == notice[o][b] # "none" \/ \E c \in Callers : Removes(call[c], o, b)

TornBy(o, b) ==
  [torn EXCEPT ![o] = IF Reusing(o, b) THEN @ \cup {b} ELSE @ \ {b}]

(* The checker of o still has b and takes it for what it was: it says      *)
(* nothing of one that it has found well already, and goes on about one    *)
(* that should not be checked any more.                                    *)
Remembered(o, b, m) == probe[o][b] = "well" \/ (m = "plain" /\ probe[o][b] # "off")

StaleBy(o, b, m) ==
  [stale EXCEPT ![o] = IF Remembered(o, b, m) THEN @ \cup {b} ELSE @ \ {b}]

(* A call is still going to bring f into the group g, or out of it.        *)
Attaching(f, g) ==
  \E c \in Callers : call[c].op = "attach" /\ call[c].f = f /\ call[c].g = g
Detaching(f, g) ==
  \E c \in Callers :
    \/ call[c].op = "detach" /\ call[c].f = f /\ call[c].g = g
    \/ call[c].op = "fclose" /\ call[c].f = f /\ g \in call[c].left

(* A call that begins to change whether g feeds f crosses another: one is  *)
(* under way between f, or a forwarder of the same name, and g; or such a  *)
(* namesake is in g.                                                       *)
Clash(f, g) ==
  \E v \in Forwarders :
    /\ Name[v] = Name[f]
    /\ \/ Attaching(v, g) \/ Detaching(v, g)
       \/ v # f /\ (g \in joined[v] \/ v \in updaters[g])

(* ... and one that crosses none puts right what others left.              *)
CrossedBy(f, gs) ==
  {p \in crossed : p[1] # Name[f] \/ p[2] \notin gs}
    \cup {<<Name[f], g>> : g \in {h \in gs : Clash(f, h)}}

Begin(c, k) == call[c] = Idle /\ call' = [call EXCEPT ![c] = k]
Return(c) == call' = [call EXCEPT ![c] = Idle]

-----------------------------------------------------------------------------
(* Forwarder *)

(* addBackend of a plain backend, one critical section of f.lock.  A map   *)
(* that Close has set to nil panics at the final store, after the endpoint *)
(* has gone to the load balancer or to the checker.                        *)
ForwarderAddBackend(f, b, m) ==
  /\ b \in Ids[f] /\ reg[f][b] = "absent"
  /\ IF m = "plain"
     THEN endpoints' = Added({f}, {b}) /\ UNCHANGED probe
     ELSE probe' = Watched(f, b) /\ UNCHANGED endpoints
  /\ reg' = IF f \in closed THEN reg ELSE [reg EXCEPT ![f][b] = m]
  /\ torn' = TornBy(f, b) /\ stale' = StaleBy(f, b, m)
  /\ UNCHANGED <<joined, updaters, closed, notice, call, late, crossed>>

(* AddBackendGroup, and AddBackendWithChecker of a group: the group enters *)
(* f.backends under f.lock; group.AddUpdater follows without it.           *)
ForwarderJoinGroup(c, f, g) ==
  /\ f \notin closed /\ g \notin joined[f]
  /\ joined' = [joined EXCEPT ![f] = @ \cup {g}]
  /\ Begin(c, [op |-> "attach", f |-> f, g |-> g])
  /\ crossed' = CrossedBy(f, {g})
  /\ UNCHANGED <<reg, updaters, closed, endpoints, probe, notice, torn, stale, late>>

(* DelBackendByID of a plain backend: the entry goes under f.lock, the     *)
(* endpoint afterwards.  Nobody tells the checker of f.                    *)
ForwarderDelBackend(c, f, b) ==
  /\ reg[f][b] # "absent"
  /\ reg' = [reg EXCEPT ![f][b] = "absent"]
  /\ Begin(c, [op |-> "drop", f |-> f, b |-> b])
  /\ UNCHANGED <<joined, updaters, closed, endpoints, probe, notice, histories>>

(* delEndpointByID, the second step of DelBackendByID.                     *)
ForwarderDropEndpoint(c) ==
  /\ call[c].op = "drop"
  /\ endpoints' = Dropped({call[c].f}, {call[c].b})
  /\ Return(c)
  /\ UNCHANGED <<reg, joined, updaters, closed, probe, notice, histories>>

(* DelBackendByID of a group: group.DelUpdaterByName follows.              *)
ForwarderLeaveGroup(c, f, g) ==
  /\ g \in joined[f]
  /\ joined' = [joined EXCEPT ![f] = @ \ {g}]
  /\ Begin(c, [op |-> "detach", f |-> f, g |-> g])
  /\ crossed' = CrossedBy(f, {g})
  /\ UNCHANGED <<reg, updaters, closed, endpoints, probe, notice, torn, stale, late>>

(* Variant: Close forgets the groups.                                      *)
ForwarderCloseNoGroups(c, f) ==
  /\ f \notin closed
  /\ closed' = closed \cup {f}
  /\ reg' = [reg EXCEPT ![f] = Nowhere]
  /\ joined' = [joined EXCEPT ![f] = {}]
  /\ Begin(c, [op |-> "fclose", f |-> f, left |-> {}])
  /\ crossed' = CrossedBy(f, joined[f])
  /\ UNCHANGED <<updaters, endpoints, probe, notice, torn, stale, late>>

(* Close takes the map away under f.lock.                                  *)
ForwarderClose(c, f) ==
  /\ f \notin closed
  /\ closed' = closed \cup {f}
  /\ reg' = [reg EXCEPT ![f] = Nowhere]
  /\ joined' = [joined EXCEPT ![f] = {}]
  /\ Begin(c, [op |-> "fclose", f |-> f, left |-> joined[f]])
  /\ crossed' = CrossedBy(f, joined[f])
  /\ UNCHANGED <<updaters, endpoints, probe, notice, torn, stale, late>>

(* ... then stops its checker and the load balancer.                       *)
ForwarderCloseEnd(c) ==
  /\ call[c].op = "fclose" /\ call[c].left = {}
  /\ LET f == call[c].f IN
       /\ probe' = [probe EXCEPT ![f] = [b \in Backends |-> "off"]]
       /\ notice' = IF Drains THEN [notice EXCEPT ![f] = [b \in Backends |-> "none"]]
                    ELSE notice
  /\ Return(c)
  /\ UNCHANGED <<reg, joined, updaters, closed, endpoints, histories>>

-----------------------------------------------------------------------------
(* GroupBackend *)

(* Variant: only the online backends are handed over.                      *)
HandedOnline(g) == {b \in Backends : reg[g][b] = "plain"}

(* The backends AddUpdater hands to a new updater: the online ones, and,   *)
(* once for each healthy endpoint of the checker, each other backend,      *)
(* whichever endpoint it was that is healthy.                              *)
Handed(g) ==
  {b \in Backends :
     \/ reg[g][b] = "plain"
     \/ reg[g][b] = "checked" /\ \E e \in Backends : probe[g][e] = "well"}

(* Variant: a closed group takes the updater.                              *)
GroupAddUpdaterClosed(c) ==
  /\ call[c].op = "attach"
  /\ updaters' = [updaters EXCEPT ![call[c].g] = @ \cup {call[c].f}]
  /\ endpoints' = Added({call[c].f}, Handed(call[c].g))
  /\ Return(c)
  /\ UNCHANGED <<reg, joined, closed, probe, notice, histories>>

(* AddUpdater, the second step of joining.  A name that is taken is left   *)
(* alone; a closed group panics (nil map) and nothing is stored.           *)
GroupAddUpdater(c) ==
  /\ call[c].op = "attach"
  /\ LET f == call[c].f
         g == call[c].g
         taken == \E v \in updaters[g] : Name[v] = Name[f]
     IN  IF g \in closed \/ taken
         THEN UNCHANGED <<updaters, endpoints>>
         ELSE /\ updaters' = [updaters EXCEPT ![g] = @ \cup {f}]
              /\ endpoints' = Added({f}, Handed(g))
  /\ Return(c)
  /\ UNCHANGED <<reg, joined, closed, probe, notice, histories>>

(* Variant: the updater leaves, the backends stay.                         *)
RemoveUpdaterOnly(f, g) ==
  /\ updaters' = [updaters EXCEPT ![g] = {v \in @ : Name[v] # Name[f]}]
  /\ UNCHANGED endpoints

(* Variant: every updater leaves, whatever its name.                       *)
RemoveAllUpdaters(f, g) ==
  /\ updaters' = [updaters EXCEPT ![g] = {}]
  /\ endpoints' = Dropped(updaters[g], Registered(g))

(* DelUpdaterByName: whichever updater has the name of f leaves, with all  *)
(* the backends of the group.                                              *)
RemoveUpdater(f, g) ==
  LET gone == {v \in updaters[g] : Name[v] = Name[f]}
  IN  /\ updaters' = [updaters EXCEPT ![g] = @ \ gone]
      /\ endpoints' = Dropped(gone, Registered(g))

(* Variant: a group that nobody uses any more is not checked any more.     *)
GroupDelUpdaterIdle(c) ==
  /\ call[c].op = "detach"
  /\ RemoveUpdater(call[c].f, call[c].g)
  /\ probe' = IF updaters'[call[c].g] = {}
                THEN [probe EXCEPT ![call[c].g] = [b \in Backends |-> "off"]]
                ELSE probe
  /\ Return(c)
  /\ UNCHANGED <<reg, joined, closed, notice, histories>>

(* ... called by DelBackendByID of the forwarder                           *)
GroupDelUpdater(c) ==
  /\ call[c].op = "detach"
  /\ RemoveUpdater(call[c].f, call[c].g)
  /\ Return(c)
  /\ UNCHANGED <<reg, joined, closed, probe, notice, histories>>

(* ... and by Close of the forwarder, for one group after the other        *)
ForwarderCloseGroup(c) ==
  /\ call[c].op = "fclose"
  /\ \E g \in call[c].left :
       /\ RemoveUpdater(call[c].f, g)
       /\ call' = [call EXCEPT ![c].left = @ \ {g}]
  /\ UNCHANGED <<reg, joined, closed, probe, notice, histories>>

(* AddBackendWithChecker, one critical section of b.lock.  On a closed     *)
(* group the final store panics, after the checker has got the endpoint.   *)
GroupAddBackend(g, b, m) ==
  /\ b \in Ids[g] /\ reg[g][b] = "absent"
  /\ IF m = "plain"
     THEN endpoints' = Added(updaters[g], {b}) /\ UNCHANGED probe
     ELSE probe' = Watched(g, b) /\ UNCHANGED endpoints
  /\ reg' = IF g \in closed THEN reg ELSE [reg EXCEPT ![g][b] = m]
  /\ torn' = TornBy(g, b) /\ stale' = StaleBy(g, b, m)
  /\ UNCHANGED <<joined, updaters, closed, notice, call, late, crossed>>

(* delBackendByID, under b.lock; if b had a checker, the caller goes on    *)
(* with checker.DelEndpointByID after the lock is released.                *)
GroupDelBackend(c, g, b) ==
  /\ reg[g][b] # "absent"
  /\ reg' = [reg EXCEPT ![g][b] = "absent"]
  /\ endpoints' = Dropped(updaters[g], {b})
  /\ Begin(c, IF reg[g][b] = "checked" THEN [op |-> "forget", g |-> g, b |-> b]
              ELSE Idle)
  /\ UNCHANGED <<joined, updaters, closed, probe, notice, histories>>

(* checker.DelEndpointByID, which calls groupEndpointUpdater back.         *)
GroupForget(c) ==
  /\ call[c].op = "forget"
  /\ LET g == call[c].g
         b == call[c].b
     IN  IF probe[g][b] = "off"
         THEN UNCHANGED <<probe, notice, endpoints>>
         ELSE /\ probe' = [probe EXCEPT ![g][b] = "off"]
              /\ notice' = IF Drains THEN [notice EXCEPT ![g][b] = "none"] ELSE notice
              /\ endpoints' = Dropped(updaters[g], {b})
  /\ Return(c)
  /\ UNCHANGED <<reg, joined, updaters, closed, histories>>

(* Close swaps both maps for nil under b.lock ...                          *)
GroupClose(c, g) ==
  /\ g \notin closed
  /\ closed' = closed \cup {g}
  /\ reg' = [reg EXCEPT ![g] = Nowhere]
  /\ updaters' = [updaters EXCEPT ![g] = {}]
  /\ Begin(c, [op |-> "gstop", g |-> g, left |-> updaters[g], ids |-> Registered(g)])
  /\ UNCHANGED <<joined, endpoints, probe, notice, histories>>

(* ... stops the checker ...                                               *)
GroupCloseStop(c) ==
  /\ call[c].op = "gstop"
  /\ LET g == call[c].g IN
       /\ probe' = [probe EXCEPT ![g] = [b \in Backends |-> "off"]]
       /\ notice' = IF Drains THEN [notice EXCEPT ![g] = [b \in Backends |-> "none"]]
                    ELSE notice
  /\ call' = [call EXCEPT ![c].op = "gclose"]
  /\ UNCHANGED <<reg, joined, updaters, closed, endpoints, histories>>

(* ... and takes the backends out of the updaters, one after the other.    *)
GroupCloseUpdater(c) ==
  /\ call[c].op = "gclose"
  /\ \E u \in call[c].left :
       /\ endpoints' = Dropped({u}, call[c].ids)
       /\ call' = [call EXCEPT ![c].left = @ \ {u}]
  /\ UNCHANGED <<reg, joined, updaters, closed, probe, notice, histories>>

GroupCloseEnd(c) ==
  /\ call[c].op = "gclose" /\ call[c].left = {}
  /\ Return(c)
  /\ UNCHANGED <<reg, joined, updaters, closed, endpoints, probe, notice, histories>>

-----------------------------------------------------------------------------
(* HealthCheck: the health of a watched endpoint changes, and the checker  *)
(* goroutine reports it to addEndpoint or delEndpoint.                     *)

CheckEndpoint(o, b) ==
  /\ probe[o][b] # "off" /\ notice[o][b] = "none"
  /\ probe' = [probe EXCEPT ![o][b] = IF @ = "sick" THEN "well" ELSE "sick"]
  /\ notice' = [notice EXCEPT ![o][b] = IF probe[o][b] = "sick" THEN "up" ELSE "down"]
  /\ stale' = IF reg[o][b] = "checked" THEN [stale EXCEPT ![o] = @ \ {b}] ELSE stale
  /\ UNCHANGED <<reg, joined, updaters, closed, endpoints, call, torn, late, crossed>>

(* Variant: the report does not reach the forwarders.                      *)
ReportUpLost(o, b) ==
  /\ notice[o][b] = "up"
  /\ notice' = [notice EXCEPT ![o][b] = "none"]
  /\ UNCHANGED <<reg, joined, updaters, closed, endpoints, probe, call, histories>>

ReportUp(o, b) ==
  /\ notice[o][b] = "up"
  /\ notice' = [notice EXCEPT ![o][b] = "none"]
  /\ endpoints' = Added(Targets(o), {b})
  /\ late' = IF reg[o][b] = "absent" THEN [late EXCEPT ![o] = @ \cup {b}] ELSE late
  /\ UNCHANGED <<reg, joined, updaters, closed, probe, call, torn, stale, crossed>>

ReportDown(o, b) ==
  /\ notice[o][b] = "down"
  /\ notice' = [notice EXCEPT ![o][b] = "none"]
  /\ endpoints' = Dropped(Targets(o), {b})
  /\ UNCHANGED <<reg, joined, updaters, closed, probe, call, histories>>

-----------------------------------------------------------------------------
Continue(c) ==
  \/ ForwarderDropEndpoint(c)
  \/ GroupAddUpdater(c)
  \/ GroupDelUpdater(c)
  \/ ForwarderCloseGroup(c)
  \/ ForwarderCloseEnd(c)
  \/ GroupForget(c)
  \/ GroupCloseStop(c)
  \/ GroupCloseUpdater(c)
  \/ GroupCloseEnd(c)

Checker ==
  \E o \in Owners, b \in Backends :
    CheckEndpoint(o, b) \/ ReportUp(o, b) \/ ReportDown(o, b)

Next ==
  \/ \E f \in Forwarders, b \in Backends, m \in Modes : ForwarderAddBackend(f, b, m)
  \/ \E g \in Groups, b \in Backends, m \in Modes : GroupAddBackend(g, b, m)
  \/ \E c \in Callers, f \in Forwarders :
       \/ ForwarderClose(c, f)
       \/ \E g \in Groups : ForwarderJoinGroup(c, f, g) \/ ForwarderLeaveGroup(c, f, g)
       \/ \E b \in Backends : ForwarderDelBackend(c, f, b)
  \/ \E c \in Callers, g \in Groups :
       \/ GroupClose(c, g)
       \/ \E b \in Backends : GroupDelBackend(c, g, b)
  \/ \E c \in Callers : Continue(c)
  \/ Checker

Spec == Init /\ [][Next]_vars

(* Goroutines that wait for a lock get it, so a call goes on and a report  *)
(* that is due is delivered.  Nothing obliges clients to call, nor the     *)
(* health of a backend to change.                                          *)
Fairness ==
  /\ \A c \in Callers : WF_vars(Continue(c))
  /\ \A o \in Owners, b \in Backends : WF_vars(ReportUp(o, b) \/ ReportDown(o, b))

FairSpec == Spec /\ Fairness

-----------------------------------------------------------------------------
(* Correctness *)

(* The id b of the owner o is not configured by way of another owner whose *)
(* endpoints may be in the same load balancer: endpoints are keyed by the  *)
(* id, without a count of who added them.                                  *)
Exclusive(o, b) ==
  /\ b \in Ids[o]
  /\ \A p \in Owners \ {o} : b \in Ids[p] => o \in Forwarders /\ p \in Forwarders

(* b may serve requests: it has no checker, or its checker found it well   *)
(* and has told so.                                                        *)
Usable(o, b) ==
  \/ reg[o][b] = "plain"
  \/ reg[o][b] = "checked" /\ probe[o][b] = "well" /\ notice[o][b] = "none"

(* No usable backend is lost: each one is an endpoint of every forwarder   *)
(* its owner feeds, whatever the order in which updaters come and go,      *)
(* health changes and calls overlap.  There are two exceptions: a backend  *)
(* that was registered while the deletion of an earlier registration, or a *)
(* report on it, was still under way (torn); and one that the checker had  *)
(* kept through a deletion and had found well, until it finds a change     *)
(* (stale, forward.go 202).                                                *)
UsableIsServed ==
  \A o \in Owners : \A b \in Backends \ (torn[o] \cup stale[o]) : \A f \in Targets(o) :
    Exclusive(o, b) /\ Usable(o, b) => b \in endpoints[f]

(* The call k is still going to take b out of the endpoints of f for o.    *)
TakesOut(k, o, f, b) ==
  \/ k.op = "drop" /\ o = f /\ k.f = f /\ k.b = b
  \/ k.op \in {"gstop", "gclose"} /\ k.g = o /\ f \in k.left /\ b \in k.ids
BeingRemoved(o, f, b) == \E c \in Callers : TakesOut(call[c], o, f, b)

(* No endpoint outlives its configuration: an endpoint of a forwarder that *)
(* comes from the owner o is registered with o, and o feeds the forwarder, *)
(* or a call that removes it is under way.  The only exception is one that *)
(* the checker reported healthy after it was deregistered (late).          *)
NoStrayEndpoint ==
  \A o \in Owners, f \in Forwarders : \A b \in endpoints[f] \ late[o] :
    Exclusive(o, b) /\ (o \in Forwarders => o = f /\ f \notin closed) =>
      \/ f \in Targets(o) /\ reg[o][b] # "absent"
      \/ BeingRemoved(o, f, b)

(* The two maps agree: a forwarder that lists an open group is one of its  *)
(* updaters, once AddBackendGroup has returned.  The only exception is one *)
(* whose calls on that group crossed each other, or those of a forwarder   *)
(* of the same name, and it ends with the next call that crosses none.     *)
ListedIsFed ==
  \A f \in Forwarders : \A g \in joined[f] :
    \/ g \in closed \/ f \in updaters[g]
    \/ Attaching(f, g)
    \/ <<Name[f], g>> \in crossed

(* ... and a group feeds only forwarders that list it, once DelBackendByID *)
(* or Close has returned, with the same exception.                         *)
FedIsListed ==
  \A g \in Groups : \A f \in updaters[g] :
    \/ g \in joined[f]
    \/ Detaching(f, g)
    \/ <<Name[f], g>> \in crossed

(* A backend whose checker found it sick, and has told so, is not served   *)
(* by way of its group.                                                    *)
SickIsNotServed ==
  \A g \in Groups : \A b \in Backends \ torn[g] : \A f \in updaters[g] :
    Exclusive(g, b) /\ reg[g][b] = "checked" /\ probe[g][b] = "sick"
      /\ notice[g][b] = "none" => b \notin endpoints[f]

(* A backend registered with a checker is being checked by it, though      *)
(* DelBackendByID of a group tells the checker after it has released       *)
(* b.lock (backend.go 207-225).  The only exception is a backend that was  *)
(* registered again in between, or while a report on it was under way.     *)
CheckedIsWatched ==
  \A o \in Owners : \A b \in Backends \ torn[o] :
    reg[o][b] = "checked" => probe[o][b] # "off"

(* No call is under way.                                                   *)
Quiet == \A c \in Callers : call[c] = Idle

(* DelBackendByID is final: what is no longer registered with a forwarder, *)
(* or with a group, is no endpoint of the forwarder when no call is under  *)
(* way and no report is due.                                               *)
DeletedIsNotServed ==
  Quiet =>
    \A o \in Owners, f \in Forwarders \ closed : \A b \in endpoints[f] :
      Exclusive(o, b) /\ (o \in Forwarders => o = f) /\ notice[o][b] = "none" =>
        reg[o][b] # "absent"

(* A backend that its checker finds well comes into service wherever its   *)
(* group is an updated one, unless it is reconfigured or falls sick first. *)
WellIsServedEventually ==
  \A g \in Groups, f \in Forwarders, b \in Backends :
    LET due == /\ f \in updaters[g] /\ b \notin torn[g] /\ Exclusive(g, b)
               /\ reg[g][b] = "checked" /\ probe[g][b] = "well"
    IN  due ~> (b \in endpoints[f] \/ ~due)
=============================================================================
