----------------------------- MODULE PluginChain -----------------------------
(***************************************************************************)
(* The plugins of a route (plugin.go, route.go 221-241, gateway.go         *)
(* 406-443).  RegisterRoute looks up each plugin by its name, under a lock *)
(* that it takes anew for each, while others register and unregister       *)
(* plugins; it sorts those it found and wraps the route's handler in their *)
(* middlewares.                                                            *)
(***************************************************************************)
EXTENDS Integers, Sequences, FiniteSets

CONSTANTS
  Plugins,   \* the plugins
  Name,      \* Name[p]: the name of the plugin p
  Priority,  \* Priority[p]: its priority
  Configs,   \* the configurations
  MaxLen,    \* bound: the plugins of a route
  None

Names == {Name[p] : p \in Plugins}

ASSUME PluginsAssumption == Priority \in [Plugins -> Int] /\ None \notin Plugins
ASSUME BoundAssumption == MaxLen \in Nat

(* The Plugins field of a route.                                           *)
Routes == UNION {[1..n -> [name : Names, config : Configs]] : n \in 0..MaxLen}

VARIABLES
  plugins,  \* g.plugins
  pc,       \* where RegisterRoute is
  route,    \* its argument
  next,     \* the plugin that it looks up next
  found,    \* its slice of plugins
  chain     \* its middlewares, the one called first at the head

build == <<pc, route, next, found, chain>>
vars == <<plugins, build>>

Init ==
  /\ plugins = [n \in Names |-> None]
  /\ pc = "idle" /\ route = << >> /\ next = 1 /\ found = << >> /\ chain = << >>

-----------------------------------------------------------------------------
(* A name that is taken is an error.                                       *)
RegisterPlugin(p) ==
  /\ plugins[Name[p]] = None
  /\ plugins' = [plugins EXCEPT ![Name[p]] = p]
  /\ UNCHANGED build

UnregisterPlugin(n) ==
  /\ plugins[n] # None
  /\ plugins' = [plugins EXCEPT ![n] = None]
  /\ UNCHANGED build

-----------------------------------------------------------------------------
(* Sort: a stable sort by Less, so the i-th comes after those of a smaller *)
(* priority and those of the same priority before it.                      *)
Rank(ps, i) ==
  Cardinality({j \in DOMAIN ps : \/ Priority[ps[j]] < Priority[ps[i]]
                                 \/ Priority[ps[j]] = Priority[ps[i]] /\ j <= i})

(* Variant: the order of the route.                                        *)
Unsorted(ps) == ps

Sort(ps) == [n \in DOMAIN ps |-> ps[CHOOSE i \in DOMAIN ps : Rank(ps, i) = n]]

(* Variant: the configurations are in the order of the calls.              *)
WrapByCall(ps, r) ==
  [i \in DOMAIN ps |-> [plugin |-> ps[Len(ps) + 1 - i], config |-> r[i].config]]

(* The loop over the sorted plugins: each gets the configuration that is   *)
(* at its index in the route, and is wrapped around those before it.       *)
Wrap(ps, r) ==
  LET n == Len(ps) IN
    [i \in DOMAIN ps |-> [plugin |-> ps[n + 1 - i], config |-> r[n + 1 - i].config]]

Begin(r) ==
  /\ pc = "idle"
  /\ pc' = "find" /\ route' = r /\ next' = 1 /\ found' = << >> /\ chain' = << >>
  /\ UNCHANGED plugins

Fail ==
  /\ pc' = "idle" /\ route' = << >> /\ next' = 1 /\ found' = << >> /\ chain' = << >>
  /\ UNCHANGED plugins

(* Variant: a plugin that is not registered is passed over.                *)
FindOrSkip ==
  /\ pc = "find" /\ next <= Len(route)
  /\ LET p == plugins[route[next].name] IN
       found' = IF p = None THEN found ELSE Append(found, p)
  /\ next' = next + 1
  /\ UNCHANGED <<plugins, pc, route, chain>>

(* Variant: whatever is looked up is taken.                                *)
FindUnchecked ==
  /\ pc = "find" /\ next <= Len(route)
  /\ found' = Append(found, plugins[route[next].name])
  /\ next' = next + 1
  /\ UNCHANGED <<plugins, pc, route, chain>>

(* g.Plugin(pc.Name)                                                       *)
Find ==
  /\ pc = "find" /\ next <= Len(route)
  /\ LET p == plugins[route[next].name] IN
       /\ p # None
       /\ found' = Append(found, p)
  /\ next' = next + 1
  /\ UNCHANGED <<plugins, pc, route, chain>>

(* No plugin has the name.                                                 *)
FindFails ==
  /\ pc = "find" /\ next <= Len(route)
  /\ plugins[route[next].name] = None
  /\ Fail

Build ==
  /\ pc = "find" /\ next > Len(route)
  /\ pc' = "built"
  /\ chain' = Wrap(Sort(found), route)
  /\ UNCHANGED <<plugins, route, next, found>>

(* A plugin refuses its configuration.                                     *)
BuildFails == pc = "find" /\ next > Len(route) /\ route # << >> /\ Fail

(* The route is handed on.                                                 *)
Done == pc = "built" /\ Fail

Next ==
  \/ \E p \in Plugins : RegisterPlugin(p)
  \/ \E n \in Names : UnregisterPlugin(n)
  \/ \E r \in Routes : Begin(r)
  \/ Find \/ FindFails \/ Build \/ BuildFails \/ Done

Spec == Init /\ [][Next]_vars

-----------------------------------------------------------------------------
TypeOK ==
  /\ plugins \in [Names -> Plugins \cup {None}]
  /\ pc \in {"idle", "find", "built"}
  /\ route \in Routes
  /\ next \in 1..(Len(route) + 1)
  /\ found \in Seq(Plugins)
  /\ chain \in Seq([plugin : Plugins, config : Configs])

(* A plugin of a higher priority is called before one of a lower priority, *)
(* in whatever order the route lists them (plugin.go 30: "The bigger the   *)
(* value, the higher the priority, and the plugin is called                *)
(* preferentially.").                                                      *)
HighestFirst ==
  \A i, j \in DOMAIN chain :
    i < j => Priority[chain[i].plugin] >= Priority[chain[j].plugin]

Times(s, P(_)) == Cardinality({i \in DOMAIN s : P(s[i])})

(* A route that is built runs each plugin that it lists as often as it     *)
(* lists it, and no other, though plugins come and go while it looks them  *)
(* up (route.go 222-241).                                                  *)
ListedOnce ==
  pc = "built" =>
    \A n \in Names :
      Times(chain, LAMBDA m : Name[m.plugin] = n) = Times(route, LAMBDA x : x.name = n)

Own(m) == \E x \in {route[i] : i \in DOMAIN route} : x.name = Name[m.plugin] /\ x.config = m.config

(* A plugin runs with a configuration that the route gives for it (route.go *)
(* 37: "RoutePlugin is used to configure the route plugin.").              *)
OwnConfig == \A i \in DOMAIN chain : Own(chain[i])

(* So it does if the route lists its plugins from the lowest priority to   *)
(* the highest (route.go 231-241).                                         *)
OwnConfigWhenSorted ==
  (\A i, j \in DOMAIN found : i < j => Priority[found[i]] <= Priority[found[j]]) => OwnConfig
=============================================================================
