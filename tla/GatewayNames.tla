---------------------------- MODULE GatewayNames ----------------------------
(***************************************************************************)
(* The gateway manager (gateway_manager.go) with the names of the gateways *)
(* (gateway.go, Name and SetName): callers register gateways, unregister   *)
(* names and rename gateways at any time.  A registration reads the name   *)
(* of its gateway before it takes the lock of the manager.  GetGateway is  *)
(* Found; GetGateways reads the range of the same map.                     *)
(***************************************************************************)
EXTENDS Functions

CONSTANTS Gateways, Names, Callers, None

ASSUME NamesAssumption ==
    None \notin Gateways \cup Names \cup [g : Gateways, n : Names]

VARIABLES
    name,       \* name[g]: g.router.Name
    gateways,   \* the map of the manager, a function on some of the names
    call,       \* call[c]: the registration c is in, or None
    registered, \* history: the gateways a caller was told are registered,
                \* and no caller was told are unregistered since
    renamed     \* history: the gateways that got another name while they
                \* were registered or about to be, until they are neither

vars == <<name, gateways, call, registered, renamed>>

\* GetGateway.
Found(n) == IF n \in DOMAIN gateways THEN gateways[n] ELSE None

\* g is registered, or is about to be.
InUse(g) ==
    \/ g \in Range(gateways)
    \/ \E c \in Callers : call[c] # None /\ call[c].g = g

Init ==
    /\ name \in [Gateways -> Names]
    /\ gateways = [n \in {} |-> None]
    /\ call = [c \in Callers |-> None]
    /\ registered = {} /\ renamed = {}

\* SetName.
SetName(g, n) ==
    /\ name[g] # n
    /\ name' = [name EXCEPT ![g] = n]
    /\ renamed' = IF InUse(g) THEN renamed \cup {g} ELSE renamed
    /\ UNCHANGED <<gateways, call, registered>>

\* RegisterGateway up to m.lock.Lock().
RegisterGateway(c, g) ==
    /\ call[c] = None
    /\ call' = [call EXCEPT ![c] = [g |-> g, n |-> name[g]]]
    /\ renamed' = IF InUse(g) THEN renamed ELSE renamed \ {g}
    /\ UNCHANGED <<name, gateways, registered>>

\* Variant: RegisterGateway stores without a look at what is there.
AcceptsAlways(n) == TRUE

\* The map accepts the gateway under the name.
Accepts(n) == n \notin DOMAIN gateways

\* RegisterGateway under the lock; the caller is told what Accepts says.
RegisterStore(c) ==
    /\ call[c] # None
    /\ call' = [call EXCEPT ![c] = None]
    /\ IF Accepts(call[c].n)
         THEN /\ gateways' = [n \in DOMAIN gateways \cup {call[c].n} |->
                                IF n = call[c].n THEN call[c].g ELSE gateways[n]]
              /\ registered' = registered \cup {call[c].g}
         ELSE UNCHANGED <<gateways, registered>>
    /\ UNCHANGED <<name, renamed>>

\* UnregisterGateway: the gateway of the name is returned.
UnregisterGateway(n) ==
    /\ n \in DOMAIN gateways
    /\ gateways' = Restrict(gateways, DOMAIN gateways \ {n})
    /\ registered' = registered \ {gateways[n]}
    /\ UNCHANGED <<name, call, renamed>>

Next ==
    \/ \E g \in Gateways, n \in Names : SetName(g, n)
    \/ \E c \in Callers, g \in Gateways : RegisterGateway(c, g)
    \/ \E c \in Callers : RegisterStore(c)
    \/ \E n \in Names : UnregisterGateway(n)

Spec == Init /\ [][Next]_vars

-----------------------------------------------------------------------------
(* A gateway that a caller was told is registered is found under its name, *)
(* and under no other, until a caller is given it back: unless it was      *)
(* renamed since its registration began, which leaves it under the name it *)
(* had (RegisterGateway reads the name once, before the lock).             *)
RegisteredIsFound ==
    \A g \in registered \ renamed : \A n \in Names : Found(n) = g <=> n = name[g]
=============================================================================
