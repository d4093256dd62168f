------------------------- MODULE GatewayNamesProofs -------------------------
(* Proofs about GatewayNames, for any number of gateways, names, callers.  *)
EXTENDS GatewayNames, TLAPS

USE NamesAssumption

Types ==
    /\ name \in [Gateways -> Names]
    /\ gateways \in [DOMAIN gateways -> Gateways] /\ DOMAIN gateways \subseteq Names
    /\ call \in [Callers -> [g : Gateways, n : Names] \cup {None}]
    /\ registered \subseteq Gateways

\* A gateway is in the map under the name it has, unless it was renamed.
UnderItsName ==
    \A n \in DOMAIN gateways : gateways[n] \notin renamed => n = name[gateways[n]]

\* A registration has the name its gateway has, unless it was renamed.
HasItsName ==
    \A c \in Callers : call[c] # None /\ call[c].g \notin renamed => call[c].n = name[call[c].g]

\* A gateway that is registered is in the map.
Present == \A g \in registered : \E n \in DOMAIN gateways : gateways[n] = g

IInv == Types /\ UnderItsName /\ HasItsName /\ Present

\* Registration, unregistration and renaming keep the map and the calls
\* in step with the names.
LEMMA IInvStep == IInv /\ [Next]_vars => IInv'
  <1> SUFFICES ASSUME IInv, [Next]_vars
               PROVE  IInv'
    OBVIOUS
  <1> USE DEF IInv
  <1>1. CASE UNCHANGED vars
    BY <1>1 DEF vars, Types, UnderItsName, HasItsName, Present
  <1>2. ASSUME NEW g \in Gateways, NEW n \in Names, SetName(g, n)
        PROVE  IInv'
    <2>1. /\ UNCHANGED <<gateways, call, registered>>
          /\ name' = [name EXCEPT ![g] = n]
          /\ InUse(g) => g \in renamed'
          /\ renamed \subseteq renamed'
      BY <1>2 DEF SetName
    <2>2. name' \in [Gateways -> Names] /\ \A h \in Gateways : h # g => name'[h] = name[h]
      BY <2>1 DEF Types
    <2>3. UnderItsName'
      BY <2>1, <2>2 DEF UnderItsName, Types, InUse, Range
    <2>4. HasItsName'
      BY <2>1, <2>2 DEF HasItsName, Types, InUse
    <2>5. QED  BY <2>1, <2>2, <2>3, <2>4 DEF Types, Present
  <1>3. ASSUME NEW c \in Callers, NEW g \in Gateways, RegisterGateway(c, g)
        PROVE  IInv'
    <2>1. /\ UNCHANGED <<name, gateways, registered>>
          /\ call' = [call EXCEPT ![c] = [g |-> g, n |-> name[g]]]
          /\ \A h : h \in renamed \ renamed' => h = g /\ ~InUse(g)
      BY <1>3 DEF RegisterGateway
    <2>2. UnderItsName'
      BY <2>1 DEF UnderItsName, InUse, Range
    <2>3. HasItsName'
      BY <2>1 DEF HasItsName, Types, InUse
    <2>4. QED  BY <2>1, <2>2, <2>3 DEF Types, Present
  <1>4. ASSUME NEW c \in Callers, RegisterStore(c)
        PROVE  IInv'
    <2> DEFINE g == call[c].g
               n == call[c].n
    <2>1. /\ call[c] # None /\ g \in Gateways /\ n \in Names
          /\ call' = [call EXCEPT ![c] = None] /\ UNCHANGED <<name, renamed>>
      BY <1>4 DEF RegisterStore, Types
    <2>2. HasItsName' /\ call' \in [Callers -> [g : Gateways, n : Names] \cup {None}]
      BY <2>1 DEF HasItsName, Types
    <2>3. CASE UNCHANGED <<gateways, registered>>
      BY <2>1, <2>2, <2>3 DEF Types, UnderItsName, Present
    <2>4. CASE /\ n \notin DOMAIN gateways
               /\ gateways' = [x \in DOMAIN gateways \cup {n} |-> IF x = n THEN g ELSE gateways[x]]
               /\ registered' = registered \cup {g}
      <3>1. /\ DOMAIN gateways' = DOMAIN gateways \cup {n} /\ gateways'[n] = g
            /\ \A x \in DOMAIN gateways : gateways'[x] = gateways[x]
        BY <2>4
      <3>2. gateways' \in [DOMAIN gateways' -> Gateways]
        BY <2>1, <2>4 DEF Types
      <3>3. UnderItsName'
        BY <2>1, <3>1 DEF UnderItsName, HasItsName
      <3>4. Present'
        BY <2>4, <3>1 DEF Present
      <3>5. QED  BY <2>1, <2>2, <2>4, <3>1, <3>2, <3>3, <3>4 DEF Types
    <2>5. QED  BY <1>4, <2>3, <2>4 DEF RegisterStore, Accepts
  <1>5. ASSUME NEW n \in Names, UnregisterGateway(n)
        PROVE  IInv'
    <2>1. /\ n \in DOMAIN gateways /\ UNCHANGED <<name, call, renamed>>
          /\ gateways' = [x \in DOMAIN gateways \ {n} |-> gateways[x]]
          /\ registered' = registered \ {gateways[n]}
      BY <1>5 DEF UnregisterGateway, Restrict
    <2>2. gateways' \in [DOMAIN gateways' -> Gateways] /\ DOMAIN gateways' = DOMAIN gateways \ {n}
      BY <2>1 DEF Types
    <2>3. QED  BY <2>1, <2>2 DEF Types, UnderItsName, HasItsName, Present
  <1>6. QED  BY <1>1, <1>2, <1>3, <1>4, <1>5 DEF Next

\* A registered gateway is found under its name and under no other, unless
\* it was renamed since its registration began (gateway_manager.go 37-69).
THEOREM FoundByName == Spec => []RegisteredIsFound
  <1>1. Init => IInv
    BY DEF Init, IInv, Types, UnderItsName, HasItsName, Present
  <1>2. IInv => RegisteredIsFound
    <2> SUFFICES ASSUME IInv, NEW g \in registered \ renamed, NEW n \in Names
                 PROVE  Found(n) = g <=> n = name[g]
      BY DEF RegisteredIsFound
    <2>1. PICK m \in DOMAIN gateways : gateways[m] = g
      BY DEF IInv, Present
    <2>2. g # None /\ m = name[g]
      BY <2>1 DEF IInv, Types, UnderItsName
    <2>3. \A x \in DOMAIN gateways : gateways[x] = g => x = name[g]
      BY DEF IInv, UnderItsName
    <2>4. QED  BY <2>1, <2>2, <2>3 DEF Found
  <1>3. QED  BY <1>1, <1>2, IInvStep, PTL DEF Spec
=============================================================================
